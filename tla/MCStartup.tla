------------------------------ MODULE MCStartup ------------------------------
(***************************************************************************)
(* Startup with two databases, one or two measurements and two shapes.     *)
(***************************************************************************)
EXTENDS Startup

CONSTANTS a, b

\* A record with a field, and one with another field besides.
TwoShapes == {{a}, {a, b}}

\* Statements whose failure ends main, or that the next start repeats.
Repeated == {<<"meta", "addDb">>, <<"meta", "load">>, <<"policy", "addDb">>,
             <<"policy", "load">>, <<"main", "ensureDb">>}
\* Statements of a write whose failure is its answer.
Refused == {<<"write", "schema">>, <<"write", "create">>}
Failing == Repeated \cup Refused

\* A start may be cut short anywhere but between the change of a key's column and of the key,
\* and between the move of the last table and that of the metadata; a write anywhere but
\* between the record of a column and its addition to the table.
Resumed == (Steps \cup Serving)
           \ ((Catalogs \X {"dropKey", "addKey"}) \cup {<<"main", "assign">>, <<"write", "alter">>})

=============================================================================
