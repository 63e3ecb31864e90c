------------------------------ MODULE Database ------------------------------
(* The database as the persistence calls share it: SQLite gives them a single  *)
(* connection (SetMaxOpenConns(1) with _txlock=immediate), PostgreSQL runs     *)
(* their statements side by side.                                              *)
CONSTANTS
    Calls,   \* concurrent calls of the server
    Serial   \* TRUE: SQLite's single connection; FALSE: PostgreSQL
=============================================================================
