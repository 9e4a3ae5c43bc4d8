------------------------------ MODULE MCReleases ------------------------------
(* Small instances of Releases.                                              *)
EXTENDS Releases, TLC

CONSTANTS e1, e2, r, c1, c2

\* The releases that nobody deletes: what ships then when it is not open was published before.
NextWithoutDeletes == Next /\ \A c \in Clients : request'[c].step # "deleteItems"
SpecWithoutDeletes == Init /\ [][NextWithoutDeletes]_vars
===============================================================================
