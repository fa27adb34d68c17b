----------------------------- MODULE MCRequests -----------------------------
(* Requests on a small instance. *)
EXTENDS Requests
CONSTANTS ann, bob

(* Every route, kind of token and body, in the combinations that differ;    *)
(* ann is an admin at first and bob is not.  An expired token may come with *)
(* a request that needs none, as it does to /auth/refresh.                  *)
MCAsks ==
    [route : {"user"}, bearer : {bob}, body : {"good", "invalid"}]
    \cup [route : {"admin"}, bearer : {ann}, body : {"good"}]
    \cup [route : {"admin"}, bearer : {None, bob}, body : {"invalid"}]
    \cup [route : {"user"}, bearer : {"expired", "missing_subject"}, body : {"good"}]
    \cup [route : {"user"}, bearer : {None}, body : {"garbled", "unparsable"}]
    \cup [route : {"open"}, bearer : {"expired"}, body : {"good"}]
    \cup [route : {"unknown"}, bearer : {None}, body : {"good"}]

(* A path that is none, and an upload. *)
MCRuleAsks == [route : {"unknown"}, bearer : {None}, body : {"good"}]
              \cup [route : {"user"}, bearer : {bob}, body : {"good"}]
=============================================================================
