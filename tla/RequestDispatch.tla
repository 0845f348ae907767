-------------------------- MODULE RequestDispatch --------------------------
(***************************************************************************)
(* What grdHandler does with a request for a definition it serves, by      *)
(* subresource and verb: the storage whose handler answers, or the error.  *)
(***************************************************************************)

NotFound == "NotFound"
MethodNotSupported == "MethodNotSupported"

\* No new instances while the definition is terminating.
serveResource(verb, terminating) ==
    IF \/ verb \in {"get", "list", "watch", "update", "patch", "delete", "deletecollection"}
       \/ verb = "create" /\ ~terminating
    THEN "resource" ELSE MethodNotSupported

serveStatus(verb) == IF verb \in {"get", "update", "patch"} THEN "status" ELSE MethodNotSupported

serveRef(verb) == IF verb = "get" THEN "ref" ELSE MethodNotSupported

serveHistory(verb) == IF verb = "get" THEN "history" ELSE MethodNotSupported

\* Seeded fault: the history is not served.
DispatchNoHistory(sub, verb, subresources, terminating) ==
    CASE sub = "" -> serveResource(verb, terminating)
      [] sub = "status" /\ sub \in subresources -> serveStatus(verb)
      [] sub = "ref" /\ sub \in subresources -> serveRef(verb)
      [] OTHER -> NotFound

\* subresources: those of the version in the definition.
Dispatch(sub, verb, subresources, terminating) ==
    CASE sub = "" -> serveResource(verb, terminating)
      [] sub = "status" /\ sub \in subresources -> serveStatus(verb)
      [] sub = "ref" /\ sub \in subresources -> serveRef(verb)
      [] sub = "history" /\ sub \in subresources -> serveHistory(verb)
      [] OTHER -> NotFound
=============================================================================
