----------------------------- MODULE PodSettings -----------------------------
(***************************************************************************)
(* What each pod keeps of the runtime settings: the copy it runs on, and   *)
(* the change token its loop compares with (runtimeReloadLoop and          *)
(* reloadRuntimeConfig of internal/proxy/admin_settings.go).  gen numbers  *)
(* the state of the table a copy or a token was taken from.                *)
(***************************************************************************)
EXTENDS Naturals

CONSTANT Pods  \* the pods whose copies are followed

VARIABLES
  conf,    \* the settings each pod runs on
  loop,    \* runtimeReloadLoop of each pod
  last,    \* its last token
  misled   \* history: why a pod may run on older settings than its token stands for

pods == <<conf, loop, last, misled>>

Verdict(q, copy) ==
  CASE copy.failed               -> "fault"
    [] ~copy.failed /\ copy.gen < conf[q].gen -> "overtaken"
    [] ~copy.failed /\ copy.gen >= conf[q].gen -> IF copy.gen >= last[q].gen THEN "no" ELSE misled[q]

(* The end of a reload: the copy is swapped in, whatever became of it.  One *)
(* step here; the code stores the categories one after the other, so two   *)
(* reloads of a pod at once can also leave a mixture of their copies.      *)
Swap(q, copy) ==
  /\ conf' = [conf EXCEPT ![q] = [vals |-> copy.vals, gen |-> copy.gen]]
  /\ misled' = [misled EXCEPT ![q] = Verdict(q, copy)]

\* The settings a pod runs on are as new as the token its loop compares with,
\* so that no change hides behind that token, unless the loop began after the
\* settings were loaded, a list failed, or an older list was swapped in last.
NeverBehindItsToken ==
  \A q \in Pods : misled[q] = "no" /\ loop[q].pc # "seed" => last[q].gen <= conf[q].gen
=============================================================================
