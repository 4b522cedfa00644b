------------------------- MODULE RevisionLifecycle -------------------------
(***************************************************************************)
(* The life of a model revision as the admin API shows it: the derived     *)
(* availability, and whether the revision has been published.  This is     *)
(* what the repository's nine row operations promise together: a published *)
(* revision is never a draft again, a draft becomes available only by      *)
(* being published, a retired one comes back only by being restored, and   *)
(* none is ever gone.                                                      *)
(***************************************************************************)
CONSTANT Bindings

VARIABLES availability, published

Shown == {"disabled", "draft", "available"}
Availabilities == Shown \cup {"absent", "retired"}

Move(b, next) == availability' = [availability EXCEPT ![b] = next]

\* An ensure publishes; one that lost a race against a delete does so unseen.
Publish(b) ==
  /\ Move(b, IF availability[b] = "retired" THEN "retired" ELSE "available")
  /\ published' = [published EXCEPT ![b] = TRUE]

Disable(b) ==
  availability[b] \in {"draft", "available"} /\ Move(b, "disabled") /\ UNCHANGED published

Enable(b) ==
  /\ availability[b] = "disabled"
  /\ Move(b, IF published[b] THEN "available" ELSE "draft")
  /\ UNCHANGED published

Retire(b) == availability[b] \in Shown /\ Move(b, "retired") /\ UNCHANGED published

\* The status may have been written while the revision was retired.
Restore(b) ==
  /\ availability[b] = "retired"
  /\ Move(b, "disabled") \/ Move(b, IF published[b] THEN "available" ELSE "draft")
  /\ UNCHANGED published

Init ==
  /\ published \in [Bindings -> BOOLEAN]
  /\ availability \in [Bindings -> {"absent", "disabled", "available"}]
  /\ \A b \in Bindings : published[b] <=> availability[b] = "available"

Next ==
  \E b \in Bindings :
    Publish(b) \/ Disable(b) \/ Enable(b) \/ Retire(b) \/ Restore(b)

Spec == Init /\ [][Next]_<<availability, published>>
=============================================================================
