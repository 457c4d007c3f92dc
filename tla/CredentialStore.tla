-------------------------- MODULE CredentialStore --------------------------
(* What the vault promises its callers: a store of per-tenant credential maps
   in which every update is atomic and a change of encryption mode changes no
   credential. *)
CONSTANTS Artifact, Entry

VARIABLES mode,   \* "none" before first-run setup, then "plain" or "enc"
          store   \* each map's credentials

Init == mode = "none" /\ store = [a \in Artifact |-> {}]

(* First-run setup, enabling and disabling encryption. *)
SetMode == /\ mode' \in {"plain", "enc"} \ {mode}
           /\ UNCHANGED store

(* One credential is added to or removed from one map of a vault that is set up. *)
Change(a, e) ==
    /\ mode # "none"
    /\ \E map \in {store[a] \cup {e}, store[a] \ {e}} : store' = [store EXCEPT ![a] = map]
    /\ UNCHANGED mode

Next == SetMode \/ \E a \in Artifact, e \in Entry : Change(a, e)

Spec == Init /\ [][Next]_<<mode, store>>
=============================================================================
