---------------------------- MODULE AtomicConfig ----------------------------
(***************************************************************************)
(* What config.go promises of config.json, without saying how: the file    *)
(* changes from one whole configuration to the next in a single step, that *)
(* step stores exactly the live rules, and a process that starts begins    *)
(* with a configuration that was stored before.                            *)
(***************************************************************************)
CONSTANTS Entry, Static, Unreadable

VARIABLES
  running,  \* the process runs
  live,     \* its configuration
  stored,   \* config.json
  fallback  \* what a power cut may put in its place

vars == <<running, live, stored, fallback>>

Content == [dyn : SUBSET Entry, static : Static]

Init ==
  /\ running = TRUE
  /\ live \in Content
  /\ stored = live
  /\ fallback = {live}

\* A line of a request changes one entry of the live rules.
Change(e) ==
  /\ running
  /\ live' \in {[live EXCEPT !.dyn = @ \cup {e}], [live EXCEPT !.dyn = @ \ {e}]}
  /\ UNCHANGED <<running, stored, fallback>>

\* A save stores the live rules, whole and at once.
Commit ==
  /\ running
  /\ \E s \in Static : stored' = [dyn |-> live.dyn, static |-> s]
  /\ fallback' = fallback \cup {stored'}
  /\ UNCHANGED <<running, live>>

Stop ==
  /\ running /\ running' = FALSE
  /\ \/ UNCHANGED <<stored, fallback>>
     \/ stored' \in fallback /\ fallback' = {stored'}
  /\ UNCHANGED live

Start ==
  /\ ~running /\ running' = TRUE
  /\ stored # Unreadable
  /\ live' = stored
  /\ UNCHANGED <<stored, fallback>>

\* The operating system reaches a state in which nothing can come back.
Settle ==
  /\ fallback' = {stored}
  /\ UNCHANGED <<running, live, stored>>

\* The operator edits or destroys the file.
Edit(s) ==
  /\ stored # Unreadable
  /\ stored' = [stored EXCEPT !.static = s]
  /\ fallback' = {stored'}
  /\ UNCHANGED <<running, live>>

Destroy ==
  /\ stored' = Unreadable /\ fallback' = {Unreadable}
  /\ UNCHANGED <<running, live>>

Next ==
  \/ \E e \in Entry : Change(e)
  \/ Commit \/ Stop \/ Start \/ Settle \/ Destroy
  \/ \E s \in Static : Edit(s)

Spec == Init /\ [][Next]_vars
=============================================================================
