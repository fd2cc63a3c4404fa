------------------------------- MODULE Runner -------------------------------
(***************************************************************************)
(* What a worker may rely on when it keeps a job among its active ones:     *)
(* the job's process, and what the runner says of it, until it is gone.     *)
(*                                                                         *)
(* The process is spawned once, and only as long as nobody has asked the    *)
(* runner to stop.  The runner says that the process completed, or that it  *)
(* failed, never both, and as it was; once it was asked to stop it begins   *)
(* to say only that the job is canceled, and not even that if it was told   *)
(* to be silent.  It says nothing while the process runs, and leaves no     *)
(* process behind, unless it was asked again before it was done.            *)
(***************************************************************************)
Outcomes == {"completed", "failed", "canceled"}
Nothing  == "nothing"

VARIABLES
  job,       \* "active", "stopping" once asked to stop, "none"
  silent,    \* whether the last who asked told it to be silent
  again,     \* whether it was asked more than once
  process,   \* "none", "running", and then its exit code, "zero" or not
  saying,    \* the outcome it is trying to tell the coordinator
  said,      \* the outcomes that have arrived or still may
  failed     \* whether a request has failed

vars == <<job, silent, again, process, saying, said, failed>>

Init ==
  /\ job = "active" /\ silent = FALSE /\ again = FALSE
  /\ process = "none"
  /\ saying = Nothing /\ said = {}
  /\ failed = FALSE

Start ==
  /\ job = "active" /\ process = "none" /\ saying = Nothing /\ said = {}
  /\ process' = "running"
  /\ UNCHANGED <<job, silent, again, saying, said, failed>>

(* Nobody asks for the code of a process that was told to stop: it counts   *)
(* as not zero.                                                            *)
Exit(code) ==
  /\ process = "running"
  /\ code = "zero" => job = "active"
  /\ process' = code
  /\ UNCHANGED <<job, silent, again, saying, said, failed>>

(* Somebody asks it to stop.                                               *)
Stop(silently) ==
  /\ job # "none"
  /\ job' = "stopping" /\ silent' = silently /\ again' = (job = "stopping")
  /\ UNCHANGED <<process, saying, said, failed>>

(* Which outcomes it may begin to tell.                                     *)
MayBe(outcome) ==
  CASE outcome = "completed" -> job = "active" /\ process = "zero" /\ said = {}
    [] outcome = "failed"    -> job = "active" /\ process \in {"none", "nonzero"} /\ said = {}
    [] outcome = "canceled"  -> job = "stopping" /\ ~silent /\ (process # "running" \/ again)

Begin(outcome) ==
  /\ saying = Nothing
  /\ MayBe(outcome)
  /\ saying' = outcome
  /\ failed' \in {failed, TRUE}
  /\ UNCHANGED <<job, silent, again, process, said>>

(* The outcome was taken, or it may have been, or not.                      *)
Tell ==
  /\ saying # Nothing
  /\ said' = said \cup {saying} /\ saying' = Nothing
  /\ UNCHANGED <<job, silent, again, process, failed>>

TellFails ==
  /\ saying # Nothing
  /\ said' \in {said, said \cup {saying}} /\ saying' \in {saying, Nothing}
  /\ failed' = TRUE
  /\ UNCHANGED <<job, silent, again, process>>

TellIsCut ==
  /\ saying # Nothing /\ job = "stopping"
  /\ said' \in {said, said \cup {saying}} /\ saying' = Nothing
  /\ UNCHANGED <<job, silent, again, process, failed>>

Fail ==
  /\ failed' = TRUE
  /\ UNCHANGED <<job, silent, again, process, saying, said>>

(* Unless it was asked to stop or a request failed, it has said something.  *)
End ==
  /\ job # "none" /\ saying = Nothing
  /\ process = "running" => again
  /\ job = "active" => said # {} \/ failed
  /\ job' = "none"
  /\ UNCHANGED <<silent, again, process, saying, said, failed>>

Next ==
  \/ Start
  \/ \E code \in {"zero", "nonzero"} : Exit(code)
  \/ \E silently \in BOOLEAN : Stop(silently)
  \/ \E outcome \in Outcomes : Begin(outcome)
  \/ Tell
  \/ TellFails
  \/ TellIsCut
  \/ Fail
  \/ End

Spec == Init /\ [][Next]_vars
=============================================================================
