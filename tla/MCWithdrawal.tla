---------------------------- MODULE MCWithdrawal ----------------------------
(* Two withdrawals that no admin handles, or one whose job is not restarted*)
(* and that an admin handles.                                              *)
EXTENDS Withdrawal

ByAdmin == calls # {} \/ touched # {}

Restarted ==
  \/ \E k \in DOMAIN queue : queue[k].stalled > 0
  \/ worker # Resting /\ worker.job.stalled > 0

Alone == Cardinality({w \in Withdrawals : row[w].status # "none"}) <= 1 /\ ~Restarted

MCNext == Next /\ (ByAdmin => Alone)'

MCSpec ==
  /\ Init /\ [][MCNext]_vars
  /\ WF_vars(Flip)
  /\ WF_vars(StatusSelect)
  /\ WF_vars(\E x \in batch : CheckTransfer(x) \/ CheckFails(x))
  /\ \A w \in Withdrawals : SF_vars(\E x \in batch : x.w = w /\ CheckTransfer(x))
=============================================================================
