---------------------- MODULE SessionGatewayRefinement ----------------------
(***************************************************************************)
(* The session gateway implements the session lifecycle.  The mapping      *)
(* forgets the lock, the awaits, the outside world and the failure stage.  *)
(***************************************************************************)
EXTENDS SessionGateway

Shown(f) == [state |-> f.state, tunnel |-> f.tunnel, session |-> f.session]

\* A task that is alive and has not been told to stop will give a verdict.
AtWork == \E p \in PollTask : Alive(p) /\ ~poll[p].cancelled

TermPc == {"term_post", "term_delete", "term_final"}
InTeardown == {r \in Request : req[r].pc \in TermPc}

Lifecycle == INSTANCE SessionLifecycle WITH
    Teardown <- Request,
    status <- Shown(Image),
    saved <- IF file = NoFile THEN {} ELSE {Shown(file)},
    issued <- 1 .. minted,
    working <- AtWork,
    ending <- InTeardown

\* However handlers, task, crashes and lost writes interleave, a client sees
\* the lifecycle: a session begins under nobody's work, work ends in a verdict
\* and never in silence, SHUTDOWN follows a teardown that has begun.
ImplementsLifecycle == Lifecycle!Spec
=============================================================================
