-------------------------- MODULE MCAsyncReserver --------------------------
(* An instance of AsyncReserver for TLC.                                    *)
EXTENDS AsyncReserver

MCContext == {"grant", "preempt"} \X (1 .. MaxRequests)
=============================================================================
