----------------------------- MODULE Lifecycle -----------------------------
(***************************************************************************)
(* What one session promises the rest of the server: the phases it passes  *)
(* through and when the connection manager lists it.  A session is listed  *)
(* at most once, it is admitted only after it was listed, it never leaves  *)
(* the closed phase, and a closed session does not stay listed.            *)
(***************************************************************************)
VARIABLES
  phase,   \* the session's state, as is_authenticated() tells it
  listed,  \* the connection manager's map holds the session
  joined   \* it has been listed at some time

lifeVars == <<phase, listed, joined>>

LifeInit == phase = "unauthenticated" /\ listed = FALSE /\ joined = FALSE

\* register_session().
Join ==
  /\ phase = "unauthenticated" /\ ~joined
  /\ joined' = TRUE /\ listed' = TRUE
  /\ UNCHANGED phase

\* The handshake is complete.
Admit ==
  /\ phase = "unauthenticated" /\ joined
  /\ phase' = "authenticated"
  /\ UNCHANGED <<listed, joined>>

\* The session ends, for whatever reason.
End ==
  /\ phase # "closed"
  /\ phase' = "closed"
  /\ UNCHANGED <<listed, joined>>

\* unregister_session() or stop_all().
Leave ==
  /\ listed /\ listed' = FALSE
  /\ UNCHANGED <<phase, joined>>

LifeNext == Join \/ Admit \/ End \/ Leave

LifeSafety == LifeInit /\ [][LifeNext]_lifeVars

LifeSpec == LifeSafety /\ WF_lifeVars(phase = "closed" /\ Leave)
=============================================================================
