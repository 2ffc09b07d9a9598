------------------------- MODULE MCRelayConnection -------------------------
(***************************************************************************)
(* RelayConnection for TLC, in two settings at once: the constants of the    *)
(* configuration let anything happen at any time; a calm behaviour, chosen   *)
(* at the start, has one session, connections that are not lost before        *)
(* connected_ is set, no event ahead of the reply to signalwire.connect, and  *)
(* a disconnect() only once run() has its loop. Liveness is a matter of calm  *)
(* behaviours: RelayConnection says what breaks it in the others.             *)
(***************************************************************************)
EXTENDS RelayConnection

VARIABLE calm

Calm == INSTANCE RelayConnection WITH
  Sessions <- {CHOOSE p \in Sessions : TRUE},
  EarlyLoss <- FALSE, EarlyFrames <- FALSE, Disconnects <- "once running"

\* The constants of the configuration allow what a calm behaviour does.
ASSUME CalmAssumption == Sessions # {} /\ Disconnects # "never"

MCInit == calm \in BOOLEAN /\ Init

MCNext == /\ UNCHANGED calm
          /\ \/ calm /\ Calm!Next
             \/ ~calm /\ Next

\* The fairness of RelayConnection, asked of calm behaviours only.
MCSpec == /\ MCInit /\ [][MCNext]_<<vars, calm>>
          /\ WF_vars(calm /\ ~crashed /\ (Main /\ main # "idle"))
          /\ WF_vars(calm /\ ~crashed /\ (OnCloseClears \/ OnCloseRejects \/ ReaderExits))
          /\ WF_vars(calm /\ ~crashed /\ (Disconnect /\ app # "idle"))

\* In calm behaviours signalwire.connect carries the latest credentials: the ones of
\* the last frames after a loss, none after a restart.
ResendsLatestCredentialsWhenCalm == [][calm => Resends]_vars

\* In calm behaviours a loss leads to a connection, or to the end of run().
ReconnectsWhenCalm == calm => Reconnects

\* In calm behaviours disconnect() ends run().
DisconnectStopsRunWhenCalm == calm => DisconnectStopsRun
=============================================================================
