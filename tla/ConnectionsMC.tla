--------------------------- MODULE ConnectionsMC ---------------------------
(***************************************************************************)
(* The life of a connection to the hub on small instances: it is installed *)
(* (ConnectionInstall), kept up (ConnectorSessions) and read               *)
(* (SourceReplay).  The three share no state: a behaviour runs one of      *)
(* them, chosen at the start, and leaves the others in their initial state.*)
(***************************************************************************)
EXTENDS ConnectionInstall, ConnectorSessions, SourceReplay

VARIABLE part

\* The second connection of the order keeps its first configuration.
EarlyReconfigures == [c \in {1, 2} |-> 3 - c]

ConnectionsInit ==
    /\ part \in {"install", "sessions", "replay"}
    /\ InstallInit /\ SessionsInit /\ ReplayInit

ConnectionsNext ==
    /\ UNCHANGED part
    /\ \/ part = "install" /\ InstallNext /\ UNCHANGED <<sessionVars, replayVars>>
       \/ part = "sessions" /\ SessionsNext /\ UNCHANGED <<installVars, replayVars>>
       \/ part = "replay" /\ ReplayNext /\ UNCHANGED <<installVars, sessionVars>>

\* Nothing has to happen during an install.
ConnectionsSpec ==
    /\ ConnectionsInit
    /\ [][ConnectionsNext]_<<part, installVars, sessionVars, replayVars>>
    /\ \/ part = "install"
       \/ part = "sessions" /\ SessionsFairness
       \/ part = "replay" /\ ReplayFairness

-----------------------------------------------------------------------------

(* Every variable of the three parts keeps its type.                       *)
ConnectionsTypeOK == InstallTypeOK /\ SessionsTypeOK /\ ReplayTypeOK

(* EventuallyMatches of ConnectorSessions, where the connector runs.       *)
SessionsEventuallyMatch == part = "sessions" => EventuallyMatches

=============================================================================
