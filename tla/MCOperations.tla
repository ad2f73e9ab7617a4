---------------------------- MODULE MCOperations ----------------------------
(***************************************************************************)
(* What works beside the engines, in one run: Credentials, Schema,         *)
(* IdentityMapping, LiveUpdates, PersonalControl and PrListing.  They      *)
(* share no variable, so it is enough to explore each while the others are *)
(* at rest.                                                                *)
(***************************************************************************)
EXTENDS Credentials, Schema, IdentityMapping, LiveUpdates, PersonalControl,
        PrListing, TLC

CONSTANTS a, b, ab

MCParent == [r \in {a, b, ab} |-> IF r = ab THEN a ELSE None]

\* Users 1 and 2 have the addresses 11 and 12; 13 is somebody else's.
MCFallback == [u \in Users |-> u + 10]

\* Secrets are interchangeable, and so are lookups.
MCSymmetry == Permutations(Secrets) \cup Permutations(Lookups)

CredAtRest == boot = "down" /\ deaths = 0 /\ ~env /\ global = None
SchemaAtRest == opens = 0 /\ version = 0 /\ progress = {}
IdentityAtRest ==
    /\ lookups = 0 /\ edits = 0 /\ configured = {}
    /\ cache = [u \in Users |-> Nobody]
LiveAtRest == sent = 0 /\ conn = [x \in Clients |-> "off"]
ControlAtRest == launches = 0
PrAtRest == closed = {} /\ moves = 0 /\ listings = 0

MCInit ==
    /\ CredInit /\ SchemaInit /\ IdentityInit /\ LiveInit /\ ControlInit
    /\ PrInit
    /\ cache[2] = Nobody     \* at most user 1 has a mapping of the file
    /\ LET resting == <<CredAtRest, SchemaAtRest, IdentityAtRest, PrAtRest>>
       IN \E i \in DOMAIN resting : \A j \in DOMAIN resting \ {i} : resting[j]

MCNext ==
    \/ /\ SchemaAtRest /\ IdentityAtRest /\ LiveAtRest
       /\ ControlAtRest /\ PrAtRest
       /\ CredNext
       /\ UNCHANGED <<schemaVars, idVars, liveVars, controlVars, prVars>>
    \/ /\ CredAtRest /\ IdentityAtRest /\ LiveAtRest
       /\ ControlAtRest /\ PrAtRest
       /\ SchemaNext
       /\ UNCHANGED <<credVars, idVars, liveVars, controlVars, prVars>>
    \/ /\ CredAtRest /\ SchemaAtRest /\ LiveAtRest
       /\ ControlAtRest /\ PrAtRest
       /\ IdentityNext
       /\ UNCHANGED <<credVars, schemaVars, liveVars, controlVars, prVars>>
    \/ /\ CredAtRest /\ SchemaAtRest /\ IdentityAtRest
       /\ ControlAtRest /\ PrAtRest
       /\ LiveNext
       /\ UNCHANGED <<credVars, schemaVars, idVars, controlVars, prVars>>
    \/ /\ CredAtRest /\ SchemaAtRest /\ IdentityAtRest
       /\ LiveAtRest /\ PrAtRest
       /\ ControlNext
       /\ UNCHANGED <<credVars, schemaVars, idVars, liveVars, prVars>>
    \/ /\ CredAtRest /\ SchemaAtRest /\ IdentityAtRest
       /\ LiveAtRest /\ ControlAtRest
       /\ PrNext
       /\ UNCHANGED <<credVars, schemaVars, idVars, liveVars, controlVars>>

MCSpec ==
    /\ MCInit
    /\ [][MCNext]_<<credVars, schemaVars, idVars, liveVars, controlVars, prVars>>
=============================================================================
