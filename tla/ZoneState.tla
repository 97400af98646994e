------------------------------ MODULE ZoneState ------------------------------
(***************************************************************************)
(* The zone state callback (src/zone-oper-callback/), which answers        *)
(* requests for /pdns-server:zones-state with the zones of PowerDNS, next  *)
(* to the configuration callback.  It has a subscription and a thread of   *)
(* its own and shares the API client: listZones takes the key from the     *)
(* client's configuration and callApi the address, so configureApi may     *)
(* replace the configuration in between.  Whatever is thrown is caught and *)
(* the answer has no zones.                                                *)
(***************************************************************************)
EXTENDS PdnsConfigCB

CONSTANT Failed         \* the answer of a request that met an exception

ASSUME StateAssumption == Failed \notin MaybeZones

VARIABLE oper           \* the request being answered

NoRequest == [at |-> "none", key |-> NoApi, zones |-> Failed, calm |-> TRUE]
Requests  == [at : {"none", "listZones", "callApi", "answered"}, key : Apis,
              zones : MaybeZones \union {Failed},
              calm : BOOLEAN]   \* history: no transaction was in DONE since it arrived

\* The process has started, PowerDNS is up, and no committed transaction is being applied.
Settled == phase \in {"idle", "tx"} /\ pc \notin DoneSteps /\ pdns.up

\* sysrepo asks for the zones once main has subscribed the callback.
oper_get_items ==
    /\ oper.at = "none"
    /\ ApiMode /\ phase \in {"idle", "tx"}
    /\ oper' = [NoRequest EXCEPT !.at = "listZones", !.calm = Settled]

\* The headers: the key of the configuration the client has now.
listZones ==
    /\ oper.at = "listZones" /\ client # None
    /\ oper' = [oper EXCEPT !.at = "callApi", !.key = client]

\* The call goes to the address of the configuration the client has now, with the key from
\* before; PowerDNS answers when both are its own.
callApi ==
    /\ oper.at = "callApi"
    /\ oper' = [oper EXCEPT !.at = "answered",
                            !.zones = IF ApiReachable /\ oper.key = client THEN pdns.zones ELSE Failed]

Reply == oper.at = "answered" /\ oper' = NoRequest

\* What a step of the rest of the system means for the request.
Observe ==
    oper' = IF phase' = "down" \/ oper.at = "none" THEN NoRequest
            ELSE [oper EXCEPT !.calm = @ /\ Settled']

ZoneCB == oper_get_items \/ listZones \/ callApi \/ Reply

StateInit == Init /\ oper = NoRequest
StateNext == (Next /\ Observe) \/ (ZoneCB /\ UNCHANGED vars)

StateSpec == StateInit /\ [][StateNext]_<<vars, oper>> /\ Fairness

-----------------------------------------------------------------------------
(* Properties *)

\* While no committed transaction is being applied, the zones in the answer are those of
\* the running datastore: whatever addresses and keys earlier transactions brought, and
\* whatever a transaction prepares that may still be vetoed.
ShowsRunning ==
    /\ oper \in Requests
    /\ oper.at = "answered" /\ oper.calm => oper.zones = running.zones
=============================================================================
