---------------------------- MODULE MCMessaging ----------------------------
(***************************************************************************)
(* The instances of Messages, GuestChat, Wellness, Devices and Delivery     *)
(* that TLC checks together.  They share no state: one of them is in focus  *)
(* from the start and moves, the others rest.                               *)
(***************************************************************************)
EXTENDS Messages, GuestChat, Wellness, Devices, Delivery, TLC

CONSTANTS v1, v2    \* the owners of devices

VARIABLE focus

\* Recipients, guests and phones share their values.
Symmetry == Permutations(Recipients) \cup Permutations(HubIds) \cup Permutations(Urls)

-----------------------------------------------------------------------------
(* Messages: owners 1 and 2 form the account of network n1, owner 3 is the      *)
(* system administrator and alone in n2.  A primary zone of each network and a  *)
(* secondary one of owner 2 overlap.                                            *)

ThreeOwners == 1..3
TwoNets == <<"n1", "n1", "n2">>
TwoRoots == <<1, 1, 3>>
Homes == <<"both", "Nw", "second">>
NetOfZone == [z \in {"P1", "S1", "P2"} |-> IF z = "P2" THEN "n2" ELSE "n1"]
MakerOfZone == [z \in {"P1", "S1", "P2"} |-> CASE z = "P1" -> 1 [] z = "S1" -> 2 [] OTHER -> 3]
ZonesAround ==
    [p \in {"both", "second", "out"} |->
        CASE p = "both" -> {"P1", "S1"} [] p = "second" -> {"S1", "P2"} [] OTHER -> {}]
Along(p) == CASE p = "both" -> 0 [] p = "second" -> 1 [] OTHER -> 3
Distance ==
    [q \in {"both", "second", "out"} \X {"both", "second", "out"} |->
        IF Along(q[1]) > Along(q[2]) THEN Along(q[1]) - Along(q[2]) ELSE Along(q[2]) - Along(q[1])]
NoRules == [o \in 1..3 |-> {}]
RulesAtFirst == {NoRules, [NoRules EXCEPT ![1] = {[member |-> 0, kind |-> "UNKNOWN"]}]}

\* Two messages, of which the second is the last thing to happen, and comes after
\* an UNKNOWN or a SENSOR, which limit it; or one message and what follows it.
MessagesOnly ==
    \/ events = <<>> /\ Sends
    \/ Len(events) = 1 /\ changes = 0 /\ reads = {} /\ events[1].kind \in {"UNKNOWN", "SENSOR"} /\ Sends
    \/ Len(events) < 2 /\ Afterwards

\* Out of focus: nobody is there to write.
Silence ==
    /\ live = {} /\ spot = [o \in MsOwners |-> Nowhere] /\ rules = NoRules
    /\ events = <<>> /\ reads = {} /\ changes = 0

-----------------------------------------------------------------------------
(* GuestChat: all owners have one root, owner 3 owns the zone and is in        *)
(* another network than the guests come to.                                    *)

OneRoot == <<1, 1, 1>>

\* A guest pages through its thread; or all write, and nobody pages.  The last row
\* is written while no owner has a rule or is inactive, and members chat once.
PagingOnly == GcNext /\ Aside' = 0 /\ chats' = <<>> /\ Len(arrivals') <= 1
ChatOnly ==
    /\ GcNext /\ reader' = NoReader
    /\ Len(chats') <= 1
    /\ Aside' > 0 => Len(rows') + Len(chats') < MaxRows

-----------------------------------------------------------------------------
(* Wellness: reminders and the dialogue share no row.                          *)

RemindersOnly == Next /\ asked' = 0
AsksOnly == Next /\ now' = 0 /\ worker' = Idle

-----------------------------------------------------------------------------
(* Devices: v1 is the administrator of v2.                                     *)

AdminSeesAll == [o \in DvOwners |-> IF o = v1 THEN DvOwners ELSE {o}]

\* Only the plan of v1 changes, and v2 has one socket at most.
DevicesOnly == DvNext /\ plan'[v2] = 1 /\ sockets'[v2] <= 1

-----------------------------------------------------------------------------
(* Delivery: two owners in two networks with a zone and a hub each, and a phone *)
(* of each platform.                                                            *)

TwoOwnerNets == <<"n1", "n2">>
PlatformOf == [t \in Phones |-> IF t = "f" THEN "FCM" ELSE IF t = "a" THEN "APNS" ELSE "EXPO"]
OwnerOfHub == [h \in DlHubs |-> IF h = "h1" THEN 1 ELSE 2]
NetOfDlZone == [z \in DlZones |-> IF z = "z1" THEN "n1" ELSE "n2"]

\* An alarm, while phones are registered and hubs edited.
AlarmOnly == AlarmStep \/ HubStep \/ DeliveryRestart

\* Commands to one hub, whose webhook is edited.
CommandsOnly ==
    /\ \/ CommandStep \/ DeliveryRestart
       \/ HubStep /\ \A h \in DlHubs : hub'[h].zones = hub[h].zones
    /\ \A w \in Workers : job'[w].hub # "h2"

-----------------------------------------------------------------------------
messagingVars == <<vars, msVars, gcVars, dvVars, dlVars, focus>>

MessagingInit ==
    /\ Init /\ GcInit /\ DvInit /\ DlInit
    /\ focus \in {"messages", "paging", "chat", "reminders", "asks", "devices", "alarm", "command"}
    /\ IF focus = "messages" THEN MsInit ELSE Silence
    /\ plan[v2] = 1
    /\ focus # "devices" => plan[v1] = 1
    /\ phone \in (IF focus = "alarm" THEN {[t \in Phones |-> 2]} ELSE {})
                     \cup {[t \in Phones |-> Vacant]}

MessagingNext ==
    /\ UNCHANGED focus
    /\ \/ focus = "messages" /\ MessagesOnly /\ UNCHANGED <<vars, gcVars, dvVars, dlVars>>
       \/ focus = "paging" /\ PagingOnly /\ UNCHANGED <<vars, msVars, dvVars, dlVars>>
       \/ focus = "chat" /\ ChatOnly /\ UNCHANGED <<vars, msVars, dvVars, dlVars>>
       \/ focus = "reminders" /\ RemindersOnly /\ UNCHANGED <<msVars, gcVars, dvVars, dlVars>>
       \/ focus = "asks" /\ AsksOnly /\ UNCHANGED <<msVars, gcVars, dvVars, dlVars>>
       \/ focus = "devices" /\ DevicesOnly /\ UNCHANGED <<vars, msVars, gcVars, dlVars>>
       \/ focus = "alarm" /\ AlarmOnly /\ UNCHANGED <<vars, msVars, gcVars, dvVars>>
       \/ focus = "command" /\ CommandsOnly /\ UNCHANGED <<vars, msVars, gcVars, dvVars>>

MessagingSpec == MessagingInit /\ [][MessagingNext]_messagingVars

\* One component alone.
PagingSpec == MessagingInit /\ focus = "paging" /\ [][MessagingNext]_messagingVars
AlarmSpec == MessagingInit /\ focus = "alarm" /\ [][MessagingNext]_messagingVars

TypesOK == TypeOK /\ MsTypeOK /\ GcTypeOK /\ DvTypeOK /\ DlTypeOK
=============================================================================
