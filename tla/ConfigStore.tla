----------------------------- MODULE ConfigStore -----------------------------
(***************************************************************************)
(* The configuration in use: how it is replaced, and what its readers do   *)
(* to it.                                                                  *)
(*                                                                         *)
(* The operator's configuration is a ConfigMap.  A process reads it from a *)
(* mounted file when it starts, before it becomes the leader.  From then   *)
(* on the webhook that validates changes of the ConfigMap installs what it *)
(* validated, global variable after global variable, without a lock and    *)
(* before the API server stored it.  That webhook's failures are ignored   *)
(* (deploy/webhook.yaml), and requests may run it at the same time.        *)
(*                                                                         *)
(* The controllers build containers from it meanwhile.  Each load has its  *)
(* own arrays, and a container's mounts begin as the configuration's own   *)
(* slice: a Go slice shares its array until an append exceeds it.          *)
(*                                                                         *)
(* Abstractions.  A configuration is its name and the mounts of each       *)
(* global; its text decodes, or is Bad: missing, blank or undecodable.     *)
(* There is one profile.  The claims of a Boot are appended in one step,   *)
(* and a slice is decoded in one.  The ConfigMap is never deleted.         *)
(***************************************************************************)
EXTENDS Integers, Sequences

CONSTANTS
    Contents,    \* configurations whose text decodes
    Bad,         \* a text that does not
    Globals,     \* the number of global variables, in the order they are assigned
    MountsIn,    \* the mounts of a configuration, by global
    HasProfile,  \* the configurations with the profile: the last global
    Boots,       \* Boots the controllers work for
    TypeOf,      \* the global of a Boot's type
    Profiled,    \* the Boots that ask for the profile
    ClaimsOf,    \* the mounts of a Boot's own claims
    Names,       \* names of mounts
    App,         \* the placeholder for a Boot's name within one
    Requests,    \* requests in flight at once
    None,        \* no value
    MaxLoads,    \* bound: configurations loaded
    MaxRequests  \* bound: requests

\* of: whose name the mount's name contains, if any.
Mount == [name: Names, of: Boots \union {App, None}]

\* encoding/json gives a slice of one to four elements an array of four.
Capacity == 4

ASSUME ConfigAssumption ==
    /\ Globals \in Nat \ {0}
    /\ Bad \notin Contents /\ Contents # {} /\ None \notin Contents \union {Bad}
    /\ HasProfile \subseteq Contents
    /\ MountsIn \in [Contents -> [1..Globals -> Seq(Mount)]]
    /\ \A c \in Contents, g \in 1..Globals : Len(MountsIn[c][g]) <= Capacity
ASSUME BootAssumption ==
    /\ TypeOf \in [Boots -> 1..Globals]
    /\ Profiled \subseteq Boots
    /\ ClaimsOf \in [Boots -> Seq(Mount)]
    /\ None \notin Mount /\ None \notin Seq(Mount)
    /\ App \notin Boots
ASSUME BoundsAssumption == MaxLoads \in Nat /\ MaxRequests \in Nat

VARIABLES
    stored,   \* the text of the ConfigMap
    mounted,  \* the text of the mounted file
    standby,  \* the configuration a process waiting to become the leader read
    loads,    \* the configurations loaded, each with its arrays
    globals,  \* the load each global variable points to
    request,  \* the requests to change the ConfigMap
    pass,     \* the passes of the workers, by Boot
    since,    \* history: what happened since an undisturbed change
    requests  \* counter for the bound

vars == <<stored, mounted, standby, loads, globals, request, pass, since, requests>>

Texts == Contents \union {Bad}
Range1 == 1..Globals

\* A load: the configuration's name and an array for every global.
Array(s) ==
    IF s = <<>> THEN <<>>
    ELSE s \o [i \in 1..(Capacity - Len(s)) |-> None]

Load(c) == [content |-> c, arrays |-> [g \in Range1 |-> Array(MountsIn[c][g])]]

RequestStages == {"none", "called", "install", "allowed", "lost"}

\* waiting: the API server still waits for the answer.  alone: history, no other
\* request was being installed or stored at the same time.
NoRequest == [stage |-> "none", text |-> Bad, load |-> 0, next |-> 1,
              waiting |-> FALSE, alone |-> FALSE]

\* length: of the slice.  own: the slice's array, unless it is the load's.
NoPass == [stage |-> "idle", load |-> 0, global |-> 1, length |-> 0, own |-> None]

Init ==
    /\ stored \in Contents
    /\ mounted = stored
    /\ standby = None
    /\ loads = <<Load(stored)>>
    /\ globals = [g \in Range1 |-> 1]
    /\ request = [r \in Requests |-> NoRequest]
    /\ pass = [b \in Boots |-> NoPass]
    /\ since = {}
    /\ requests = 0

----------------------------------------------------------------------------
(* Requests to change the ConfigMap *)

InProgress(r) == request[r].stage \in {"install", "allowed"}

Submit(r, text) ==
    /\ requests < MaxRequests
    /\ requests' = requests + 1
    /\ request[r].stage = "none"
    /\ request' = [request EXCEPT ![r] = [NoRequest EXCEPT
                      !.stage = "called", !.text = text, !.waiting = TRUE]]
    /\ UNCHANGED <<stored, mounted, standby, loads, globals, pass, since>>

\* What does not decode is denied, and nothing is installed.
Deny(r) ==
    /\ request[r].stage = "called"
    /\ request[r].text = Bad
    /\ request' = [request EXCEPT ![r] = NoRequest]
    /\ UNCHANGED <<stored, mounted, standby, loads, globals, pass, since, requests>>

\* A configuration is loaded, its defaults applied, to be installed.
Installing(r, c) ==
    /\ request[r].stage = "called"
    /\ request[r].text # Bad /\ c # Bad
    /\ Len(loads) < MaxLoads
    /\ loads' = Append(loads, Load(c))
    /\ LET others == {o \in Requests \ {r} : InProgress(o)}
       IN /\ request' = [o \in Requests |->
                 IF o = r THEN [request[r] EXCEPT !.stage = "install", !.load = Len(loads) + 1,
                                                  !.alone = (others = {})]
                 ELSE [request[o] EXCEPT !.alone = @ /\ o \notin others]]
          /\ since' = since \union (IF others # {} THEN {"overlap"} ELSE {})
                            \union (IF request[r].waiting THEN {} ELSE {"overlooked"})
    /\ UNCHANGED <<stored, mounted, standby, globals, pass, requests>>

\* Mutant: the mounted file's.
ValidateMounted(r) == Installing(r, mounted)

\* The request's text is decoded, not the file's.
Validate(r) == Installing(r, request[r].text)

\* One global after the other.  Mutants: the last, the profiles, is left as it
\* was; the last comes first; one too many.
AssignTypesOnly(r) ==
    /\ request[r].stage = "install"
    /\ LET next == request[r].next
       IN /\ globals' = [globals EXCEPT ![next] = IF next = Globals THEN @ ELSE request[r].load]
          /\ request' = [request EXCEPT ![r].stage = IF next = Globals THEN "allowed" ELSE @,
                                        ![r].next = IF next = Globals THEN @ ELSE next + 1]
    /\ UNCHANGED <<stored, mounted, standby, loads, pass, since, requests>>

AssignBackwards(r) ==
    /\ request[r].stage = "install"
    /\ LET next == request[r].next
       IN /\ globals' = [globals EXCEPT ![Globals + 1 - next] = request[r].load]
          /\ request' = [request EXCEPT ![r].stage = IF next = Globals THEN "allowed" ELSE @,
                                        ![r].next = IF next = Globals THEN @ ELSE next + 1]
    /\ UNCHANGED <<stored, mounted, standby, loads, pass, since, requests>>

AssignPastEnd(r) ==
    /\ request[r].stage = "install"
    /\ LET next == request[r].next
       IN /\ globals' = [globals EXCEPT ![next] = request[r].load]
          /\ request' = [request EXCEPT ![r].stage = IF next > Globals THEN "allowed" ELSE @,
                                        ![r].next = next + 1]
    /\ UNCHANGED <<stored, mounted, standby, loads, pass, since, requests>>

Assign(r) ==
    /\ request[r].stage = "install"
    /\ LET next == request[r].next
       IN /\ globals' = [globals EXCEPT ![next] = request[r].load]
          /\ request' = [request EXCEPT ![r].stage = IF next = Globals THEN "allowed" ELSE @,
                                        ![r].next = IF next = Globals THEN @ ELSE next + 1]
    /\ UNCHANGED <<stored, mounted, standby, loads, pass, since, requests>>

\* The answer reaches the API server, which stores the ConfigMap, unless another
\* check or a conflict refuses it.
Answer(r) ==
    /\ request[r].stage = "allowed"
    /\ IF request[r].waiting
       THEN \/ /\ stored' = request[r].text
               /\ since' = IF request[r].alone THEN {} ELSE since \union {"overlap"}
            \/ /\ UNCHANGED stored
               /\ since' = since \union {"refused"}
       ELSE UNCHANGED <<stored, since>>
    /\ request' = [request EXCEPT ![r] = NoRequest]
    /\ UNCHANGED <<mounted, standby, loads, globals, pass, requests>>

\* The call failed or took too long, which is ignored; the webhook may go on.
Overlook(r) ==
    /\ request[r].waiting
    /\ request[r].stage \in {"called", "install", "lost"}
    /\ stored' \in {stored, request[r].text}
    /\ since' = since \union {"overlooked"}
    /\ request' = [request EXCEPT ![r] =
           IF @.stage = "lost" THEN NoRequest ELSE [@ EXCEPT !.waiting = FALSE]]
    /\ UNCHANGED <<mounted, standby, loads, globals, pass, requests>>

\* A call that never arrives.
Drop(r) ==
    /\ request[r].stage = "called" /\ ~request[r].waiting
    /\ request' = [request EXCEPT ![r] = NoRequest]
    /\ UNCHANGED <<stored, mounted, standby, loads, globals, pass, since, requests>>

----------------------------------------------------------------------------
(* Processes *)

\* The kubelet brings the file up to date, at its own pace.
Remount ==
    /\ mounted # stored
    /\ mounted' = stored
    /\ UNCHANGED <<stored, standby, loads, globals, request, pass, since, requests>>

\* A process starts and reads the file; it exits when the text does not decode.
InitByFile ==
    /\ mounted # Bad
    /\ standby' = mounted
    /\ UNCHANGED <<stored, mounted, loads, globals, request, pass, since, requests>>

\* The leader is gone, and the calls it was answering fail; the process that
\* waited goes on with what it had read.
TakeOver ==
    /\ standby # None
    /\ Len(loads) < MaxLoads
    /\ loads' = Append(loads, Load(standby))
    /\ globals' = [g \in Range1 |-> Len(loads) + 1]
    /\ request' = [r \in Requests |->
           IF request[r].stage = "none" \/ ~request[r].waiting THEN NoRequest
           ELSE [NoRequest EXCEPT !.stage = "lost", !.text = request[r].text, !.waiting = TRUE]]
    /\ pass' = [b \in Boots |-> NoPass]
    /\ since' = IF standby = stored THEN {} ELSE {"takeover"}
    /\ standby' = None
    /\ UNCHANGED <<stored, mounted, requests>>

----------------------------------------------------------------------------
(* Workers *)

\* The configuration a pass works with: the profile's, when the Boot asks for it
\* and there is one, and its type's otherwise.
ConfigOf(b) ==
    IF b \in Profiled /\ loads[globals[Globals]].content \in HasProfile
    THEN Globals ELSE TypeOf[b]

\* A pointer is taken, for the whole pass.
Start(b) ==
    /\ pass[b].stage = "idle"
    /\ pass' = [pass EXCEPT ![b] = [NoPass EXCEPT
                   !.stage = "append", !.load = globals[ConfigOf(b)], !.global = ConfigOf(b)]]
    /\ UNCHANGED <<stored, mounted, standby, loads, globals, request, since, requests>>

\* The container's mounts are the configuration's slice, to which the Boot's
\* claims are appended: in its array, if they fit, and otherwise in a new one.
AppendClaims(b) ==
    /\ pass[b].stage = "append"
    /\ LET p == pass[b]
           array == loads[p.load].arrays[p.global]
           given == Len(MountsIn[loads[p.load].content][p.global])
           claims == ClaimsOf[b]
           length == given + Len(claims)
           fits == length <= Len(array)
       IN /\ loads' = IF fits
                      THEN [loads EXCEPT ![p.load].arrays[p.global] =
                               [i \in DOMAIN array |->
                                   IF i \in (given + 1)..length THEN claims[i - given] ELSE array[i]]]
                      ELSE loads
          /\ pass' = [pass EXCEPT ![b] = [p EXCEPT
                 !.stage = IF claims = <<>> THEN "send" ELSE "decode",
                 !.length = length,
                 !.own = IF fits THEN None ELSE SubSeq(array, 1, given) \o claims]]
    /\ UNCHANGED <<stored, mounted, standby, globals, request, since, requests>>

Decoded(b, m) == IF m.of = App THEN [m EXCEPT !.of = b] ELSE m

\* Mutant: the names in the configuration's slice are decoded, not those in the
\* container's.
DecodeConfigured(b) ==
    /\ pass[b].stage = "decode"
    /\ LET p == pass[b]
       IN /\ loads' = [loads EXCEPT ![p.load].arrays[p.global] =
                 [i \in DOMAIN @ |-> IF i <= p.length /\ @[i] # None THEN Decoded(b, @[i]) ELSE @[i]]]
          /\ pass' = [pass EXCEPT ![b].stage = "send"]
    /\ UNCHANGED <<stored, mounted, standby, globals, request, since, requests>>

\* Every name in the slice is decoded in place.
DecodeVolumeMounts(b) ==
    /\ pass[b].stage = "decode"
    /\ LET p == pass[b]
       IN IF p.own = None
          THEN /\ loads' = [loads EXCEPT ![p.load].arrays[p.global] =
                       [i \in DOMAIN @ |-> IF i <= p.length THEN Decoded(b, @[i]) ELSE @[i]]]
               /\ pass' = [pass EXCEPT ![b].stage = "send"]
          ELSE /\ pass' = [pass EXCEPT ![b].stage = "send",
                                       ![b].own = [i \in DOMAIN @ |-> Decoded(b, @[i])]]
               /\ UNCHANGED loads
    /\ UNCHANGED <<stored, mounted, standby, globals, request, since, requests>>

\* The workload goes to the API server as its slice reads by then.
Send(b) ==
    /\ pass[b].stage = "send"
    /\ pass' = [pass EXCEPT ![b] = NoPass]
    /\ UNCHANGED <<stored, mounted, standby, loads, globals, request, since, requests>>

Next ==
    \/ \E r \in Requests :
          \/ \E text \in Texts : Submit(r, text)
          \/ Deny(r) \/ Validate(r) \/ Assign(r) \/ Answer(r) \/ Overlook(r) \/ Drop(r)
    \/ Remount \/ InitByFile \/ TakeOver
    \/ \E b \in Boots : Start(b) \/ AppendClaims(b) \/ DecodeVolumeMounts(b) \/ Send(b)

Spec == Init /\ [][Next]_vars

----------------------------------------------------------------------------
(* Properties *)

Loads == 1..Len(loads)

\* Every variable keeps its type.
TypeOK ==
    /\ stored \in Texts /\ mounted \in Texts /\ standby \in Contents \union {None}
    /\ loads \in Seq([content: Contents, arrays: [Range1 -> Seq(Mount \union {None})]])
    /\ globals \in [Range1 -> Loads]
    /\ request \in [Requests -> [stage: RequestStages, text: Texts, load: Loads \union {0},
                                 next: Range1, waiting: BOOLEAN, alone: BOOLEAN]]
    /\ pass \in [Boots -> [stage: {"idle", "append", "decode", "send"}, load: Loads \union {0},
                           global: Range1, length: Nat, own: Seq(Mount) \union {None}]]
    /\ since \subseteq {"overlap", "refused", "overlooked", "takeover"}
    /\ requests \in Nat

\* Unless two changes were installed at the same time, all globals come from one
\* load once the last is assigned: types and profiles of one configuration.
OneConfiguration ==
    (\A r \in Requests : request[r].stage # "install") /\ "overlap" \notin since
        => \A g, h \in Range1 : globals[g] = globals[h]

\* With no request on its way, the configuration in use is the one stored, except
\* after overlapping changes, a change refused after it was installed, one whose
\* call failed, or a leader that had read an older file.
InUseIsStored ==
    (\A r \in Requests : request[r].stage = "none") /\ since = {}
        => \A g \in Range1 : loads[globals[g]].content = stored

\* What a request installs is what it asks to store; alone, it has the globals it
\* assigned to itself; without the API server waiting for it, since says so.
InstallsInOrder ==
    \A r \in Requests :
        /\ request[r].stage = "called" => request[r].next = 1
        /\ InProgress(r) =>
              /\ request[r].load \in Loads
              /\ loads[request[r].load].content = request[r].text
              /\ request[r].waiting \/ since # {}
              /\ request[r].alone =>
                    /\ \A o \in Requests \ {r} : ~InProgress(o)
                    /\ \A g \in Range1 : request[r].stage = "allowed" \/ g < request[r].next
                                           => globals[g] = request[r].load

\* A request that is not alone is known to overlap.
OverlapIsNoted ==
    "overlap" \notin since => \A r \in Requests : InProgress(r) => request[r].alone

\* A slice reads mounts only: the configuration's, and what a pass appended.
SlicesFilled ==
    /\ \A l \in Loads, g \in Range1 :
          LET given == Len(MountsIn[loads[l].content][g])
          IN /\ given <= Len(loads[l].arrays[g])
             /\ \A i \in 1..given : loads[l].arrays[g][i] # None
    /\ \A b \in Boots :
          /\ pass[b].stage # "idle" => pass[b].load \in Loads
          /\ pass[b].stage \in {"decode", "send"} /\ pass[b].own = None =>
                LET array == loads[pass[b].load].arrays[pass[b].global]
                IN pass[b].length <= Len(array) /\ \A i \in 1..pass[b].length : array[i] # None

\* The inductive invariant of the two above: what is in use is what is stored,
\* too, while requests are called or lost.
IInv ==
    /\ TypeOK
    /\ SlicesFilled
    /\ InstallsInOrder
    /\ OverlapIsNoted
    /\ OneConfiguration
    /\ (\A r \in Requests : ~InProgress(r)) /\ since = {}
          => \A g \in Range1 : loads[globals[g]].content = stored

\* The mounts of the container about to be sent.
Sent(b) ==
    SubSeq(IF pass[b].own = None THEN loads[pass[b].load].arrays[pass[b].global] ELSE pass[b].own,
           1, pass[b].length)

\* The configuration's mounts, then the claims of a Boot that works with it.
Given(b) == MountsIn[loads[pass[b].load].content][pass[b].global]
Filled(b, o) == Given(b) \o ClaimsOf[o]

\* The mounts it should have, with the Boot's name.  Without claims nothing is
\* decoded.
Wanted(b) ==
    IF ClaimsOf[b] = <<>> THEN Given(b)
    ELSE [i \in DOMAIN Filled(b, b) |-> Decoded(b, Filled(b, b)[i])]

\* A Boot's container has that Boot's mounts, whatever the other workers do with
\* the same configuration.  The code does not keep this.
OwnMounts == \A b \in Boots : pass[b].stage = "send" => Sent(b) = Wanted(b)

\* The Boots that may work with a global, and those among them whose claims have
\* room in its array.
Users(g) == {b \in Boots : g = TypeOf[b] \/ (b \in Profiled /\ g = Globals)}
Writers(l, g) ==
    {b \in Users(g) :
        /\ ClaimsOf[b] # <<>>
        /\ Len(MountsIn[loads[l].content][g]) + Len(ClaimsOf[b]) <= Len(loads[l].arrays[g])}

\* What the code keeps instead.  A container has its Boot's mounts when no other
\* Boot has room in the array they begin in, however often the Boot itself was
\* built there.  Otherwise each is, at its place, one that the Boot or such a
\* Boot asks for, with the name of one of them or none: nothing comes from Boots
\* of another type or profile, or from another configuration.
SharedInRoomOnly ==
    \A b \in Boots : pass[b].stage = "send" =>
        LET writers == Writers(pass[b].load, pass[b].global)
        IN /\ writers \subseteq {b} => Sent(b) = Wanted(b)
           /\ \A i \in DOMAIN Wanted(b) : \E o, n \in writers \union {b} :
                 /\ i <= Len(Filled(b, o))
                 /\ Sent(b)[i] \in {Filled(b, o)[i], Decoded(n, Filled(b, o)[i])}
=============================================================================
