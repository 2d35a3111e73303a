---------------------------- MODULE StartupProofs ----------------------------
(***************************************************************************)
(* Proofs about Startup, for every length of the waits, every number of    *)
(* callbacks and of mishaps, and every command line.                       *)
(***************************************************************************)
EXTENDS Startup, WellFoundedInduction, TLAPS

-----------------------------------------------------------------------------
(* Least and greatest elements *)

\* A set of naturals that is not empty has a least element, and Min is it.
LEMMA MinOfNaturals ==
    ASSUME NEW T, T \subseteq Nat, T # {}
    PROVE  Min(T) \in T /\ \A y \in T : Min(T) <= y
<1>1. PICK x \in T : \A y \in T : ~(<<y, x>> \in OpToRel(<, Nat))
  BY NatLessThanWellFounded, WFMin
<1>2. \A y \in T : x <= y
  <2> SUFFICES ASSUME NEW y \in T PROVE x <= y
    OBVIOUS
  <2>1. x \in Nat /\ y \in Nat
    OBVIOUS
  <2>2. ~(y < x)
    BY <1>1, <2>1 DEF OpToRel
  <2> QED BY <2>1, <2>2
<1>3. \E z \in T : \A y \in T : z <= y
  BY <1>1, <1>2
<1> QED BY <1>3 DEF Min

\* A set of positions in a sequence that is not empty has a last one, and Max is it.
LEMMA MaxOfPositions ==
    ASSUME NEW n \in Nat, NEW T, T \subseteq 1 .. n, T # {}
    PROVE  Max(T) \in T
<1> DEFINE U == {n - x : x \in T}
<1>1. U \subseteq Nat /\ U # {}
  <2>1. \A x \in T : x \in 1 .. n /\ n - x \in Nat
    OBVIOUS
  <2> QED BY <2>1
<1>2. Min(U) \in U /\ \A y \in U : Min(U) <= y
  BY <1>1, MinOfNaturals
<1>3. PICK x \in T : Min(U) = n - x
  BY <1>2
<1>4. \A y \in T : x >= y
  <2> SUFFICES ASSUME NEW y \in T PROVE x >= y
    OBVIOUS
  <2>1. n - y \in U
    OBVIOUS
  <2>2. n - x <= n - y
    BY <1>2, <1>3, <2>1
  <2> QED BY <1>3, <2>2
<1>5. \E z \in T : \A y \in T : z >= y
  BY <1>3, <1>4
<1> QED BY <1>5 DEF Max

\* The greater and the lesser of two.
LEMMA MaxOfTwo ==
    ASSUME NEW a \in Int, NEW b \in Int
    PROVE  Max({a, b}) = IF a >= b THEN a ELSE b
<1>1. \E x \in {a, b} : \A y \in {a, b} : x >= y
  OBVIOUS
<1>2. Max({a, b}) \in {a, b} /\ \A y \in {a, b} : Max({a, b}) >= y
  BY <1>1 DEF Max
<1> QED BY <1>2

LEMMA MinOfTwo ==
    ASSUME NEW a \in Int, NEW b \in Int
    PROVE  Min({a, b}) = IF a <= b THEN a ELSE b
<1>1. \E x \in {a, b} : \A y \in {a, b} : x <= y
  OBVIOUS
<1>2. Min({a, b}) \in {a, b} /\ \A y \in {a, b} : Min({a, b}) <= y
  BY <1>1 DEF Min
<1> QED BY <1>2

-----------------------------------------------------------------------------
(* The order of main *)

Position(step) == CHOOSE i \in 1 .. Len(Steps) : Steps[i] = step

\* Where each step of main stands.
LEMMA Positions ==
    /\ Len(Steps) = 16
    /\ Position("open") = 1 /\ Position("connect") = 2 /\ Position("eui64") = 3
    /\ Position("endpoint") = 4 /\ Position("config") = 5 /\ Position("policy") = 6
    /\ Position("init") = 7 /\ Position("import") = 8 /\ Position("permit") = 9
    /\ Position("joining") = 10 /\ Position("close") = 11 /\ Position("clear") = 12
    /\ Position("send") = 13 /\ Position("sent") = 14 /\ Position("sleep") = 15
    /\ Position("done") = 16
BY DEF Position, Steps

\* Following is the first later step the command line asks for.
LEMMA FollowingIsNext ==
    ASSUME NEW i \in 1 .. 15
    PROVE  \E j \in (i + 1) .. 16 :
              /\ Following(Steps[i]) = Steps[j]
              /\ Wanted(Steps[j])
              /\ \A k \in (i + 1) .. (j - 1) : ~Wanted(Steps[k])
<1> DEFINE T == {j \in (i + 1) .. Len(Steps) : Wanted(Steps[j])}
<1>1. Len(Steps) = 16 /\ \A k, l \in 1 .. 16 : Steps[k] = Steps[l] => k = l
  BY DEF Steps
<1>2. (CHOOSE k \in 1 .. Len(Steps) : Steps[k] = Steps[i]) = i
  BY <1>1
<1>3. Following(Steps[i]) = Steps[Min(T)]
  BY <1>2 DEF Following
<1>4. 16 \in T
  <2>1. Steps[16] = "done"
    BY DEF Steps
  <2> QED BY <1>1, <2>1 DEF Wanted
<1>5. T \subseteq Nat /\ T # {}
  BY <1>1, <1>4
<1>6. Min(T) \in T /\ \A y \in T : Min(T) <= y
  BY <1>5, MinOfNaturals
<1>7. Min(T) \in (i + 1) .. 16 /\ Wanted(Steps[Min(T)])
  BY <1>1, <1>6
<1>8. \A k \in (i + 1) .. (Min(T) - 1) : ~Wanted(Steps[k])
  <2> SUFFICES ASSUME NEW k \in (i + 1) .. (Min(T) - 1), Wanted(Steps[k]) PROVE FALSE
    OBVIOUS
  <2>1. k \in T
    BY <1>1, <1>7
  <2>2. Min(T) <= k
    BY <1>6, <2>1
  <2> HIDE DEF T
  <2> QED BY <1>7, <2>2
<1> HIDE DEF T
<1> QED BY <1>3, <1>7, <1>8

\* A step stands at its position.
LEMMA PositionOf ==
    ASSUME NEW i \in 1 .. 16 PROVE Position(Steps[i]) = i /\ Steps[i] \in Elements(Steps)
BY DEF Position, Steps, Elements

LEMMA StepAt ==
    ASSUME NEW step \in Elements(Steps)
    PROVE  Position(step) \in 1 .. 16 /\ Steps[Position(step)] = step
<1>1. PICK i \in 1 .. 16 : step = Steps[i]
  BY Positions DEF Elements
<1> QED BY <1>1, PositionOf

\* main only goes forward.  It leaves out none of its first seven steps, and watches for joins only
\* right after it has asked for the window.
LEMMA OrderOfMain ==
    ASSUME pc \in Elements(Steps), pc # "done", pc' = Following(pc)
    PROVE  /\ pc' \in Elements(Steps)
           /\ Position(pc') \in (Position(pc) + 1) .. 16
           /\ Position(pc) <= 6 => Position(pc') = Position(pc) + 1
           /\ pc' = "joining" => pc = "permit"
<1>1. PICK i \in 1 .. 16 : i = Position(pc) /\ Steps[i] = pc
  BY StepAt
<1>2. i \in 1 .. 15
  BY <1>1, Positions DEF Steps
<1>3. PICK j \in (i + 1) .. 16 : /\ pc' = Steps[j]
                                /\ Wanted(Steps[j])
                                /\ \A k \in (i + 1) .. (j - 1) : ~Wanted(Steps[k])
  BY <1>1, <1>2, FollowingIsNext
<1>4. pc' \in Elements(Steps) /\ Position(pc') = j
  BY <1>3, PositionOf
<1>5. ASSUME i <= 6 PROVE j = i + 1
  <2>1. i + 1 \in 2 .. 7
    BY <1>5
  <2>2. \A k \in 2 .. 7 : Wanted(Steps[k])
    BY DEF Wanted, Steps
  <2>3. Wanted(Steps[i + 1])
    BY <2>1, <2>2
  <2> QED BY <1>3, <2>3
<1>6. ASSUME pc' = "joining" PROVE pc = "permit"
  <2>1. j = 10
    BY <1>3, <1>6 DEF Steps
  <2>2. Wanted("joining") => Wanted("permit")
    BY DEF Wanted
  <2>3. Steps[9] = "permit" /\ Steps[10] = "joining"
    BY DEF Steps
  <2>4. i >= 9
    BY <1>2, <1>3, <2>1, <2>2, <2>3
  <2> QED BY <1>1, <1>2, <1>3, <2>1, <2>3, <2>4
<1> QED BY <1>1, <1>3, <1>4, <1>5, <1>6
-----------------------------------------------------------------------------
(* The inductive invariant *)

Dongles ==
    [endpoint : BOOLEAN, config : SUBSET Elements(Configurations),
     policies : SUBSET Elements(Policies), network : BOOLEAN, window : 0 .. MAX_DURATION,
     key : BOOLEAN, sending : BOOLEAN]

Callbacks ==
    [kind : {"TrustCenterJoin"}, what : {"came", "left"}]
      \cup [kind : {"StackStatus"}, what : {"up"}]
      \cup [kind : {"MessageSent"}, what : {"ok", "failed"}]

CommandSteps ==
    {"eui64", "endpoint", "config", "policy", "init", "import", "permit", "close", "clear", "send"}

\* A command that was sent: the entry is one of its array.
Sendings ==
    {c \in [step : CommandSteps, entry : 1 .. 4] :
        /\ c.step = "config" => c.entry \in 1 .. Len(Configurations)
        /\ c.step = "policy" => c.entry \in 1 .. Len(Policies)}

LineNames ==
    {"serialOpen", "ashReset", "getEui64", "addEndpoint", "addEndpointRefused",
     "setConfigurationValue", "setPolicy", "networkInitResumed", "networkInitNoNetwork",
     "importTransientKey", "permitJoiningOpen", "deviceJoin", "permitJoiningClosed",
     "clearTransientLinkKeys", "sendUnicast", "messageSentDelivered", "messageSentFailed"}

Lines == [name : LineNames, passed : BOOLEAN]

Pass(name) == [name |-> name, passed |-> TRUE]
Fail(name) == [name |-> name, passed |-> FALSE]

Says(line) == \E i \in 1 .. Len(lines) : lines[i] = line

\* Every step adds at most one line and moves on.  An answer left behind is taken for that to the
\* next command, whatever it is, so that it does not get past the first entry of an array that is ok.
StartupTypes ==
    /\ StartupTypeOK
    /\ lines \in Seq(Lines) /\ Len(lines) < Position(pc)
    /\ ncp \in Dongles /\ callbacks \in Seq(Callbacks) /\ late \in Seq(Sendings) /\ mishaps \in Nat
    /\ pc = "open" => link = "up"
    /\ Position(pc) <= 3 => parked = <<>>
    /\ pc = "endpoint" /\ parked # <<>> => parked[1].step = "eui64"
    /\ pc \in {"config", "policy"} /\ item > 1 /\ ok => parked = <<>>

\* The step of main, by its position, that a line comes after.
InOrder(line, position) ==
    /\ line = Pass("addEndpoint") => position > 4
    /\ line = Pass("setConfigurationValue") => position > 5
    /\ line = Pass("setPolicy") => position > 6
    /\ line = Pass("networkInitResumed") => position > 7
    /\ line = Pass("networkInitNoNetwork") => position > 7
    /\ line = Pass("permitJoiningOpen") => position > 9
    /\ line = Fail("deviceJoin") => position > 10
    /\ line = Pass("permitJoiningClosed") => position > 11
    /\ line = Pass("clearTransientLinkKeys") => position > 12

LinesInOrder == \A i \in 1 .. Len(lines) : InOrder(lines[i], Position(pc))

\* None of the commands that the dongle may still take is one of this step.
NoneOf(step, queue) == \A i \in 1 .. Len(queue) : queue[i].step # step

\* What a line says of the dongle, the commands it may still take and what the summary keeps quiet.
TrueOf(line, dongle, queue, quiet) ==
    /\ line = Pass("addEndpoint") => dongle.endpoint
    /\ line = Pass("setConfigurationValue") => dongle.config = Elements(Configurations)
    /\ line = Pass("setPolicy") => dongle.policies = Elements(Policies)
    /\ line = Pass("networkInitResumed") => dongle.network \/ "init" \in quiet
    /\ line = Pass("permitJoiningClosed")
          => "close" \in quiet \/ (dongle.window = 0 /\ NoneOf("permit", queue))
    /\ line = Pass("clearTransientLinkKeys") => ~dongle.key /\ NoneOf("import", queue)

LinesAreTrue ==
    /\ link # "reset" => \A i \in 1 .. Len(lines) : TrueOf(lines[i], ncp, late, unsaid)
    /\ Says(Pass("networkInitNoNetwork")) /\ Says(Pass("setConfigurationValue"))
          => ~stored \/ unsaid \cap {"init", "balked"} # {}

\* The part of the array that was sent is on the dongle while `ok` says so and no command is
\* outstanding: one that was given another's answer still is, and the rest of the array errors.
ArraysSoFar ==
    link # "reset" /\ ok /\ pending = <<>> =>
        /\ pc = "config" => \A j \in 1 .. (item - 1) : Configurations[j] \in ncp.config
        /\ pc = "policy" => \A j \in 1 .. (item - 1) : Policies[j] \in ncp.policies

\* The good news of a delivery is only in what the device said.
DeliveryIsKnown ==
    /\ \A i \in 1 .. Len(lines) :
          lines[i] = Pass("messageSentDelivered") => delivered
    /\ outcome = "ok" => delivered
    /\ \A i \in 1 .. Len(callbacks) :
          callbacks[i].kind = "MessageSent" /\ callbacks[i].what = "ok" => delivered

\* The window is shut until it is asked for.  Once the dongle has said that it is open nothing opens
\* it again: it is watched for at least as long as it is open, and shut after a whole wait in vain.
WindowIsWatched ==
    /\ Position(pc) <= 9 => ncp.window = 0 /\ NoneOf("permit", late)
    /\ Says(Pass("permitJoiningOpen")) /\ "permit" \notin unsaid =>
          /\ NoneOf("permit", late)
          /\ pc = "joining" => ncp.window <= left
          /\ Says(Fail("deviceJoin")) => ncp.window = 0 \/ "cut" \in unsaid

\* What has come about while nothing went wrong.
CleanSoFar ==
    mishaps = 0 =>
        /\ link = "up" /\ ok /\ late = <<>> /\ pending = <<>> /\ parked = <<>>
        /\ Position(pc) \in 3 .. 7 => ~ncp.network
        /\ Position(pc) > 4 => ncp.endpoint
        /\ Position(pc) > 5 \/ (pc = "config" /\ item > 1) => "STACK_PROFILE" \in ncp.config
        /\ stored =>
             /\ Position(pc) > 7 => ncp.network
             /\ \A i \in 1 .. Len(lines) :
                   lines[i].passed \/ lines[i].name \in {"deviceJoin", "messageSentFailed"}

StartupInv ==
    /\ StartupTypes /\ LinesInOrder
    /\ LinesAreTrue /\ ArraysSoFar
    /\ DeliveryIsKnown /\ WindowIsWatched
    /\ CleanSoFar

-----------------------------------------------------------------------------
(* One command, and the lines *)

\* What a command of step may do to the dongle.
LEMMA AfterDoes ==
    ASSUME ncp \in Dongles, NEW c \in Sendings
    PROVE  LET d == After(ncp, c.step, c.entry) IN
           /\ d \in Dongles
           /\ ncp.endpoint \/ c.step = "endpoint" => d.endpoint
           /\ d.config = IF c.step = "config" THEN ncp.config \cup {Configurations[c.entry]}
                         ELSE ncp.config
           /\ d.policies = IF c.step = "policy" THEN ncp.policies \cup {Policies[c.entry]}
                           ELSE ncp.policies
           /\ ncp.network \/ c.step = "init" => d.network
           /\ d.network => ncp.network \/ c.step = "init"
           /\ c.step \notin {"permit", "close"} => d.window = ncp.window
           /\ c.step = "permit" => d.window <= JOIN_SECONDS
           /\ c.step = "close" => d.window = 0
           /\ c.step = "clear" \/ (~ncp.key /\ c.step # "import") => ~d.key
<1>1. /\ c.step = "config" => Configurations[c.entry] \in Elements(Configurations)
      /\ c.step = "policy" => Policies[c.entry] \in Elements(Policies)
  <2>1. /\ c.step = "config" => c.entry \in 1 .. Len(Configurations)
        /\ c.step = "policy" => c.entry \in 1 .. Len(Policies)
    BY DEF Sendings
  <2> QED BY <2>1 DEF Elements
<1>2. for_seconds(JOIN_SECONDS) \in 0 .. MAX_DURATION /\ for_seconds(JOIN_SECONDS) <= JOIN_SECONDS
  <2>1. JOIN_SECONDS \in Nat /\ MAX_DURATION \in Nat
    BY StartupAssumption DEF MAX_DURATION
  <2>2. for_seconds(JOIN_SECONDS) = IF JOIN_SECONDS <= MAX_DURATION THEN JOIN_SECONDS
                                   ELSE MAX_DURATION
    BY <2>1, MinOfTwo DEF for_seconds
  <2> QED BY <2>1, <2>2
<1>3. 0 \in 0 .. MAX_DURATION
  BY DEF MAX_DURATION
<1> QED BY <1>1, <1>2, <1>3 DEF After, Dongles

\* A part of the callbacks.
LEMMA PartOfCallbacks ==
    ASSUME callbacks \in Seq(Callbacks), NEW m \in 1 .. (Len(callbacks) + 1),
           NEW n \in 0 .. Len(callbacks), NEW part, part = SubSeq(callbacks, m, n)
    PROVE  /\ part \in Seq(Callbacks) /\ Len(part) \in Nat
           /\ \A i \in 1 .. Len(part) : \E j \in 1 .. Len(callbacks) : part[i] = callbacks[j]
<1>1. part \in Seq(Callbacks)
  OBVIOUS
<1>2. Len(part) = IF m <= n THEN n - m + 1 ELSE 0
  OBVIOUS
<1>3. \A i \in 1 .. Len(part) : part[i] = callbacks[m + i - 1] /\ m + i - 1 \in 1 .. Len(callbacks)
  BY <1>2
<1>4. ASSUME NEW i \in 1 .. Len(part) PROVE \E j \in 1 .. Len(callbacks) : part[i] = callbacks[j]
  <2>1. part[i] = callbacks[m + i - 1] /\ m + i - 1 \in 1 .. Len(callbacks)
    BY <1>3
  <2> WITNESS m + i - 1 \in 1 .. Len(callbacks)
  <2> QED BY <2>1
<1>5. Len(part) \in Nat
  BY <1>1
<1> QED BY <1>1, <1>4, <1>5

\* No callback is there that was not there before.
NoNewCallbacks ==
    /\ callbacks' \in Seq(Callbacks)
    /\ \A i \in 1 .. Len(callbacks') : \E j \in 1 .. Len(callbacks) : callbacks'[i] = callbacks[j]

LEMMA SameCallbacks ==
    ASSUME callbacks \in Seq(Callbacks), UNCHANGED callbacks \/ callbacks' = <<>>
    PROVE  NoNewCallbacks
<1>1. CASE UNCHANGED callbacks
  BY <1>1 DEF NoNewCallbacks
<1>2. CASE callbacks' = <<>>
  BY <1>2 DEF NoNewCallbacks
<1> QED BY <1>1, <1>2

LEMMA MislaidDoes ==
    ASSUME callbacks \in Seq(Callbacks), Mislaid PROVE NoNewCallbacks
<1>1. CASE UNCHANGED callbacks
  BY <1>1, SameCallbacks
<1>2. ASSUME NEW i \in 1 .. Len(callbacks),
             callbacks' = SubSeq(callbacks, 1, i - 1) \o SubSeq(callbacks, i + 1, Len(callbacks))
      PROVE  NoNewCallbacks
  <2>1. PICK front, back : /\ front = SubSeq(callbacks, 1, i - 1)
                           /\ back = SubSeq(callbacks, i + 1, Len(callbacks))
    OBVIOUS
  <2>2. /\ 1 \in 1 .. (Len(callbacks) + 1) /\ i - 1 \in 0 .. Len(callbacks)
        /\ i + 1 \in 1 .. (Len(callbacks) + 1) /\ Len(callbacks) \in 0 .. Len(callbacks)
    BY <1>2
  <2>3. /\ front \in Seq(Callbacks) /\ Len(front) \in Nat
        /\ \A k \in 1 .. Len(front) : \E j \in 1 .. Len(callbacks) : front[k] = callbacks[j]
    BY <2>1, <2>2, PartOfCallbacks
  <2>4. /\ back \in Seq(Callbacks) /\ Len(back) \in Nat
        /\ \A k \in 1 .. Len(back) : \E j \in 1 .. Len(callbacks) : back[k] = callbacks[j]
    BY <2>1, <2>2, PartOfCallbacks
  <2>5. PICK rest : rest = front \o back
    OBVIOUS
  <2>6. rest \in Seq(Callbacks) /\ Len(rest) = Len(front) + Len(back)
    BY <2>3, <2>4, <2>5
  <2>7. ASSUME NEW k \in 1 .. Len(rest) PROVE \E j \in 1 .. Len(callbacks) : rest[k] = callbacks[j]
    <3>1. CASE k \in 1 .. Len(front)
      <4>1. rest[k] = front[k]
        BY <2>3, <2>4, <2>5, <3>1
      <4> QED BY <2>3, <3>1, <4>1
    <3>2. CASE k > Len(front)
      <4>1. rest[k] = back[k - Len(front)] /\ k - Len(front) \in 1 .. Len(back)
        BY <2>3, <2>4, <2>5, <2>6, <3>2
      <4> QED BY <2>4, <4>1
    <3> QED BY <2>3, <2>6, <3>1, <3>2
  <2>8. callbacks' = rest
    BY <1>2, <2>1, <2>5
  <2> QED BY <2>6, <2>7, <2>8 DEF NoNewCallbacks
<1> QED BY <1>1, <1>2 DEF Mislaid

\* The command main is about to send.
Sending == [step |-> pc, entry |-> item]

LEMMA SendingTyped ==
    ASSUME StartupTypes, pc \in CommandSteps
    PROVE  Sending \in Sendings /\ Sending.step = pc /\ Sending.entry = item
<1>1. /\ pc = "config" => item \in 1 .. Len(Configurations)
      /\ pc = "policy" => item \in 1 .. Len(Policies)
      /\ pc \notin {"config", "policy"} => item \in 1 .. 1
  BY DEF StartupTypes, StartupTypeOK
<1>2. Len(Configurations) = 4 /\ Len(Policies) = 3
  BY DEF Configurations, Policies
<1>3. item \in 1 .. 4
  BY <1>1, <1>2
<1>4. Sending.step = pc /\ Sending.entry = item /\ Sending \in [step : CommandSteps, entry : 1 .. 4]
  BY <1>3 DEF Sending
<1> QED BY <1>1, <1>4 DEF Sendings

\* The dongle took the command and the host has its answer; nothing sent earlier is still to come.
OwnAnswer ==
    /\ link = "up" /\ Accepts(ncp, pc) /\ ncp' = After(ncp, pc, item)
    /\ late = <<>> /\ late' = <<>> /\ parked = <<>> /\ parked' = <<>>
    /\ pending = <<>> /\ pending' = <<>>

\* An answer left behind was taken for the command's own, which is outstanding from now on.
Borrowed ==
    /\ parked # <<>> /\ parked' = <<>> /\ pending = <<>> /\ pending' # <<>>
    /\ pc \in {"init", "permit", "close"} => pc \in unsaid'

\* What a command may do, by its result.
Does(result) ==
    /\ NoNewCallbacks /\ mishaps' \in Nat
    /\ ncp' \in {ncp, After(ncp, pc, item)}
    /\ late' \in {late, Append(late, Sending)}
    /\ \/ parked' \in {parked, <<>>}
       \/ result = "error" /\ parked' # <<>> /\ parked'[1].step = pc
    /\ unsaid \subseteq unsaid'
    /\ result = "ok" => OwnAnswer \/ (Borrowed /\ "ok" \in ReadAs(parked[1], pc))
    /\ result = "refused" /\ pc = "init"
          => "init" \in unsaid' \/ (link = "up" /\ (~Accepts(ncp, pc) \/ "balked" \in unsaid'))

LEMMA CommandDoes ==
    ASSUME StartupTypes, NEW result, Command(result)
    PROVE  /\ UNCHANGED <<args, joined, outcome, link, stored, delivered, events>>
           /\ Does(result)
<1>1. callbacks \in Seq(Callbacks) /\ mishaps \in Nat
  BY DEF StartupTypes
<1>2. UNCHANGED <<args, joined, outcome, link, stored, delivered, events>>
  BY DEF Command
<1> SUFFICES Does(result)
  BY <1>2
<1>3. UNCHANGED callbacks => NoNewCallbacks
  BY <1>1, SameCallbacks
<1>4. CASE Busy(result)
  BY <1>1, <1>3, <1>4 DEF Busy, Does, callVars
<1>5. CASE Answered(result)
  <2>1. UNCHANGED <<callVars, callbacks>> /\ link = "up"
        /\ parked = <<>> /\ late = <<>> /\ pending = <<>>
    BY <1>5 DEF Answered
  <2>2. CASE result = "ok" /\ Accepts(ncp, pc) /\ ncp' = After(ncp, pc, item)
             /\ UNCHANGED <<unsaid, mishaps>>
    BY <1>1, <1>3, <2>1, <2>2 DEF Does, OwnAnswer, callVars
  <2>3. CASE result = "refused" /\ ~Accepts(ncp, pc) /\ UNCHANGED <<ncp, unsaid, mishaps>>
    BY <1>1, <1>3, <2>1, <2>3 DEF Does, callVars
  <2>4. CASE /\ result = "refused" /\ mishaps' = mishaps + 1 /\ UNCHANGED ncp
             /\ unsaid' = unsaid \cup (IF pc = "init" THEN {"balked"} ELSE {})
    BY <1>1, <1>3, <2>1, <2>4 DEF Does, callVars
  <2> QED BY <1>5, <2>2, <2>3, <2>4 DEF Answered, Mishap
<1>6. CASE TimesOut(result)
  <2>1. /\ result = "error" /\ UNCHANGED <<ncp, pending, parked, callbacks, unsaid>>
        /\ late' \in {late, Append(late, Sending)} /\ mishaps' \in {mishaps, mishaps + 1}
    BY <1>6 DEF TimesOut, Mishap, Queued, Sending
  <2> QED BY <1>1, <1>3, <2>1 DEF Does
<1>7. CASE TransportFails(result)
  <2>1. /\ result = "error" /\ UNCHANGED <<ncp, parked, unsaid>>
        /\ late' \in {late, Append(late, Sending)} /\ mishaps' \in {mishaps, mishaps + 1}
        /\ Mislaid \/ UNCHANGED callbacks
    BY <1>7 DEF TransportFails, Mishap, Queued, Sending
  <2> QED BY <1>1, <1>3, <2>1, MislaidDoes DEF Does
<1>8. CASE Misanswered(result)
  <2>1. /\ UNCHANGED <<ncp, callbacks, mishaps>> /\ parked # <<>> /\ parked' = <<>>
        /\ late' \in {late, Append(late, Sending)} /\ pending = <<>> /\ pending' # <<>>
        /\ unsaid' = unsaid \cup ({pc} \cap {"init", "permit", "close"})
        /\ result \in ReadAs(parked[1], pc)
    BY <1>8 DEF Misanswered, Queued, Sending, Outstanding
  <2>2. Borrowed /\ unsaid \subseteq unsaid' /\ (pc = "init" => "init" \in unsaid')
    BY <2>1 DEF Borrowed
  <2> QED BY <1>1, <1>3, <2>1, <2>2 DEF Does
<1>9. CASE LeavesAnswer(result)
  <2>1. /\ result = "error" /\ late' = late /\ unsaid' = unsaid /\ mishaps' = mishaps + 1 /\ Mislaid
        /\ ncp' \in {ncp, After(ncp, pc, item)}
        /\ \E status : parked' = <<[step |-> pc, status |-> status]>>
    BY <1>9 DEF LeavesAnswer, Mishap
  <2>2. parked' # <<>> /\ parked'[1].step = pc
    BY <2>1
  <2> QED BY <1>1, <2>1, <2>2, MislaidDoes DEF Does
<1> QED BY <1>4, <1>5, <1>6, <1>7, <1>8, <1>9 DEF Command

\* While nothing has gone wrong a command is answered, and what the dongle refuses it has a reason
\* to refuse.
LEMMA CleanDoes ==
    ASSUME StartupTypes, NEW result, Command(result), mishaps' = 0,
           mishaps = 0 => link = "up" /\ late = <<>> /\ pending = <<>> /\ parked = <<>>
    PROVE  /\ mishaps = 0 /\ late' = <<>> /\ pending' = <<>> /\ parked' = <<>>
           /\ \/ result = "ok"
              \/ result = "refused" /\ HasStatus(pc) /\ ~Accepts(ncp, pc) /\ ncp' = ncp
<1>1. mishaps \in Nat /\ MAX_WINDOW \in Nat \ {0}
  BY StartupAssumption DEF StartupTypes
<1>2. mishaps = 0
  <2>1. mishaps' \in {mishaps, mishaps + 1}
    BY DEF Command, Busy, Answered, TimesOut, TransportFails, LeavesAnswer, Mishap, Misanswered
  <2> QED BY <1>1, <2>1
<1>3. ~Busy(result) /\ ~Misanswered(result) /\ ~LeavesAnswer(result)
  BY <1>1, <1>2 DEF Busy, Misanswered, LeavesAnswer, Mishap
<1>4. ~TimesOut(result)
  BY <1>2 DEF TimesOut, Mishap
<1>5. ~TransportFails(result)
  <2>1. Len(late) = 0
    BY <1>2
  <2> QED BY <1>1, <1>2, <2>1 DEF TransportFails, Mishap
<1> QED BY <1>2, <1>3, <1>4, <1>5 DEF Command, Answered, Mishap, callVars

\* The summary with one more line.
LEMMA LineAdded ==
    ASSUME StartupTypes, NEW line \in Lines, lines' = Append(lines, line)
    PROVE  /\ lines' \in Seq(Lines)
           /\ Len(lines') = Len(lines) + 1 /\ Len(lines) \in Nat
           /\ \A i \in 1 .. Len(lines') :
                 lines'[i] = line \/ (i \in 1 .. Len(lines) /\ lines'[i] = lines[i])
<1>1. lines \in Seq(Lines)
  BY DEF StartupTypes
<1> QED BY <1>1

\* What no step but a reboot undoes on the dongle.
Keeps ==
    /\ ncp.endpoint => ncp'.endpoint
    /\ ncp.config \subseteq ncp'.config /\ ncp.policies \subseteq ncp'.policies
    /\ ncp.network => ncp'.network
    /\ ~ncp.key /\ NoneOf("import", late) /\ pc # "import" => ~ncp'.key /\ NoneOf("import", late')

\* Only permitJoining opens the window.
StaysShut ==
    /\ NoneOf("permit", late) /\ pc # "permit"
          => NoneOf("permit", late') /\ (ncp.window = 0 => ncp'.window = 0)
    /\ unsaid \subseteq unsaid'

\* A line stays true of a dongle that keeps what it has: the commands that could undo it come
\* before the line, and none of them is still to be taken.
LEMMA StaysTrue ==
    ASSUME StartupTypes, ncp' \in Dongles, Keeps, StaysShut,
           NEW line, TrueOf(line, ncp, late, unsaid), InOrder(line, Position(pc))
    PROVE  TrueOf(line, ncp', late', unsaid')
<1>1. /\ ncp.config \subseteq Elements(Configurations) /\ ncp.policies \subseteq Elements(Policies)
      /\ ncp'.config \subseteq Elements(Configurations) /\ ncp'.policies \subseteq Elements(Policies)
  BY DEF StartupTypes, Dongles
<1>2. /\ line = Pass("permitJoiningClosed") => pc # "permit"
      /\ line = Pass("clearTransientLinkKeys") => pc # "import"
  BY Positions DEF InOrder
<1>3. line = Pass("setConfigurationValue")
        => ncp'.config = Elements(Configurations)
  BY <1>1 DEF TrueOf, Keeps
<1>4. line = Pass("setPolicy") => ncp'.policies = Elements(Policies)
  BY <1>1 DEF TrueOf, Keeps
<1>5. line = Pass("permitJoiningClosed")
        => "close" \in unsaid' \/ (ncp'.window = 0 /\ NoneOf("permit", late'))
  BY <1>2 DEF TrueOf, StaysShut
<1>6. line = Pass("clearTransientLinkKeys") => ~ncp'.key /\ NoneOf("import", late')
  BY <1>2 DEF TrueOf, Keeps
<1>7. line = Pass("networkInitResumed") => ncp'.network \/ "init" \in unsaid'
  BY DEF TrueOf, Keeps, StaysShut
<1> QED BY <1>3, <1>4, <1>5, <1>6, <1>7 DEF TrueOf, Keeps

\* Positions only grow, so a line in order stays in order.
LEMMA StaysInOrder ==
    ASSUME NEW line, NEW p \in Int, NEW q \in Int, p <= q, InOrder(line, p)
    PROVE  InOrder(line, q)
BY DEF InOrder

\* A step of main that adds one line and moves on, by what it leaves to the rest of the program.
Adds(line) ==
    /\ line \in Lines /\ lines' = Append(lines, line)
    /\ pc' \in Elements(Steps) /\ Position(pc') \in (Position(pc) + 1) .. 16
    /\ pc' = "joining" => pc = "permit"
    /\ InOrder(line, Position(pc'))
    /\ line = Pass("setConfigurationValue") => pc = "config"
    /\ line = Pass("permitJoiningOpen") => pc = "permit"

LeavesTypes ==
    /\ item' = 1 /\ ok' \in BOOLEAN /\ left' \in 0 .. Max({JOIN_SECONDS, SENT_SECONDS})
    /\ UNCHANGED <<joined, outcome, stored, delivered>> /\ NoNewCallbacks
    /\ ncp' \in Dongles /\ late' \in Seq(Sendings) /\ mishaps' \in Nat
    /\ link' = link \/ (link = "up" /\ link' = "gone")
    /\ Position(pc') <= 3 => parked' = <<>>
    /\ pc' = "endpoint" /\ parked' # <<>> => parked'[1].step = "eui64"

LeavesTruth(line) ==
    /\ link' # "reset" => TrueOf(line, ncp', late', unsaid')
    /\ Keeps \/ pc = "connect"
    /\ StaysShut
    /\ line = Pass("networkInitNoNetwork") /\ Says(Pass("setConfigurationValue"))
          => ~stored \/ unsaid' \cap {"init", "balked"} # {}
    /\ line = Pass("messageSentDelivered") => delivered

LeavesWindow(line) ==
    /\ Position(pc') <= 9 => ncp'.window = 0 /\ NoneOf("permit", late')
    /\ line = Pass("permitJoiningOpen") /\ "permit" \notin unsaid'
          => NoneOf("permit", late') /\ (pc' = "joining" => ncp'.window <= left')
    /\ line = Fail("deviceJoin") /\ Says(Pass("permitJoiningOpen")) /\ "permit" \notin unsaid
          => ncp'.window = 0 \/ "cut" \in unsaid'

LeavesClean(line) ==
    mishaps' = 0 =>
        /\ mishaps = 0 /\ link' = "up" /\ ok' /\ late' = <<>> /\ pending' = <<>> /\ parked' = <<>>
        /\ Position(pc') \in 3 .. 7 => ~ncp'.network
        /\ Position(pc') > 4 => ncp'.endpoint
        /\ Position(pc') > 5 => "STACK_PROFILE" \in ncp'.config
        /\ stored => /\ Position(pc') > 7 => ncp'.network
                     /\ line.passed \/ line.name \in {"deviceJoin", "messageSentFailed"}

\* The line that is added is the only new one.
LEMMA SaidBefore ==
    ASSUME StartupTypes, NEW line, Adds(line), NEW other, Says(other)'
    PROVE  Says(other) \/ other = line
<1>1. \A i \in 1 .. Len(lines') :
         lines'[i] = line \/ (i \in 1 .. Len(lines) /\ lines'[i] = lines[i])
  BY LineAdded DEF Adds
<1>2. PICK i \in 1 .. Len(lines') : lines'[i] = other
  BY DEF Says
<1> QED BY <1>1, <1>2 DEF Says

\* A line that was said was said in its order.
LEMMA SaidInOrder ==
    ASSUME LinesInOrder, NEW other, Says(other) PROVE InOrder(other, Position(pc))
BY DEF LinesInOrder, Says

\* Nothing is delivered that was not before.
LEMMA DeliveryStays ==
    ASSUME DeliveryIsKnown, NoNewCallbacks, delivered => delivered'
    PROVE  \A i \in 1 .. Len(callbacks') :
              callbacks'[i].kind = "MessageSent" /\ callbacks'[i].what = "ok" => delivered'
BY DEF DeliveryIsKnown, NoNewCallbacks

\* Such a step preserves the invariant.
LEMMA SpeakingStep ==
    ASSUME StartupInv, NEW line, Adds(line), LeavesTypes, LeavesTruth(line), LeavesWindow(line),
           LeavesClean(line)
    PROVE  StartupInv'
<1>1. StartupTypes /\ LinesInOrder /\ pc \in Elements(Steps) /\ Position(pc) \in 1 .. 16
  BY StepAt DEF StartupInv, StartupTypes, StartupTypeOK
<1>2. /\ lines' \in Seq(Lines)
      /\ Len(lines') = Len(lines) + 1 /\ Len(lines) \in Nat
      /\ \A i \in 1 .. Len(lines') :
            lines'[i] = line \/ (i \in 1 .. Len(lines) /\ lines'[i] = lines[i])
  BY <1>1, LineAdded DEF Adds
<1>3. pc' \in Elements(Steps) /\ Position(pc') \in 1 .. 16 /\ Position(pc) < Position(pc')
  BY <1>1 DEF Adds
<1>4. StartupTypes'
  <2>1. item' \in 1 .. (CASE pc' = "config" -> Len(Configurations) [] pc' = "policy" -> Len(Policies)
                          [] OTHER -> 1)
    BY DEF Configurations, Policies, LeavesTypes
  <2>2. Len(lines') < Position(pc') /\ Len(lines') <= Len(Steps)
    <3>1. Len(lines) < Position(pc) /\ Len(Steps) = 16
      BY <1>1, Positions DEF StartupTypes
    <3>2. PICK n \in Nat : Len(lines) = n /\ Len(lines') = n + 1
      BY <1>2
    <3>3. PICK p \in 1 .. 16, q \in 1 .. 16 : p = Position(pc) /\ q = Position(pc') /\ p < q
      BY <1>1, <1>3
    <3>4. n < p
      BY <3>1, <3>2, <3>3
    <3>5. n + 1 < q /\ n + 1 <= 16
      BY <3>3, <3>4
    <3> QED BY <3>1, <3>2, <3>3, <3>5
  <2>3. ncp'.window \in 0 .. MAX_DURATION /\ link' \in {"up", "reset", "gone"}
    BY <1>1 DEF Dongles, StartupTypes, StartupTypeOK, LeavesTypes
  <2>4. callbacks' \in Seq(Callbacks)
    BY DEF LeavesTypes, NoNewCallbacks
  <2>5. StartupTypeOK'
    BY <1>1, <1>3, <2>1, <2>2, <2>3 DEF StartupTypes, StartupTypeOK, LeavesTypes
  <2>6. pc' # "open"
    <3>1. Position(pc) >= 1 /\ Position(pc) \in Int /\ Position(pc') \in Int
      BY <1>1, <1>3
    <3>2. Position(pc') # 1
      BY <1>3, <3>1
    <3> QED BY <3>2, Positions
  <2> QED BY <1>2, <2>2, <2>4, <2>5, <2>6 DEF StartupTypes, LeavesTypes
<1>5. LinesInOrder'
  <2>1. ASSUME NEW i \in 1 .. Len(lines) PROVE InOrder(lines[i], Position(pc'))
    <3>1. InOrder(lines[i], Position(pc))
      BY DEF StartupInv, LinesInOrder
    <3>2. PICK p \in 1 .. 16, q \in 1 .. 16 : p = Position(pc) /\ q = Position(pc') /\ p < q
      BY <1>1, <1>3
    <3>3. InOrder(lines[i], p) /\ p \in Int /\ q \in Int /\ p <= q
      BY <3>1, <3>2
    <3>4. InOrder(lines[i], q)
      BY <3>3, StaysInOrder
    <3> QED BY <3>2, <3>4
  <2> QED BY <1>2, <2>1 DEF LinesInOrder, Adds
<1>6. LinesAreTrue'
  <2>1. ASSUME link' # "reset", NEW i \in 1 .. Len(lines')
        PROVE  TrueOf(lines'[i], ncp', late', unsaid')
    <3>1. CASE lines'[i] = line
      BY <2>1, <3>1 DEF LeavesTruth
    <3>2. CASE i \in 1 .. Len(lines) /\ lines'[i] = lines[i]
      <4>1. TrueOf(lines[i], ncp, late, unsaid) /\ InOrder(lines[i], Position(pc))
        BY <2>1, <3>2 DEF StartupInv, LinesAreTrue, LinesInOrder, LeavesTypes
      <4>2. CASE Keeps
        BY <1>1, <3>2, <4>1, <4>2, StaysTrue DEF LeavesTypes, LeavesTruth
      <4>3. CASE pc = "connect"
        BY <3>2, <4>1, <4>3, Positions DEF InOrder, TrueOf
      <4> QED BY <4>2, <4>3 DEF LeavesTruth
    <3> QED BY <1>2, <3>1, <3>2
  <2>2. ASSUME Says(Pass("networkInitNoNetwork"))', Says(Pass("setConfigurationValue"))'
        PROVE  ~stored' \/ unsaid' \cap {"init", "balked"} # {}
    <3>1. /\ Says(Pass("networkInitNoNetwork")) \/ Pass("networkInitNoNetwork") = line
          /\ Says(Pass("setConfigurationValue")) \/ Pass("setConfigurationValue") = line
      BY <1>1, <2>2, SaidBefore
    <3>2. CASE /\ Says(Pass("networkInitNoNetwork"))
               /\ Says(Pass("setConfigurationValue"))
      BY <3>2 DEF StartupInv, LinesAreTrue, LeavesTypes, LeavesTruth, StaysShut
    <3>3. CASE /\ Pass("networkInitNoNetwork") = line
               /\ Says(Pass("setConfigurationValue"))
      BY <3>3 DEF LeavesTypes, LeavesTruth
    <3>4. CASE Pass("setConfigurationValue") = line
      <4>1. pc = "config" /\ Pass("networkInitNoNetwork") # line
        BY <3>4 DEF Adds, Pass
      <4>2. InOrder(Pass("networkInitNoNetwork"), Position(pc))
        BY <1>1, <3>1, <4>1, SaidInOrder
      <4> QED BY <4>1, <4>2, Positions DEF InOrder
    <3> QED BY <3>1, <3>2, <3>3, <3>4
  <2> QED BY <2>1, <2>2 DEF LinesAreTrue
<1>7. ArraysSoFar'
  BY DEF ArraysSoFar, LeavesTypes
<1>8. DeliveryIsKnown'
  <2>1. \A i \in 1 .. Len(lines') :
           lines'[i] = Pass("messageSentDelivered") => delivered'
    BY <1>2 DEF StartupInv, DeliveryIsKnown, LeavesTypes, LeavesTruth
  <2>2. \A i \in 1 .. Len(callbacks') :
           callbacks'[i].kind = "MessageSent" /\ callbacks'[i].what = "ok" => delivered'
    BY DeliveryStays DEF StartupInv, LeavesTypes
  <2> QED BY <2>1, <2>2 DEF StartupInv, DeliveryIsKnown, LeavesTypes
<1>9. WindowIsWatched'
  <2> SUFFICES ASSUME Says(Pass("permitJoiningOpen"))', "permit" \notin unsaid'
               PROVE  /\ NoneOf("permit", late')
                      /\ pc' = "joining" => ncp'.window <= left'
                      /\ Says(Fail("deviceJoin"))' => ncp'.window = 0 \/ "cut" \in unsaid'
    BY DEF WindowIsWatched, LeavesWindow
  <2>0. unsaid \subseteq unsaid' /\ "permit" \notin unsaid
    BY DEF LeavesTruth, StaysShut
  <2>1. CASE Pass("permitJoiningOpen") = line
    <3>1. pc = "permit" /\ Fail("deviceJoin") # line
      BY <2>1 DEF Adds, Pass, Fail
    <3>2. ~Says(Fail("deviceJoin"))
      BY <1>1, <3>1, SaidInOrder, Positions DEF InOrder
    <3>3. ~Says(Fail("deviceJoin"))'
      BY <1>1, <3>1, <3>2, SaidBefore
    <3> QED BY <2>1, <3>3 DEF LeavesWindow
  <2>2. CASE Says(Pass("permitJoiningOpen"))
    <3>1. Position(pc) > 9
      BY <1>1, <2>2, SaidInOrder DEF InOrder
    <3>2. pc # "permit" /\ pc' # "joining"
      BY <3>1, Positions DEF Adds
    <3>3. NoneOf("permit", late') /\ (ncp.window = 0 => ncp'.window = 0)
      BY <2>0, <2>2, <3>2 DEF StartupInv, WindowIsWatched, LeavesTruth, StaysShut
    <3>4. ASSUME Says(Fail("deviceJoin"))' PROVE ncp'.window = 0 \/ "cut" \in unsaid'
      <4>1. Says(Fail("deviceJoin")) \/ Fail("deviceJoin") = line
        BY <1>1, <3>4, SaidBefore
      <4>2. CASE Says(Fail("deviceJoin"))
        BY <2>0, <2>2, <3>3, <4>2 DEF StartupInv, WindowIsWatched
      <4>3. CASE Fail("deviceJoin") = line
        BY <2>0, <2>2, <4>3 DEF LeavesWindow
      <4> QED BY <4>1, <4>2, <4>3
    <3> QED BY <3>2, <3>3, <3>4
  <2> QED BY <1>1, <2>1, <2>2, SaidBefore
<1>10. CleanSoFar'
  <2> SUFFICES ASSUME mishaps' = 0
               PROVE  /\ link' = "up" /\ ok' /\ late' = <<>> /\ pending' = <<>> /\ parked' = <<>>
                      /\ Position(pc') \in 3 .. 7 => ~ncp'.network
                      /\ Position(pc') > 4 => ncp'.endpoint
                      /\ Position(pc') > 5 \/ (pc' = "config" /\ item' > 1)
                            => "STACK_PROFILE" \in ncp'.config
                      /\ stored' =>
                            /\ Position(pc') > 7 => ncp'.network
                            /\ \A i \in 1 .. Len(lines') :
                                  \/ lines'[i].passed
                                  \/ lines'[i].name \in {"deviceJoin", "messageSentFailed"}
    BY DEF CleanSoFar
  <2>1. ASSUME stored', NEW i \in 1 .. Len(lines')
        PROVE  lines'[i].passed \/ lines'[i].name \in {"deviceJoin", "messageSentFailed"}
    BY <1>2, <2>1 DEF StartupInv, CleanSoFar, LeavesClean, LeavesTypes
  <2> QED BY <2>1 DEF LeavesClean, LeavesTypes
<1> QED BY <1>4, <1>5, <1>6, <1>7, <1>8, <1>9, <1>10 DEF StartupInv

-----------------------------------------------------------------------------
(* The steps that send a command *)

Results == {"ok", "refused", "error"}

\* The queue with one more command, or without its first.
LEMMA NoneAppended ==
    ASSUME late \in Seq(Sendings), NEW c \in Sendings, NEW step, NoneOf(step, late), c.step # step
    PROVE  NoneOf(step, Append(late, c))
<1>1. PICK queue : queue = Append(late, c)
  OBVIOUS
<1>2. \A i \in 1 .. Len(queue) : queue[i] = c \/ (i \in 1 .. Len(late) /\ queue[i] = late[i])
  BY <1>1
<1> QED BY <1>1, <1>2 DEF NoneOf

LEMMA NoneInTail ==
    ASSUME late \in Seq(Sendings), late # <<>>
    PROVE  /\ Head(late) \in Sendings /\ Tail(late) \in Seq(Sendings)
           /\ \A step : NoneOf(step, late) => NoneOf(step, Tail(late)) /\ Head(late).step # step
<1>1. Head(late) \in Sendings /\ Tail(late) \in Seq(Sendings) /\ Head(late) = late[1]
  OBVIOUS
<1>2. 1 \in 1 .. Len(late)
  OBVIOUS
<1>3. PICK queue : queue = Tail(late)
  OBVIOUS
<1>4. \A i \in 1 .. Len(queue) : i + 1 \in 1 .. Len(late) /\ queue[i] = late[i + 1]
  BY <1>3
<1>5. ASSUME NEW step, NoneOf(step, late)
      PROVE  NoneOf(step, Tail(late)) /\ Head(late).step # step
  BY <1>1, <1>2, <1>3, <1>4, <1>5 DEF NoneOf
<1> QED BY <1>1, <1>5

\* A command undoes nothing but what it is there to undo.
LEMMA CommandKeeps ==
    ASSUME StartupTypes, pc \in CommandSteps, NEW result, Command(result)
    PROVE  /\ Keeps /\ StaysShut /\ ncp' \in Dongles /\ late' \in Seq(Sendings)
           /\ ncp'.network => ncp.network \/ pc = "init"
           /\ pc = "permit" => ncp'.window <= JOIN_SECONDS \/ ncp'.window = ncp.window
<1>1. ncp' \in {ncp, After(ncp, pc, item)} /\ late' \in {late, Append(late, Sending)}
      /\ unsaid \subseteq unsaid'
  BY CommandDoes DEF Does
<1>2. ncp \in Dongles /\ late \in Seq(Sendings)
  BY DEF StartupTypes
<1>3. Sending \in Sendings /\ Sending.step = pc /\ Sending.entry = item
  BY SendingTyped
<1>4. /\ late' \in Seq(Sendings)
      /\ \A step : NoneOf(step, late) /\ pc # step => NoneOf(step, late')
  <2>1. CASE late' = late
    BY <1>2, <2>1
  <2>2. CASE late' = Append(late, Sending)
    BY <1>2, <1>3, <2>2, NoneAppended
  <2> QED BY <1>1, <2>1, <2>2
<1>5. /\ ncp' \in Dongles
      /\ ncp.endpoint => ncp'.endpoint
      /\ ncp.config \subseteq ncp'.config /\ ncp.policies \subseteq ncp'.policies
      /\ ncp.network => ncp'.network
      /\ ncp'.network => ncp.network \/ pc = "init"
      /\ pc # "permit" => (ncp.window = 0 => ncp'.window = 0)
      /\ pc = "permit" => ncp'.window <= JOIN_SECONDS \/ ncp'.window = ncp.window
      /\ ~ncp.key /\ pc # "import" => ~ncp'.key
  <2>1. CASE ncp' = ncp
    BY <1>2, <2>1
  <2>2. CASE ncp' = After(ncp, pc, item)
    <3>1. ncp' = After(ncp, Sending.step, Sending.entry)
      BY <1>3, <2>2
    <3> HIDE DEF Sending
    <3> QED BY <1>2, <1>3, <3>1, AfterDoes
  <2> QED BY <1>1, <2>1, <2>2
<1> QED BY <1>1, <1>4, <1>5 DEF Keeps, StaysShut

\* An ok is the command's own, or one left behind; an answer of the shape that addEndpoint or
\* clearTransientLinkKeys waits for is never left behind for it.
LEMMA AnswerIs ==
    ASSUME StartupTypes, Command("ok")
    PROVE  OwnAnswer \/ (Borrowed /\ pc \notin {"endpoint", "clear"})
<1>1. OwnAnswer \/ (Borrowed /\ "ok" \in ReadAs(parked[1], pc))
  BY CommandDoes DEF Does
<1>2. ASSUME Borrowed, pc = "endpoint" PROVE "ok" \notin ReadAs(parked[1], pc)
  <2>1. parked[1].step = "eui64"
    BY <1>2 DEF StartupTypes, Borrowed
  <2> QED BY <1>2, <2>1 DEF ReadAs, Shape
<1>3. ASSUME pc = "clear" PROVE "ok" \notin ReadAs(parked[1], pc)
  BY <1>3 DEF ReadAs, Shape
<1> QED BY <1>1, <1>2, <1>3

\* The dongle after the command's own answer.
LEMMA OwnAnswerDoes ==
    ASSUME StartupTypes, pc \in CommandSteps, OwnAnswer
    PROVE  /\ pc = "endpoint" => ncp'.endpoint
           /\ pc = "config" => ncp'.config = ncp.config \cup {Configurations[item]}
           /\ pc = "policy" => ncp'.policies = ncp.policies \cup {Policies[item]}
           /\ pc = "init" => ncp'.network
           /\ pc = "permit" => ncp'.window <= JOIN_SECONDS
           /\ pc = "close" => ncp'.window = 0
           /\ pc = "clear" => ~ncp'.key
           /\ \A step : NoneOf(step, late')
<1>1. ncp \in Dongles
  BY DEF StartupTypes
<1>2. Sending \in Sendings /\ Sending.step = pc /\ Sending.entry = item
  BY SendingTyped
<1>3. ncp' = After(ncp, Sending.step, Sending.entry)
  BY <1>2 DEF OwnAnswer
<1>4. \A step : NoneOf(step, late')
  BY DEF OwnAnswer, NoneOf
<1> QED BY <1>1, <1>2, <1>3, <1>4, AfterDoes

\* While nothing has gone wrong the dongle refuses nothing that main sends it, except a network it
\* does not have.
LEMMA CleanCommand ==
    ASSUME StartupInv, pc \in CommandSteps, NEW result \in Results, Command(result), mishaps' = 0
    PROVE  /\ mishaps = 0 /\ link = "up" /\ ok /\ parked = <<>>
           /\ late' = <<>> /\ pending' = <<>> /\ parked' = <<>>
           /\ stored \/ pc \in {"eui64", "endpoint", "config", "policy"} => result = "ok" /\ OwnAnswer
<1>1. /\ mishaps = 0 /\ late' = <<>> /\ pending' = <<>> /\ parked' = <<>>
      /\ \/ result = "ok"
         \/ result = "refused" /\ HasStatus(pc) /\ ~Accepts(ncp, pc) /\ ncp' = ncp
  <2>1. mishaps = 0 => link = "up" /\ late = <<>> /\ pending = <<>> /\ parked = <<>>
    BY DEF StartupInv, CleanSoFar
  <2>2. StartupTypes
    BY DEF StartupInv
  <2> QED BY <2>1, <2>2, CleanDoes
<1>2. /\ link = "up" /\ ok /\ parked = <<>>
      /\ Position(pc) \in 3 .. 7 => ~ncp.network
      /\ Position(pc) > 5 => "STACK_PROFILE" \in ncp.config
      /\ stored /\ Position(pc) > 7 => ncp.network
  BY <1>1 DEF StartupInv, CleanSoFar
<1>3. stored \/ pc \in {"eui64", "endpoint", "config", "policy"}
        => Accepts(ncp, pc) \/ ~HasStatus(pc)
  BY <1>2, Positions DEF Accepts, HasStatus, CommandSteps
<1>4. result = "ok" => OwnAnswer
  BY <1>2, CommandDoes DEF Does, StartupInv, Borrowed
<1> QED BY <1>1, <1>2, <1>3, <1>4

\* A command step that adds one line and moves on.
LEMMA SpeakingCommand ==
    ASSUME StartupInv, pc \in CommandSteps, NEW result \in Results, Command(result),
           NEW line \in Lines, lines' = Append(lines, line), MovesOn,
           left' \in 0 .. Max({JOIN_SECONDS, SENT_SECONDS}),
           pc = "permit" => left' = JOIN_SECONDS,
           pc = "config" => item > 1,
           InOrder(line, Position(pc) + 1),
           link # "reset" => TrueOf(line, ncp', late', unsaid'),
           line = Pass("setConfigurationValue") => pc = "config",
           line = Pass("permitJoiningOpen") => pc = "permit" /\ (OwnAnswer \/ "permit" \in unsaid'),
           line = Pass("networkInitNoNetwork") /\ Says(Pass("setConfigurationValue"))
               => ~stored \/ unsaid' \cap {"init", "balked"} # {},
           line # Pass("messageSentDelivered"), line # Fail("deviceJoin"),
           result = "ok" /\ ok => line.passed
    PROVE  StartupInv'
<1>1. StartupTypes /\ pc \in Elements(Steps) /\ Position(pc) \in 3 .. 13 /\ pc # "done"
  <2>1. StartupTypes /\ pc \in Elements(Steps)
    BY DEF StartupInv, StartupTypes, StartupTypeOK
  <2>2. Position(pc) \in 3 .. 13 /\ pc # "done"
    BY Positions DEF CommandSteps
  <2> QED BY <2>1, <2>2
<1>2. /\ pc' \in Elements(Steps)
      /\ Position(pc') \in (Position(pc) + 1) .. 16
      /\ Position(pc) <= 6 => Position(pc') = Position(pc) + 1
      /\ pc' = "joining" => pc = "permit"
      /\ item' = 1 /\ ok' = TRUE
  BY <1>1, OrderOfMain DEF MovesOn
<1>3. /\ UNCHANGED <<joined, outcome, link, stored, delivered>> /\ NoNewCallbacks /\ mishaps' \in Nat
      /\ parked' \in {parked, <<>>} \/ parked'[1].step = pc
  BY <1>1, CommandDoes DEF Does
<1>4. /\ Keeps /\ StaysShut /\ ncp' \in Dongles /\ late' \in Seq(Sendings)
      /\ ncp'.network => ncp.network \/ pc = "init"
  BY <1>1, CommandKeeps
<1>5. Adds(line)
  <2>1. InOrder(line, Position(pc'))
    BY <1>1, <1>2, StaysInOrder
  <2> QED BY <1>2, <2>1 DEF Adds
<1>6. LeavesTypes
  <2>1. Position(pc') > 3
    BY <1>1, <1>2
  <2>2. ASSUME pc' = "endpoint", parked' # <<>> PROVE parked'[1].step = "eui64"
    <3>1. Position(pc) = 3 /\ Steps[3] = "eui64"
      BY <1>1, <1>2, <2>2, Positions DEF Steps
    <3>2. pc = "eui64"
      BY <1>1, <3>1, StepAt
    <3> QED BY <1>1, <1>3, <2>2, <3>1, <3>2 DEF StartupTypes
  <2> QED BY <1>2, <1>3, <1>4, <2>1, <2>2 DEF LeavesTypes
<1>7. LeavesTruth(line)
  BY <1>3, <1>4 DEF LeavesTruth
<1>8. LeavesWindow(line)
  <2>1. Position(pc') <= 9 => ncp'.window = 0 /\ NoneOf("permit", late')
    <3> SUFFICES ASSUME Position(pc') <= 9 PROVE ncp'.window = 0 /\ NoneOf("permit", late')
      OBVIOUS
    <3>1. Position(pc) <= 8
      BY <1>1, <1>2
    <3>2. pc # "permit" /\ ncp.window = 0 /\ NoneOf("permit", late)
      BY <1>1, <3>1, Positions DEF StartupInv, WindowIsWatched
    <3> QED BY <1>4, <3>2 DEF StaysShut
  <2>2. line = Pass("permitJoiningOpen") /\ "permit" \notin unsaid'
          => NoneOf("permit", late') /\ ncp'.window <= left'
    BY <1>1, OwnAnswerDoes
  <2> QED BY <2>1, <2>2 DEF LeavesWindow
<1>9. LeavesClean(line)
  <2> SUFFICES ASSUME mishaps' = 0
               PROVE  /\ mishaps = 0 /\ link' = "up" /\ ok'
                      /\ late' = <<>> /\ pending' = <<>> /\ parked' = <<>>
                      /\ Position(pc') \in 3 .. 7 => ~ncp'.network
                      /\ Position(pc') > 4 => ncp'.endpoint
                      /\ Position(pc') > 5 => "STACK_PROFILE" \in ncp'.config
                      /\ stored => (Position(pc') > 7 => ncp'.network) /\ line.passed
    BY DEF LeavesClean
  <2>1. /\ mishaps = 0 /\ link = "up" /\ ok
        /\ late' = <<>> /\ pending' = <<>> /\ parked' = <<>>
        /\ stored \/ pc \in {"eui64", "endpoint", "config", "policy"} => result = "ok" /\ OwnAnswer
    BY CleanCommand
  <2>2. Position(pc') \in 3 .. 7 => ~ncp'.network
    BY <1>1, <1>2, <1>4, <2>1, Positions DEF StartupInv, CleanSoFar
  <2>3. Steps[Position(pc)] = pc /\ Steps[4] = "endpoint" /\ Steps[5] = "config" /\ Steps[7] = "init"
    BY <1>1, StepAt DEF Steps
  <2>4. ASSUME Position(pc') > 4 PROVE ncp'.endpoint
    <3>1. Position(pc) >= 4 /\ (Position(pc) = 4 => pc = "endpoint")
      BY <1>1, <1>2, <2>3, <2>4
    <3>2. CASE pc = "endpoint"
      BY <1>1, <2>1, <3>2, OwnAnswerDoes
    <3>3. CASE Position(pc) > 4
      BY <1>4, <2>1, <3>3 DEF StartupInv, CleanSoFar, Keeps
    <3> QED BY <1>1, <3>1, <3>2, <3>3
  <2>5. Position(pc') > 5 => "STACK_PROFILE" \in ncp'.config
    <3>1. ASSUME Position(pc') > 5 PROVE Position(pc) >= 5 /\ (Position(pc) = 5 => pc = "config")
      BY <1>1, <1>2, <2>3, <3>1
    <3>2. Position(pc') > 5 => "STACK_PROFILE" \in ncp.config
      BY <1>1, <2>1, <3>1 DEF StartupInv, CleanSoFar
    <3> QED BY <1>4, <3>2 DEF Keeps
  <2>6. ASSUME stored, Position(pc') > 7 PROVE ncp'.network
    <3>1. Position(pc) >= 7 /\ (Position(pc) = 7 => pc = "init")
      BY <1>1, <1>2, <2>3, <2>6
    <3>2. CASE pc = "init"
      BY <1>1, <2>1, <2>6, <3>2, OwnAnswerDoes
    <3>3. CASE Position(pc) > 7
      BY <1>4, <2>1, <2>6, <3>3 DEF StartupInv, CleanSoFar, Keeps
    <3> QED BY <1>1, <3>1, <3>2, <3>3
  <2> QED BY <1>2, <1>3, <2>1, <2>2, <2>4, <2>5, <2>6
<1> QED BY <1>5, <1>6, <1>7, <1>8, <1>9, SpeakingStep

\* The seconds left stay in their range.
LEMMA Deadlines ==
    /\ JOIN_SECONDS \in 0 .. Max({JOIN_SECONDS, SENT_SECONDS})
    /\ SENT_SECONDS \in 0 .. Max({JOIN_SECONDS, SENT_SECONDS})
    /\ Max({JOIN_SECONDS, SENT_SECONDS}) \in Nat
<1>1. JOIN_SECONDS \in Nat /\ SENT_SECONDS \in Nat
  BY StartupAssumption
<1> QED BY <1>1, MaxOfTwo

\* Lines are told apart by their names and by whether they passed.
LEMMA LinesDiffer ==
    ASSUME NEW name
    PROVE  /\ name \in LineNames => Pass(name) \in Lines /\ Fail(name) \in Lines
           /\ Pass(name).passed /\ Fail(name).name = name
           /\ \A other : /\ Pass(name) # Fail(other)
                         /\ Pass(name) = Pass(other) => name = other
                         /\ Fail(name) = Fail(other) => name = other
BY DEF Pass, Fail, Lines

\* The lines that say something of the dongle.
Telling == {"addEndpoint", "setConfigurationValue", "setPolicy", "networkInitResumed",
            "permitJoiningClosed", "clearTransientLinkKeys"}

\* A line that did not pass says nothing of the dongle.
LEMMA FailSaysNothing ==
    ASSUME NEW name, NEW p \in Int
    PROVE  /\ \A dongle, queue, quiet : TrueOf(Fail(name), dongle, queue, quiet)
           /\ name # "deviceJoin" => InOrder(Fail(name), p) /\ Fail(name) # Fail("deviceJoin")
           /\ \A other : Fail(name) # Pass(other)
<1>1. \A other : Fail(name) # Pass(other)
  BY LinesDiffer
<1>2. name # "deviceJoin" => Fail(name) # Fail("deviceJoin")
  BY LinesDiffer
<1> QED BY <1>1, <1>2 DEF TrueOf, InOrder

\* Nor do most of the lines that passed.
LEMMA PassSays ==
    ASSUME NEW name, NEW p \in Int, name \notin Telling
    PROVE  /\ \A dongle, queue, quiet : TrueOf(Pass(name), dongle, queue, quiet)
           /\ name \notin {"networkInitNoNetwork", "permitJoiningOpen"} => InOrder(Pass(name), p)
           /\ name = "networkInitNoNetwork" /\ p > 7 => InOrder(Pass(name), p)
           /\ name = "permitJoiningOpen" /\ p > 9 => InOrder(Pass(name), p)
<1>1. \A other : Pass(name) # Fail(other) /\ (Pass(name) = Pass(other) => name = other)
  BY LinesDiffer
<1> QED BY <1>1 DEF TrueOf, InOrder, Telling

\* A command step whose line did not pass.
LEMMA FailingCommand ==
    ASSUME StartupInv, pc \in CommandSteps, NEW result \in Results, Command(result),
           ~(result = "ok" /\ ok), NEW name \in LineNames, name # "deviceJoin", fail(name), MovesOn,
           left' \in 0 .. Max({JOIN_SECONDS, SENT_SECONDS}),
           pc = "permit" => left' = JOIN_SECONDS,
           pc = "config" => item > 1
    PROVE  StartupInv'
<1>1. PICK line : line = Fail(name)
  OBVIOUS
<1>2. line \in Lines /\ lines' = Append(lines, line)
  BY <1>1, LinesDiffer DEF fail, Fail
<1>3. Position(pc) + 1 \in Int
  BY Positions DEF CommandSteps
<1>4. /\ TrueOf(line, ncp', late', unsaid')
      /\ InOrder(line, Position(pc) + 1) /\ line # Fail("deviceJoin")
      /\ \A other : line # Pass(other)
  BY <1>1, <1>3, FailSaysNothing
<1> QED BY <1>2, <1>4, SpeakingCommand

\* A command step whose line passed.
LEMMA PassingCommand ==
    ASSUME StartupInv, pc \in CommandSteps, NEW result \in Results, Command(result),
           NEW name \in LineNames, name # "messageSentDelivered", pass(name), MovesOn,
           left' \in 0 .. Max({JOIN_SECONDS, SENT_SECONDS}),
           pc = "permit" => left' = JOIN_SECONDS,
           pc = "config" => item > 1,
           InOrder(Pass(name), Position(pc) + 1),
           link # "reset" => TrueOf(Pass(name), ncp', late', unsaid'),
           name = "setConfigurationValue" => pc = "config",
           name = "permitJoiningOpen" => pc = "permit" /\ (OwnAnswer \/ "permit" \in unsaid'),
           name = "networkInitNoNetwork" /\ Says(Pass("setConfigurationValue"))
               => ~stored \/ unsaid' \cap {"init", "balked"} # {}
    PROVE  StartupInv'
<1>1. PICK line : line = Pass(name)
  OBVIOUS
<1>2. line \in Lines /\ lines' = Append(lines, line) /\ line.passed
  BY <1>1, LinesDiffer DEF pass, Pass
<1>3. \A other : line # Fail(other) /\ (line = Pass(other) => name = other)
  BY <1>1, LinesDiffer
<1>4. InOrder(line, Position(pc) + 1) /\ (link # "reset" => TrueOf(line, ncp', late', unsaid'))
  BY <1>1
<1> QED BY <1>2, <1>3, <1>4, SpeakingCommand

\* The seconds left, while a step leaves them alone.
LEMMA LeftTyped ==
    ASSUME StartupInv, UNCHANGED left PROVE left' \in 0 .. Max({JOIN_SECONDS, SENT_SECONDS})
BY DEF StartupInv, StartupTypes, StartupTypeOK

LEMMA GetEui64Inv == ASSUME StartupInv, GetEui64 PROVE StartupInv'
<1>1. pc = "eui64" /\ MovesOn /\ UNCHANGED left /\ pc \in CommandSteps
  BY DEF GetEui64, OneCommand, CommandSteps
<1>2. "getEui64" \in LineNames /\ left' \in 0 .. Max({JOIN_SECONDS, SENT_SECONDS})
  BY <1>1, LeftTyped DEF LineNames
<1>3. CASE Command("ok") /\ pass("getEui64")
  <2>1. InOrder(Pass("getEui64"), 4) /\ TrueOf(Pass("getEui64"), ncp', late', unsaid')
    BY PassSays DEF Telling
  <2> QED BY <1>1, <1>2, <1>3, <2>1, Positions, PassingCommand DEF Results
<1>4. CASE Command("error") /\ fail("getEui64")
  BY <1>1, <1>2, <1>4, FailingCommand DEF Results
<1> QED BY <1>3, <1>4 DEF GetEui64, OneCommand

LEMMA RegisterEndpointInv == ASSUME StartupInv, register_endpoint PROVE StartupInv'
<1>1. pc = "endpoint" /\ MovesOn /\ UNCHANGED left /\ pc \in CommandSteps /\ Position(pc) = 4
  BY Positions DEF register_endpoint, OneCommand, CommandSteps
<1>2. /\ {"addEndpoint", "addEndpointRefused"} \subseteq LineNames
      /\ left' \in 0 .. Max({JOIN_SECONDS, SENT_SECONDS})
  BY <1>1, LeftTyped DEF LineNames
<1>3. CASE Command("ok") /\ pass("addEndpoint")
  <2>1. ncp'.endpoint
    BY <1>1, <1>3, AnswerIs, OwnAnswerDoes DEF StartupInv
  <2>2. InOrder(Pass("addEndpoint"), 5) /\ TrueOf(Pass("addEndpoint"), ncp', late', unsaid')
    BY <2>1, LinesDiffer DEF InOrder, TrueOf
  <2> QED BY <1>1, <1>2, <1>3, <2>2, PassingCommand DEF Results
<1>4. CASE Command("refused") /\ pass("addEndpointRefused")
  <2>1. /\ InOrder(Pass("addEndpointRefused"), 5)
        /\ TrueOf(Pass("addEndpointRefused"), ncp', late', unsaid')
    BY PassSays DEF Telling
  <2> QED BY <1>1, <1>2, <1>4, <2>1, PassingCommand DEF Results
<1>5. CASE Command("error") /\ fail("addEndpoint")
  BY <1>1, <1>2, <1>5, FailingCommand DEF Results
<1> QED BY <1>3, <1>4, <1>5 DEF register_endpoint, OneCommand

\* A refusal of its own says "no network": with the stack profile on the dongle there is none.
LEMMA NetworkInitInv == ASSUME StartupInv, NetworkInit PROVE StartupInv'
<1>1. pc = "init" /\ MovesOn /\ UNCHANGED left /\ pc \in CommandSteps /\ Position(pc) = 7
  BY Positions DEF NetworkInit, OneCommand, CommandSteps
<1>2. /\ {"networkInitResumed", "networkInitNoNetwork"} \subseteq LineNames
      /\ left' \in 0 .. Max({JOIN_SECONDS, SENT_SECONDS})
  BY <1>1, LeftTyped DEF LineNames
<1>3. CASE Command("ok") /\ pass("networkInitResumed")
  <2>1. ncp'.network \/ "init" \in unsaid'
    BY <1>1, <1>3, AnswerIs, OwnAnswerDoes DEF StartupInv, Borrowed
  <2>2. /\ InOrder(Pass("networkInitResumed"), 8)
        /\ TrueOf(Pass("networkInitResumed"), ncp', late', unsaid')
    BY <2>1, LinesDiffer DEF InOrder, TrueOf
  <2> QED BY <1>1, <1>2, <1>3, <2>2, PassingCommand DEF Results
<1>4. CASE Command("refused") /\ pass("networkInitNoNetwork")
  <2>1. /\ InOrder(Pass("networkInitNoNetwork"), 8)
        /\ TrueOf(Pass("networkInitNoNetwork"), ncp', late', unsaid')
    BY PassSays DEF Telling
  <2>2. ASSUME Says(Pass("setConfigurationValue")), "init" \notin unsaid'
        PROVE  ~stored \/ "balked" \in unsaid'
    <3>1. link = "up" /\ (~Accepts(ncp, pc) \/ "balked" \in unsaid')
      BY <1>1, <1>4, <2>2, CommandDoes DEF StartupInv, Does
    <3>2. PICK i \in 1 .. Len(lines) : lines[i] = Pass("setConfigurationValue")
      BY <2>2 DEF Says
    <3>3. TrueOf(Pass("setConfigurationValue"), ncp, late, unsaid)
      BY <3>1, <3>2 DEF StartupInv, LinesAreTrue
    <3>4. "STACK_PROFILE" \in ncp.config
      <4>1. Configurations[1] = "STACK_PROFILE" /\ 1 \in 1 .. Len(Configurations)
        BY DEF Configurations
      <4>2. "STACK_PROFILE" \in Elements(Configurations)
        BY <4>1 DEF Elements
      <4> QED BY <3>3, <4>2 DEF TrueOf
    <3> QED BY <1>1, <3>1, <3>4 DEF Accepts
  <2> QED BY <1>1, <1>2, <1>4, <2>1, <2>2, PassingCommand DEF Results
<1>5. CASE Command("error") /\ fail("networkInitResumed")
  BY <1>1, <1>2, <1>5, FailingCommand DEF Results
<1> QED BY <1>3, <1>4, <1>5 DEF NetworkInit, OneCommand

LEMMA ImportTransientKeyInv == ASSUME StartupInv, ImportTransientKey PROVE StartupInv'
<1>1. pc = "import" /\ MovesOn /\ UNCHANGED left /\ pc \in CommandSteps
  BY DEF ImportTransientKey, OneCommand, CommandSteps
<1>2. "importTransientKey" \in LineNames /\ left' \in 0 .. Max({JOIN_SECONDS, SENT_SECONDS})
  BY <1>1, LeftTyped DEF LineNames
<1>3. CASE Command("ok") /\ pass("importTransientKey")
  <2>1. /\ InOrder(Pass("importTransientKey"), 9)
        /\ TrueOf(Pass("importTransientKey"), ncp', late', unsaid')
    BY PassSays DEF Telling
  <2> QED BY <1>1, <1>2, <1>3, <2>1, Positions, PassingCommand DEF Results
<1>4. CASE Command("refused") /\ fail("importTransientKey")
  BY <1>1, <1>2, <1>4, FailingCommand DEF Results
<1>5. CASE Command("error") /\ fail("importTransientKey")
  BY <1>1, <1>2, <1>5, FailingCommand DEF Results
<1> QED BY <1>3, <1>4, <1>5 DEF ImportTransientKey, OneCommand

\* permitJoining(0) may pass on another command's answer; clearTransientLinkKeys cannot, as no other
\* answer has its shape.
LEMMA CloseJoiningInv == ASSUME StartupInv, close_joining PROVE StartupInv'
<1>1. MovesOn /\ UNCHANGED left /\ pc \in {"close", "clear"} /\ pc \in CommandSteps
  BY DEF close_joining, OneCommand, CommandSteps
<1>2. /\ {"permitJoiningClosed", "clearTransientLinkKeys"} \subseteq LineNames
      /\ left' \in 0 .. Max({JOIN_SECONDS, SENT_SECONDS})
  BY <1>1, LeftTyped DEF LineNames
<1>3. ASSUME pc = "close", Command("ok"), pass("permitJoiningClosed") PROVE StartupInv'
  <2>1. "close" \in unsaid' \/ (ncp'.window = 0 /\ NoneOf("permit", late'))
    BY <1>1, <1>3, AnswerIs, OwnAnswerDoes DEF StartupInv, Borrowed
  <2>2. /\ InOrder(Pass("permitJoiningClosed"), 12)
        /\ TrueOf(Pass("permitJoiningClosed"), ncp', late', unsaid')
    BY <2>1, LinesDiffer DEF InOrder, TrueOf
  <2> QED BY <1>1, <1>2, <1>3, <2>2, Positions, PassingCommand DEF Results
<1>4. ASSUME pc = "clear", Command("ok"), pass("clearTransientLinkKeys") PROVE StartupInv'
  <2>1. ~ncp'.key /\ NoneOf("import", late')
    BY <1>1, <1>4, AnswerIs, OwnAnswerDoes DEF StartupInv
  <2>2. /\ InOrder(Pass("clearTransientLinkKeys"), 13)
        /\ TrueOf(Pass("clearTransientLinkKeys"), ncp', late', unsaid')
    BY <2>1, LinesDiffer DEF InOrder, TrueOf
  <2> QED BY <1>1, <1>2, <1>4, <2>2, Positions, PassingCommand DEF Results
<1>5. ASSUME Command("refused"), fail("permitJoiningClosed") PROVE StartupInv'
  BY <1>1, <1>2, <1>5, FailingCommand DEF Results
<1>6. ASSUME Command("error"), fail("permitJoiningClosed") PROVE StartupInv'
  BY <1>1, <1>2, <1>6, FailingCommand DEF Results
<1>7. ASSUME Command("error"), fail("clearTransientLinkKeys") PROVE StartupInv'
  BY <1>1, <1>2, <1>7, FailingCommand DEF Results
<1> QED BY <1>3, <1>4, <1>5, <1>6, <1>7 DEF close_joining, OneCommand

\* The deadline starts where the window does.
LEMMA StartWaitInv ==
    ASSUME StartupInv, pc \in {"permit", "send"}, NEW seconds, NEW name, StartWait(name, seconds),
           name = IF pc = "permit" THEN "permitJoiningOpen" ELSE "sendUnicast",
           seconds = IF pc = "permit" THEN JOIN_SECONDS ELSE SENT_SECONDS
    PROVE  StartupInv'
<1>1. PICK result \in Results : /\ Command(result) /\ left' = seconds
                                /\ IF result = "ok" THEN pass(name) ELSE fail(name)
                                /\ MovesOn
  BY DEF StartWait, Results
<1>2. /\ pc \in CommandSteps /\ name \in LineNames /\ pc # "config"
      /\ name # "deviceJoin" /\ name # "messageSentDelivered"
      /\ left' \in 0 .. Max({JOIN_SECONDS, SENT_SECONDS})
  BY <1>1, Deadlines DEF CommandSteps, LineNames
<1>3. CASE result = "ok"
  <2>1. Position(pc) + 1 \in Int /\ (pc = "permit" => Position(pc) = 9)
    BY Positions
  <2>2. InOrder(Pass(name), Position(pc) + 1) /\ TrueOf(Pass(name), ncp', late', unsaid')
    BY <2>1, PassSays DEF Telling
  <2>3. pc = "permit" => OwnAnswer \/ "permit" \in unsaid'
    BY <1>1, <1>3, AnswerIs DEF StartupInv, Borrowed
  <2> QED BY <1>1, <1>2, <1>3, <2>2, <2>3, PassingCommand
<1>4. CASE result # "ok"
  BY <1>1, <1>2, <1>4, FailingCommand
<1> QED BY <1>3, <1>4

LEMMA OpenForJoiningInv == ASSUME StartupInv, open_for_joining PROVE StartupInv'
BY StartWaitInv DEF open_for_joining, JoinDeadline

LEMMA SendOnoffInv == ASSUME StartupInv, send_onoff PROVE StartupInv'
BY StartWaitInv DEF send_onoff

-----------------------------------------------------------------------------
(* The arrays *)

\* The whole of an array is on the dongle when its parts are.
LEMMA WholeArrays ==
    ASSUME ncp' \in Dongles
    PROVE  /\ (\A j \in 1 .. 4 : Configurations[j] \in ncp'.config)
                 => ncp'.config = Elements(Configurations)
           /\ (\A j \in 1 .. 3 : Policies[j] \in ncp'.policies)
                 => ncp'.policies = Elements(Policies)
<1>1. Len(Configurations) = 4 /\ Len(Policies) = 3
  BY DEF Configurations, Policies
<1>2. ncp'.config \subseteq Elements(Configurations) /\ ncp'.policies \subseteq Elements(Policies)
  BY DEF Dongles
<1> QED BY <1>1, <1>2 DEF Elements

\* One more entry of the array: what the dongle has of it, while every entry was accepted.  Only the
\* first can have been given an answer left behind, and it is outstanding then.
LEMMA EntrySent ==
    ASSUME StartupInv, pc \in {"config", "policy"}, NEW result \in Results, Command(result),
           link # "reset", ok, result = "ok", item > 1 \/ pending' = <<>>
    PROVE  /\ pc = "config" => \A j \in 1 .. item : Configurations[j] \in ncp'.config
           /\ pc = "policy" => \A j \in 1 .. item : Policies[j] \in ncp'.policies
<1>1. StartupTypes /\ item \in Nat /\ pc \in CommandSteps
  BY DEF StartupInv, StartupTypes, StartupTypeOK, Configurations, Policies, CommandSteps
<1>2. OwnAnswer
  <2>1. parked # <<>> => item <= 1
    BY <1>1 DEF StartupTypes
  <2> QED BY <1>1, <2>1, AnswerIs DEF Borrowed
<1>3. /\ pc = "config" => ncp'.config = ncp.config \cup {Configurations[item]}
      /\ pc = "policy" => ncp'.policies = ncp.policies \cup {Policies[item]}
  BY <1>1, <1>2, OwnAnswerDoes
<1>4. /\ pc = "config" => \A j \in 1 .. (item - 1) : Configurations[j] \in ncp.config
      /\ pc = "policy" => \A j \in 1 .. (item - 1) : Policies[j] \in ncp.policies
  BY <1>2 DEF StartupInv, ArraysSoFar, OwnAnswer
<1>5. \A j \in 1 .. item : j = item \/ j \in 1 .. (item - 1)
  BY <1>1
<1> QED BY <1>3, <1>4, <1>5

\* An entry that is not the last one.
LEMMA ArrayMiddle ==
    ASSUME StartupInv, pc \in {"config", "policy"}, NEW result \in Results, Command(result),
           UNCHANGED <<left, pc, lines>>, item' = item + 1, ok' = (ok /\ result = "ok"),
           item < IF pc = "config" THEN 4 ELSE 3
    PROVE  StartupInv'
<1>1. /\ StartupTypes /\ item \in Nat \ {0} /\ ok \in BOOLEAN /\ pc \in CommandSteps
      /\ Position(pc) \in 5 .. 6
  <2>1. StartupTypes /\ item \in Nat \ {0} /\ ok \in BOOLEAN
    BY DEF StartupInv, StartupTypes, StartupTypeOK, Configurations, Policies
  <2>2. pc \in CommandSteps /\ Position(pc) \in 5 .. 6
    BY Positions DEF CommandSteps
  <2> QED BY <2>1, <2>2
<1>2. /\ UNCHANGED <<joined, outcome, link, stored, delivered>> /\ mishaps' \in Nat
      /\ NoNewCallbacks /\ (result = "ok" => parked' = <<>>)
  BY <1>1, CommandDoes DEF Does, OwnAnswer, Borrowed
<1>3. /\ Keeps /\ StaysShut /\ ncp' \in Dongles /\ late' \in Seq(Sendings)
      /\ ncp'.network => ncp.network
  BY <1>1, CommandKeeps
<1>4. StartupTypes'
  <2>1. item' \in 1 .. (CASE pc' = "config" -> Len(Configurations) [] pc' = "policy" -> Len(Policies)
                          [] OTHER -> 1)
    BY <1>1 DEF Configurations, Policies
  <2>2. StartupTypeOK'
    BY <1>1, <1>2, <1>3, <2>1 DEF StartupTypes, StartupTypeOK, Dongles
  <2>3. ok' => parked' = <<>>
    BY <1>1, <1>2
  <2> QED BY <1>1, <1>2, <1>3, <2>2, <2>3 DEF StartupTypes, NoNewCallbacks
<1>5. LinesInOrder'
  BY DEF StartupInv, LinesInOrder
<1>6. LinesAreTrue'
  <2>1. ASSUME link' # "reset", NEW i \in 1 .. Len(lines)
        PROVE  TrueOf(lines[i], ncp', late', unsaid')
    <3>1. TrueOf(lines[i], ncp, late, unsaid) /\ InOrder(lines[i], Position(pc))
      BY <1>2, <2>1 DEF StartupInv, LinesAreTrue, LinesInOrder
    <3> QED BY <1>1, <1>3, <3>1, StaysTrue
  <2> QED BY <1>2, <1>3, <2>1 DEF StartupInv, LinesAreTrue, Says, StaysShut
<1>7. ArraysSoFar'
  <2> SUFFICES ASSUME link' # "reset", ok', pending' = <<>>
               PROVE  /\ pc = "config" => \A j \in 1 .. item : Configurations[j] \in ncp'.config
                      /\ pc = "policy" => \A j \in 1 .. item : Policies[j] \in ncp'.policies
    BY <1>1 DEF ArraysSoFar
  <2> QED BY <1>1, <1>2, EntrySent
<1>8. DeliveryIsKnown'
  BY <1>2, DeliveryStays DEF StartupInv, DeliveryIsKnown
<1>9. WindowIsWatched'
  <2>1. ncp'.window = 0 /\ NoneOf("permit", late')
    BY <1>1, <1>3 DEF StartupInv, WindowIsWatched, StaysShut
  <2> QED BY <2>1 DEF WindowIsWatched
<1>10. CleanSoFar'
  <2> SUFFICES ASSUME mishaps' = 0
               PROVE  /\ link' = "up" /\ ok' /\ late' = <<>> /\ pending' = <<>> /\ parked' = <<>>
                      /\ Position(pc') > 4 => ncp'.endpoint
                      /\ Position(pc') \in 3 .. 7 => ~ncp'.network
                      /\ Position(pc') > 5 \/ (pc' = "config" /\ item' > 1)
                            => "STACK_PROFILE" \in ncp'.config
                      /\ stored' =>
                            /\ Position(pc') > 7 => ncp'.network
                            /\ \A i \in 1 .. Len(lines') :
                                  \/ lines'[i].passed
                                  \/ lines'[i].name \in {"deviceJoin", "messageSentFailed"}
    BY DEF CleanSoFar
  <2>1. /\ mishaps = 0 /\ link = "up" /\ ok /\ result = "ok"
        /\ late' = <<>> /\ pending' = <<>> /\ parked' = <<>>
    BY CleanCommand DEF CommandSteps
  <2>2. pc = "config" => "STACK_PROFILE" \in ncp'.config
    <3>1. pc = "config" => Configurations[1] \in ncp'.config
      BY <1>1, <2>1, EntrySent
    <3> QED BY <3>1 DEF Configurations
  <2>3. pc = "policy" => "STACK_PROFILE" \in ncp'.config
    BY <1>3, <2>1, Positions DEF StartupInv, CleanSoFar, Keeps
  <2>4. ~ncp'.network /\ ncp'.endpoint /\ ok' /\ "STACK_PROFILE" \in ncp'.config
    <3>1. Position(pc) \in 3 .. 7
      BY Positions
    <3>2. ~ncp.network /\ ncp.endpoint
      BY <1>1, <2>1, <3>1 DEF StartupInv, CleanSoFar
    <3> QED BY <1>3, <2>1, <2>2, <2>3, <3>2 DEF Keeps
  <2>5. Position(pc') <= 7 /\ Position(pc') \in Nat
    BY Positions
  <2>6. stored' => \A i \in 1 .. Len(lines') :
                      lines'[i].passed \/ lines'[i].name \in {"deviceJoin", "messageSentFailed"}
    BY <1>2, <2>1 DEF StartupInv, CleanSoFar
  <2> QED BY <1>2, <2>1, <2>4, <2>5, <2>6
<1> QED BY <1>4, <1>5, <1>6, <1>7, <1>8, <1>9, <1>10 DEF StartupInv

LEMMA ConfigureStackInv == ASSUME StartupInv, configure_stack PROVE StartupInv'
<1>1. pc = "config" /\ pc \in CommandSteps /\ Len(Configurations) = 4
  BY DEF configure_stack, CommandSteps, Configurations
<1>2. PICK result \in Results :
         /\ Command(result) /\ UNCHANGED left
         /\ IF item < 4
            THEN item' = item + 1 /\ ok' = (ok /\ result = "ok") /\ UNCHANGED <<pc, lines>>
            ELSE /\ IF ok /\ result = "ok" THEN pass("setConfigurationValue")
                    ELSE fail("setConfigurationValue")
                 /\ MovesOn
  BY <1>1 DEF configure_stack, ArrayCommand, Results
<1>3. item \in 1 .. 4 /\ ok \in BOOLEAN /\ StartupTypes
  BY <1>1 DEF StartupInv, StartupTypes, StartupTypeOK
<1>4. "setConfigurationValue" \in LineNames /\ left' \in 0 .. Max({JOIN_SECONDS, SENT_SECONDS})
  BY <1>2, LeftTyped DEF LineNames
<1>5. CASE item < 4
  BY <1>1, <1>2, <1>3, <1>5, ArrayMiddle
<1>6. ASSUME item = 4, ok, result = "ok" PROVE StartupInv'
  <2>1. ncp' \in Dongles
    BY <1>1, <1>2, <1>3, CommandKeeps
  <2>2. link # "reset" => ncp'.config = Elements(Configurations)
    BY <1>1, <1>2, <1>6, <2>1, EntrySent, WholeArrays
  <2>3. /\ InOrder(Pass("setConfigurationValue"), 6)
        /\ link # "reset" => TrueOf(Pass("setConfigurationValue"), ncp', late', unsaid')
    BY <2>2, LinesDiffer DEF InOrder, TrueOf
  <2> QED BY <1>1, <1>2, <1>4, <1>6, <2>3, Positions, PassingCommand
<1>7. ASSUME item = 4, ~(ok /\ result = "ok") PROVE StartupInv'
  BY <1>1, <1>2, <1>4, <1>7, FailingCommand
<1> QED BY <1>3, <1>5, <1>6, <1>7

LEMMA ConfigurePoliciesInv == ASSUME StartupInv, configure_policies PROVE StartupInv'
<1>1. pc = "policy" /\ pc \in CommandSteps /\ Len(Policies) = 3
  BY DEF configure_policies, CommandSteps, Policies
<1>2. PICK result \in Results :
         /\ Command(result) /\ UNCHANGED left
         /\ IF item < 3
            THEN item' = item + 1 /\ ok' = (ok /\ result = "ok") /\ UNCHANGED <<pc, lines>>
            ELSE /\ IF ok /\ result = "ok" THEN pass("setPolicy") ELSE fail("setPolicy")
                 /\ MovesOn
  BY <1>1 DEF configure_policies, ArrayCommand, Results
<1>3. item \in 1 .. 3 /\ ok \in BOOLEAN /\ StartupTypes
  BY <1>1 DEF StartupInv, StartupTypes, StartupTypeOK
<1>4. "setPolicy" \in LineNames /\ left' \in 0 .. Max({JOIN_SECONDS, SENT_SECONDS})
  BY <1>2, LeftTyped DEF LineNames
<1>5. CASE item < 3
  BY <1>1, <1>2, <1>3, <1>5, ArrayMiddle
<1>6. ASSUME item = 3, ok, result = "ok" PROVE StartupInv'
  <2>1. ncp' \in Dongles
    BY <1>1, <1>2, <1>3, CommandKeeps
  <2>2. link # "reset" => ncp'.policies = Elements(Policies)
    BY <1>1, <1>2, <1>6, <2>1, EntrySent, WholeArrays
  <2>3. /\ InOrder(Pass("setPolicy"), 7)
        /\ link # "reset" => TrueOf(Pass("setPolicy"), ncp', late', unsaid')
    BY <2>2, LinesDiffer DEF InOrder, TrueOf
  <2> QED BY <1>1, <1>2, <1>4, <1>6, <2>3, Positions, PassingCommand
<1>7. ASSUME item = 3, ~(ok /\ result = "ok") PROVE StartupInv'
  BY <1>1, <1>2, <1>4, <1>7, FailingCommand
<1> QED BY <1>3, <1>5, <1>6, <1>7

-----------------------------------------------------------------------------
(* Opening the port and connecting *)

LEMMA OpenInv == ASSUME StartupInv, Open PROVE StartupInv'
<1>1. /\ pc = "open" /\ Position(pc) = 1 /\ link = "up" /\ ncp \in Dongles /\ mishaps \in Nat
      /\ item = 1 /\ ok \in BOOLEAN /\ left \in 0 .. Max({JOIN_SECONDS, SENT_SECONDS})
      /\ ncp.window = 0 /\ NoneOf("permit", late) /\ late \in Seq(Sendings) /\ parked = <<>>
      /\ mishaps = 0 => late = <<>> /\ pending = <<>>
  <2>1. pc = "open" /\ Position(pc) = 1
    BY Positions DEF Open
  <2> QED BY <2>1 DEF StartupInv, StartupTypes, StartupTypeOK, WindowIsWatched, CleanSoFar
<1>2. UNCHANGED <<joined, outcome, stored, delivered, callbacks, ncp, left, pending, parked, late,
                  unsaid>>
  BY DEF Open, callVars
<1>3. Keeps /\ StaysShut /\ NoNewCallbacks
  BY <1>1, <1>2, SameCallbacks DEF Keeps, StaysShut, StartupInv, StartupTypes
<1>4. ASSUME pass("serialOpen"), MovesOn, UNCHANGED <<link, mishaps>> PROVE StartupInv'
  <2>1. PICK line : line = Pass("serialOpen")
    OBVIOUS
  <2>2. /\ line \in Lines /\ lines' = Append(lines, line) /\ line.passed
        /\ \A name : line # Fail(name)
        /\ \A name \in {"networkInitNoNetwork", "setConfigurationValue", "permitJoiningOpen",
                       "messageSentDelivered"} : line # Pass(name)
    BY <1>4, <2>1, LinesDiffer DEF pass, Pass, LineNames
  <2>3. InOrder(line, 2) /\ TrueOf(line, ncp', late', unsaid')
    BY <2>1, PassSays DEF Telling
  <2>4. pc' \in Elements(Steps) /\ Position(pc') = 2 /\ item' = 1 /\ ok' = TRUE /\ pc' # "joining"
    BY <1>1, <1>4, OrderOfMain, Positions DEF MovesOn, StartupInv, StartupTypes, StartupTypeOK
  <2>5. Adds(line)
    BY <1>1, <2>2, <2>3, <2>4 DEF Adds
  <2>6. LeavesTypes
    BY <1>1, <1>2, <1>3, <1>4, <2>4 DEF LeavesTypes
  <2>7. LeavesTruth(line)
    BY <1>3, <2>2, <2>3 DEF LeavesTruth
  <2>8. LeavesWindow(line)
    BY <1>1, <1>2, <2>2, <2>4 DEF LeavesWindow
  <2>9. LeavesClean(line)
    BY <1>1, <1>2, <1>4, <2>2, <2>4 DEF LeavesClean
  <2> QED BY <2>5, <2>6, <2>7, <2>8, <2>9, SpeakingStep
<1>5. ASSUME fail("serialOpen"), mishaps' = mishaps + 1, link' = "gone", pc' = "done",
             UNCHANGED <<item, ok>>
      PROVE  StartupInv'
  <2>1. PICK line : line = Fail("serialOpen")
    OBVIOUS
  <2>2. line \in Lines /\ lines' = Append(lines, line)
    BY <1>5, <2>1, LinesDiffer DEF fail, Fail, LineNames
  <2>3. /\ InOrder(line, 16) /\ TrueOf(line, ncp', late', unsaid')
        /\ \A name : line # Pass(name)
        /\ line # Fail("deviceJoin")
    BY <2>1, FailSaysNothing
  <2>4. pc' \in Elements(Steps) /\ Position(pc') = 16
    BY <1>5, Positions, PositionOf DEF Steps
  <2>5. Adds(line)
    BY <1>1, <1>5, <2>2, <2>3, <2>4 DEF Adds
  <2>6. LeavesTypes
    BY <1>1, <1>2, <1>3, <1>5 DEF LeavesTypes
  <2>7. LeavesTruth(line)
    BY <1>3, <2>3 DEF LeavesTruth
  <2>8. LeavesWindow(line)
    BY <1>5, <2>3, <2>4 DEF LeavesWindow
  <2>9. LeavesClean(line)
    BY <1>1, <1>5 DEF LeavesClean
  <2> QED BY <2>5, <2>6, <2>7, <2>8, <2>9, SpeakingStep
<1> QED BY <1>4, <1>5 DEF Open, Mishap

LEMMA ConnectInv == ASSUME StartupInv, Connect PROVE StartupInv'
<1>1. /\ pc = "connect" /\ Position(pc) = 2 /\ ncp \in Dongles /\ mishaps \in Nat
      /\ item = 1 /\ ok \in BOOLEAN /\ left \in 0 .. Max({JOIN_SECONDS, SENT_SECONDS})
      /\ NoneOf("permit", late) /\ ncp.window = 0 /\ late \in Seq(Sendings) /\ parked = <<>>
      /\ mishaps = 0 => link = "up" /\ late = <<>> /\ pending = <<>>
  <2>1. pc = "connect" /\ Position(pc) = 2
    BY Positions DEF Connect
  <2>2. /\ ncp \in Dongles /\ mishaps \in Nat
        /\ item = 1 /\ ok \in BOOLEAN /\ left \in 0 .. Max({JOIN_SECONDS, SENT_SECONDS})
    BY <2>1 DEF StartupInv, StartupTypes, StartupTypeOK
  <2>3. mishaps = 0 => link = "up" /\ late = <<>> /\ pending = <<>>
    BY DEF StartupInv, CleanSoFar
  <2>4. NoneOf("permit", late) /\ ncp.window = 0 /\ late \in Seq(Sendings) /\ parked = <<>>
    BY <2>1 DEF StartupInv, StartupTypes, WindowIsWatched
  <2> QED BY <2>1, <2>2, <2>3, <2>4
<1>2. UNCHANGED <<joined, outcome, stored, delivered, link, left, pending, parked, late, unsaid>>
  BY DEF Connect, callVars
<1>3. Rebooted \in Dongles /\ Rebooted.window = 0 /\ ~Rebooted.network
  BY DEF Rebooted, Dongles, MAX_DURATION
<1>4. /\ callbacks' \in {callbacks, <<>>} /\ ncp' \in {ncp, Rebooted}
      /\ StaysShut /\ NoNewCallbacks
  <2>1. callbacks' \in {callbacks, <<>>} /\ ncp' \in {ncp, Rebooted}
    BY DEF Connect
  <2>2. callbacks \in Seq(Callbacks)
    BY DEF StartupInv, StartupTypes
  <2> QED BY <1>2, <1>3, <2>1, <2>2, SameCallbacks DEF StaysShut
<1>5. ASSUME pass("ashReset"), MovesOn, ncp' = Rebooted, callbacks' = <<>>, UNCHANGED mishaps
      PROVE  StartupInv'
  <2>1. PICK line : line = Pass("ashReset")
    OBVIOUS
  <2>2. /\ line \in Lines /\ lines' = Append(lines, line) /\ line.passed
        /\ \A name : line # Fail(name)
        /\ \A name \in {"networkInitNoNetwork", "setConfigurationValue", "permitJoiningOpen",
                       "messageSentDelivered"} : line # Pass(name)
    BY <1>5, <2>1, LinesDiffer DEF pass, Pass, LineNames
  <2>3. InOrder(line, 3) /\ TrueOf(line, ncp', late', unsaid')
    BY <2>1, PassSays DEF Telling
  <2>4. pc' \in Elements(Steps) /\ Position(pc') = 3 /\ item' = 1 /\ ok' = TRUE /\ pc' # "joining"
    BY <1>1, <1>5, OrderOfMain, Positions DEF MovesOn, StartupInv, StartupTypes, StartupTypeOK
  <2>5. Adds(line)
    BY <1>1, <2>2, <2>3, <2>4 DEF Adds
  <2>6. LeavesTypes
    BY <1>1, <1>2, <1>3, <1>4, <1>5, <2>4 DEF LeavesTypes
  <2>7. LeavesTruth(line)
    BY <1>1, <1>4, <2>2, <2>3 DEF LeavesTruth
  <2>8. LeavesWindow(line)
    BY <1>1, <1>2, <1>3, <1>5, <2>2, <2>4 DEF LeavesWindow
  <2>9. LeavesClean(line)
    BY <1>1, <1>2, <1>3, <1>5, <2>2, <2>4 DEF LeavesClean
  <2> QED BY <2>5, <2>6, <2>7, <2>8, <2>9, SpeakingStep
<1>6. ASSUME fail("ashReset"), mishaps' = mishaps + 1, ncp' \in {ncp, Rebooted}, pc' = "done",
             UNCHANGED <<item, ok, callbacks>>
      PROVE  StartupInv'
  <2>1. PICK line : line = Fail("ashReset")
    OBVIOUS
  <2>2. line \in Lines /\ lines' = Append(lines, line)
    BY <1>6, <2>1, LinesDiffer DEF fail, Fail, LineNames
  <2>3. /\ InOrder(line, 16) /\ TrueOf(line, ncp', late', unsaid')
        /\ \A name : line # Pass(name)
        /\ line # Fail("deviceJoin")
    BY <2>1, FailSaysNothing
  <2>4. pc' \in Elements(Steps) /\ Position(pc') = 16
    BY <1>6, Positions, PositionOf DEF Steps
  <2>5. Adds(line)
    BY <1>1, <1>6, <2>2, <2>3, <2>4 DEF Adds
  <2>6. LeavesTypes
    BY <1>1, <1>2, <1>3, <1>4, <1>6 DEF LeavesTypes
  <2>7. LeavesTruth(line)
    BY <1>1, <1>4, <2>3 DEF LeavesTruth
  <2>8. LeavesWindow(line)
    BY <1>6, <2>3, <2>4 DEF LeavesWindow
  <2>9. LeavesClean(line)
    BY <1>1, <1>6 DEF LeavesClean
  <2> QED BY <2>5, <2>6, <2>7, <2>8, <2>9, SpeakingStep
<1> QED BY <1>5, <1>6 DEF Connect, Mishap

-----------------------------------------------------------------------------
(* The waits *)

\* The lines a wait may end with.
WaitLines == {Pass("deviceJoin"), Fail("deviceJoin"), Pass("messageSentDelivered"),
              Fail("messageSentFailed")}

LEMMA WaitLinesSay ==
    ASSUME NEW line \in WaitLines, NEW p \in Int, p > 10
    PROVE  /\ line \in Lines
           /\ line.passed \/ line.name \in {"deviceJoin", "messageSentFailed"}
           /\ \A dongle, queue, quiet : TrueOf(line, dongle, queue, quiet)
           /\ InOrder(line, p)
           /\ \A name \in {"networkInitNoNetwork", "setConfigurationValue", "permitJoiningOpen"} :
                 line # Pass(name)
<1>1. {"deviceJoin", "messageSentDelivered", "messageSentFailed"} \subseteq LineNames
  BY DEF LineNames
<1>2. line \in Lines /\ (line.passed \/ line.name \in {"deviceJoin", "messageSentFailed"})
  <2>1. CASE line = Pass("deviceJoin")
    BY <1>1, <2>1, LinesDiffer
  <2>2. CASE line = Fail("deviceJoin")
    BY <1>1, <2>2, LinesDiffer
  <2>3. CASE line = Pass("messageSentDelivered")
    BY <1>1, <2>3, LinesDiffer
  <2>4. CASE line = Fail("messageSentFailed")
    BY <1>1, <2>4, LinesDiffer
  <2> QED BY <2>1, <2>2, <2>3, <2>4 DEF WaitLines
<1>3. \A name \in Telling \cup {"networkInitNoNetwork", "permitJoiningOpen"} : line # Pass(name)
  BY DEF Pass, Fail, WaitLines, Telling
<1> QED BY <1>2, <1>3 DEF TrueOf, InOrder, Telling

\* The end of a wait, whatever ended it, leaves the dongle alone.
LEMMA WaitOver ==
    ASSUME StartupInv, pc \in {"joining", "sent"}, MovesOn, left' = 0,
           UNCHANGED <<joined, outcome, late, link, ncp, stored, delivered>>,
           NoNewCallbacks, mishaps' \in Nat, unsaid \subseteq unsaid',
           NEW line \in WaitLines, lines' = Append(lines, line),
           line = Pass("messageSentDelivered") => outcome = "ok",
           line = Fail("deviceJoin") /\ Says(Pass("permitJoiningOpen")) /\ "permit" \notin unsaid
               => ncp.window = 0 \/ "cut" \in unsaid',
           mishaps' = 0 => mishaps = 0 /\ UNCHANGED <<pending, parked>>
    PROVE  StartupInv'
<1>1. /\ Position(pc) \in {10, 14} /\ pc \in Elements(Steps)
      /\ ncp \in Dongles /\ late \in Seq(Sendings)
  BY Positions DEF StartupInv, StartupTypes, StartupTypeOK
<1>2. Keeps /\ StaysShut
  BY DEF Keeps, StaysShut
<1>3. /\ pc' \in Elements(Steps) /\ Position(pc') \in (Position(pc) + 1) .. 16
      /\ Position(pc') \in 11 .. 16 /\ pc' # "joining" /\ item' = 1 /\ ok' = TRUE
  <2>1. /\ pc' \in Elements(Steps) /\ Position(pc') \in (Position(pc) + 1) .. 16
        /\ pc' # "joining" /\ item' = 1 /\ ok' = TRUE
    BY <1>1, OrderOfMain DEF MovesOn
  <2> QED BY <1>1, <2>1
<1>4. /\ line \in Lines
      /\ line.passed \/ line.name \in {"deviceJoin", "messageSentFailed"}
      /\ TrueOf(line, ncp', late', unsaid')
      /\ InOrder(line, Position(pc'))
      /\ \A name \in {"networkInitNoNetwork", "setConfigurationValue", "permitJoiningOpen"} :
            line # Pass(name)
  BY <1>3, WaitLinesSay
<1>5. Adds(line)
  BY <1>3, <1>4 DEF Adds
<1>6. LeavesTypes
  <2>1. Position(pc') > 3 /\ pc' # "endpoint"
    BY <1>3, Positions
  <2> QED BY <1>1, <1>3, <2>1, Deadlines DEF LeavesTypes
<1>7. LeavesTruth(line)
  BY <1>2, <1>4 DEF LeavesTruth, StartupInv, DeliveryIsKnown
<1>8. LeavesWindow(line)
  BY <1>3, <1>4 DEF LeavesWindow
<1>9. LeavesClean(line)
  <2>1. mishaps = 0 => /\ link = "up" /\ late = <<>> /\ pending = <<>> /\ parked = <<>>
                       /\ ncp.endpoint /\ "STACK_PROFILE" \in ncp.config
                       /\ stored => ncp.network
    BY <1>1 DEF StartupInv, CleanSoFar
  <2> QED BY <1>3, <1>4, <2>1 DEF LeavesClean
<1> QED BY <1>5, <1>6, <1>7, <1>8, <1>9, SpeakingStep

\* The window has shut by the time the host's own deadline is up.
LEMMA WaitEndsInv == ASSUME StartupInv, WaitEnds PROVE StartupInv'
<1>1. /\ pc \in {"joining", "sent"} /\ MovesOn /\ left' = 0 /\ (Found \/ Expired)
      /\ UNCHANGED <<joined, outcome, callbacks, pending, parked, late, link, ncp, stored, delivered,
                     unsaid, mishaps>>
  BY DEF WaitEnds, callVars
<1>2. NoNewCallbacks /\ mishaps \in Nat /\ ncp.window \in 0 .. MAX_DURATION
  BY <1>1, SameCallbacks DEF StartupInv, StartupTypes, StartupTypeOK
<1>3. PICK line \in WaitLines :
         /\ lines' = Append(lines, line)
         /\ line = Fail("deviceJoin") => pc = "joining" /\ ~Found
         /\ line = Pass("messageSentDelivered") => outcome = "ok"
  <2>1. ASSUME pc = "joining", Found, pass("deviceJoin")
        PROVE  lines' = Append(lines, Pass("deviceJoin"))
    BY <2>1 DEF pass, Pass
  <2>2. ASSUME pc = "joining", ~Found, fail("deviceJoin")
        PROVE  lines' = Append(lines, Fail("deviceJoin"))
    BY <2>2 DEF fail, Fail
  <2>3. ASSUME outcome = "ok", pass("messageSentDelivered")
        PROVE  lines' = Append(lines, Pass("messageSentDelivered"))
    BY <2>3 DEF pass, Pass
  <2>4. ASSUME fail("messageSentFailed")
        PROVE  lines' = Append(lines, Fail("messageSentFailed"))
    BY <2>4 DEF fail, Fail
  <2>5. /\ Pass("deviceJoin") # Fail("deviceJoin")
        /\ Pass("deviceJoin") # Pass("messageSentDelivered")
        /\ Fail("deviceJoin") # Pass("messageSentDelivered")
        /\ Fail("messageSentFailed") # Fail("deviceJoin")
        /\ Fail("messageSentFailed") # Pass("messageSentDelivered")
    BY LinesDiffer DEF Pass, Fail
  <2> QED BY <2>1, <2>2, <2>3, <2>4, <2>5 DEF WaitEnds, WaitLines
<1>4. ASSUME line = Fail("deviceJoin"), Says(Pass("permitJoiningOpen")), "permit" \notin unsaid
      PROVE  ncp.window = 0
  <2>1. left = 0 /\ ncp.window <= left
    BY <1>1, <1>3, <1>4 DEF Expired, StartupInv, WindowIsWatched
  <2> QED BY <1>2, <2>1 DEF MAX_DURATION
<1> QED BY <1>1, <1>2, <1>3, <1>4, WaitOver

\* A poll that errors ends the wait as well, and the summary does not tell.
LEMMA PollFailsInv == ASSUME StartupInv, PollFails PROVE StartupInv'
<1>1. /\ pc \in {"joining", "sent"} /\ MovesOn /\ left' = 0
      /\ UNCHANGED <<joined, outcome, late, link, ncp, stored, delivered>>
  BY DEF PollFails
<1>2. callbacks \in Seq(Callbacks) /\ mishaps \in Nat /\ (mishaps = 0 => link = "up")
  BY DEF StartupInv, StartupTypes, CleanSoFar
<1>3. NoNewCallbacks /\ mishaps' \in Nat /\ mishaps' # 0
  <2>1. CASE link = "gone" /\ UNCHANGED <<callbacks, mishaps>>
    BY <1>2, <2>1, SameCallbacks
  <2>2. CASE mishaps' = mishaps + 1 /\ Mislaid
    BY <1>2, <2>2, MislaidDoes
  <2> QED BY <2>1, <2>2 DEF PollFails, Mishap
<1>4. PICK line \in {Fail("deviceJoin"), Fail("messageSentFailed")} :
         /\ lines' = Append(lines, line)
         /\ line = Fail("deviceJoin") => "cut" \in unsaid'
         /\ unsaid \subseteq unsaid'
  <2>1. CASE fail("deviceJoin") /\ unsaid' = unsaid \cup {"cut"}
    BY <2>1 DEF fail, Fail
  <2>2. CASE fail("messageSentFailed") /\ UNCHANGED unsaid
    <3>1. Fail("messageSentFailed") # Fail("deviceJoin")
      BY LinesDiffer
    <3> QED BY <2>2, <3>1 DEF fail, Fail
  <2> QED BY <2>1, <2>2 DEF PollFails
<1>5. line \in WaitLines /\ line # Pass("messageSentDelivered")
  BY LinesDiffer DEF WaitLines, Pass, Fail
<1> QED BY <1>1, <1>3, <1>4, <1>5, WaitOver

\* main's last step says nothing and leaves the dongle alone.
LEMMA FinishInv == ASSUME StartupInv, Finish PROVE StartupInv'
<1>1. /\ pc = "sleep" /\ Position(pc) = 15 /\ pc \in Elements(Steps)
      /\ StartupTypes /\ StartupTypeOK
  BY Positions DEF Finish, StartupInv, StartupTypes, StartupTypeOK
<1>2. /\ UNCHANGED <<left, joined, outcome, lines, pending, parked, late, link, ncp, stored,
                     delivered, unsaid, mishaps>>
      /\ callbacks' = <<>>
  BY DEF Finish, callVars
<1>3. pc' = "done" /\ Position(pc') = 16 /\ pc' \in Elements(Steps) /\ item' = 1 /\ ok' = TRUE
  <2>1. pc' \in Elements(Steps) /\ Position(pc') \in 16 .. 16 /\ item' = 1 /\ ok' = TRUE
    BY <1>1, OrderOfMain DEF Finish, MovesOn
  <2>2. pc' = Steps[16]
    BY <2>1, StepAt
  <2> QED BY <2>1, <2>2 DEF Steps
<1>4. StartupTypes'
  <2>1. StartupTypeOK'
    BY <1>1, <1>2, <1>3 DEF StartupTypeOK
  <2>2. Len(lines') < Position(pc') /\ lines' \in Seq(Lines) /\ callbacks' \in Seq(Callbacks)
    BY <1>1, <1>2, <1>3 DEF StartupTypes
  <2> QED BY <1>1, <1>2, <1>3, <2>1, <2>2 DEF StartupTypes
<1>5. LinesInOrder'
  BY <1>1, <1>2, <1>3, StaysInOrder DEF StartupInv, LinesInOrder
<1>6. LinesAreTrue' /\ ArraysSoFar'
  BY <1>2, <1>3 DEF StartupInv, LinesAreTrue, ArraysSoFar, Says
<1>7. DeliveryIsKnown'
  BY <1>2 DEF StartupInv, DeliveryIsKnown
<1>8. WindowIsWatched' /\ CleanSoFar'
  BY <1>1, <1>2, <1>3 DEF StartupInv, WindowIsWatched, CleanSoFar, Says
<1> QED BY <1>4, <1>5, <1>6, <1>7, <1>8 DEF StartupInv

-----------------------------------------------------------------------------
(* The steps that say nothing *)

\* What a step that adds no line and moves main nowhere has to leave alone.
Quiet ==
    /\ UNCHANGED <<pc, item, ok, lines, stored>>
    /\ link' # "reset" => link # "reset" /\ Keeps
    /\ NoneOf("permit", late) =>
          /\ NoneOf("permit", late') /\ (ncp.window = 0 => ncp'.window = 0)
          /\ pc = "joining" /\ ncp.window <= left => ncp'.window <= left'
    /\ unsaid \subseteq unsaid'
    /\ pc \in {"config", "policy"} => (pending' = <<>> <=> pending = <<>>)
    /\ delivered => delivered'
    /\ outcome' = "ok" => delivered'
    /\ \A i \in 1 .. Len(callbacks') :
          callbacks'[i].kind = "MessageSent" /\ callbacks'[i].what = "ok" => delivered'
    /\ mishaps' = 0 => /\ mishaps = 0 /\ link' = "up"
                       /\ late' = <<>> /\ pending' = <<>> /\ parked' = <<>>
                       /\ ncp'.network = ncp.network /\ ncp'.config = ncp.config
                       /\ ncp'.endpoint = ncp.endpoint

LEMMA QuietStep == ASSUME StartupInv, StartupTypes', Quiet PROVE StartupInv'
<1>1. StartupTypes /\ UNCHANGED <<pc, item, ok, lines, stored>>
  BY DEF StartupInv, Quiet
<1>2. LinesInOrder'
  BY <1>1 DEF StartupInv, LinesInOrder
<1>3. LinesAreTrue'
  <2>1. ASSUME link' # "reset", NEW i \in 1 .. Len(lines)
        PROVE  TrueOf(lines[i], ncp', late', unsaid')
    <3>1. /\ TrueOf(lines[i], ncp, late, unsaid) /\ InOrder(lines[i], Position(pc))
          /\ Keeps /\ StaysShut
      BY <2>1 DEF Quiet, StaysShut, StartupInv, LinesAreTrue, LinesInOrder
    <3>2. ncp' \in Dongles
      BY DEF StartupTypes
    <3> QED BY <1>1, <3>1, <3>2, StaysTrue
  <2> QED BY <1>1, <2>1 DEF StartupInv, LinesAreTrue, Says, Quiet
<1>4. ArraysSoFar'
  <2> SUFFICES ASSUME link' # "reset", ok', pending' = <<>>, pc \in {"config", "policy"}
               PROVE  /\ pc = "config" =>
                            \A j \in 1 .. (item - 1) : Configurations[j] \in ncp'.config
                      /\ pc = "policy" =>
                            \A j \in 1 .. (item - 1) : Policies[j] \in ncp'.policies
    BY <1>1 DEF ArraysSoFar
  <2>1. /\ link # "reset" /\ ok /\ pending = <<>>
        /\ ncp.config \subseteq ncp'.config /\ ncp.policies \subseteq ncp'.policies
    BY <1>1 DEF Quiet, Keeps
  <2> QED BY <2>1 DEF StartupInv, ArraysSoFar
<1>5. DeliveryIsKnown'
  <2>1. \A i \in 1 .. Len(lines') : lines'[i] = Pass("messageSentDelivered") => delivered'
    BY <1>1 DEF StartupInv, DeliveryIsKnown, Quiet
  <2> QED BY <2>1 DEF DeliveryIsKnown, Quiet
<1>6. WindowIsWatched'
  BY <1>1 DEF StartupInv, WindowIsWatched, Quiet, Says
<1>7. CleanSoFar'
  BY <1>1 DEF StartupInv, CleanSoFar, Quiet
<1> QED BY <1>2, <1>3, <1>4, <1>5, <1>6, <1>7 DEF StartupInv

\* A command that errored and that the dongle takes after all adds to what the dongle has, and opens
\* the window or brings the key back only if it was the one to do so.
LEMMA NcpTakesLateInv == ASSUME StartupInv, NcpTakesLate PROVE StartupInv'
<1>1. /\ StartupTypes /\ StartupTypeOK /\ ncp \in Dongles /\ late \in Seq(Sendings) /\ late # <<>>
      /\ callbacks \in Seq(Callbacks) /\ late' = Tail(late)
  BY DEF StartupInv, StartupTypes, NcpTakesLate
<1>2. UNCHANGED <<pc, item, ok, left, joined, outcome, lines, callbacks, parked, link, stored,
                  delivered, unsaid, mishaps>>
  BY DEF NcpTakesLate, progVars
<1>3. /\ Head(late) \in Sendings /\ Tail(late) \in Seq(Sendings)
      /\ \A step : NoneOf(step, late) => NoneOf(step, Tail(late)) /\ Head(late).step # step
  BY <1>1, NoneInTail
<1>4. PICK c \in Sendings : /\ c = Head(late)
                            /\ ncp' \in {ncp, After(ncp, c.step, c.entry)}
  BY <1>3 DEF NcpTakesLate
<1>5. /\ ncp' \in Dongles
      /\ ncp.endpoint => ncp'.endpoint
      /\ ncp.config \subseteq ncp'.config /\ ncp.policies \subseteq ncp'.policies
      /\ ncp.network => ncp'.network
      /\ c.step # "permit" => ncp'.window \in {0, ncp.window}
      /\ ~ncp.key /\ c.step # "import" => ~ncp'.key
  <2>1. CASE ncp' = ncp
    BY <1>1, <2>1
  <2>2. CASE ncp' = After(ncp, c.step, c.entry)
    BY <1>1, <2>2, AfterDoes
  <2> QED BY <1>4, <2>1, <2>2
<1>6. StartupTypes'
  <2>1. ncp'.window \in 0 .. MAX_DURATION
    BY <1>5 DEF Dongles
  <2>2. StartupTypeOK'
    BY <1>1, <1>2, <2>1 DEF StartupTypeOK
  <2> QED BY <1>1, <1>2, <1>3, <1>5, <2>2 DEF StartupTypes
<1>7. Quiet
  <2>1. Keeps
    BY <1>1, <1>3, <1>4, <1>5 DEF Keeps
  <2>2. NoneOf("permit", late) =>
           /\ NoneOf("permit", late') /\ (ncp.window = 0 => ncp'.window = 0)
           /\ ncp.window <= left => ncp'.window <= left'
    <3>1. left \in Nat
      BY <1>1, Deadlines DEF StartupTypeOK
    <3> QED BY <1>1, <1>2, <1>3, <1>4, <1>5, <3>1
  <2>3. mishaps' # 0
    BY <1>1, <1>2 DEF StartupInv, CleanSoFar
  <2>4. outcome' = "ok" => delivered'
    BY <1>2 DEF StartupInv, DeliveryIsKnown
  <2>5. \A i \in 1 .. Len(callbacks') :
           callbacks'[i].kind = "MessageSent" /\ callbacks'[i].what = "ok" => delivered'
    BY <1>2 DEF StartupInv, DeliveryIsKnown
  <2>6. pending' = <<>> <=> pending = <<>>
    BY DEF NcpTakesLate
  <2> QED BY <1>2, <2>1, <2>2, <2>3, <2>4, <2>5, <2>6 DEF Quiet
<1> QED BY <1>6, <1>7, QuietStep

\* Time runs the same for the host and the dongle.
LEMMA ElapseDoes ==
    ASSUME StartupTypes, NEW seconds \in {0, POLL_SECONDS}, Elapse(seconds)
    PROVE  /\ left' \in 0 .. Max({JOIN_SECONDS, SENT_SECONDS}) /\ ncp' \in Dongles
           /\ ncp'.endpoint = ncp.endpoint /\ ncp'.config = ncp.config
           /\ ncp'.policies = ncp.policies /\ ncp'.network = ncp.network /\ ncp'.key = ncp.key
           /\ ncp.window = 0 => ncp'.window = 0
           /\ ncp.window <= left => ncp'.window <= left'
<1>1. seconds \in Nat
  BY StartupAssumption
<1>2. /\ left \in 0 .. Max({JOIN_SECONDS, SENT_SECONDS}) /\ ncp \in Dongles
      /\ ncp.window \in 0 .. 254
  BY DEF StartupTypes, StartupTypeOK, Dongles, MAX_DURATION
<1>3. /\ left' = Max({0, left - seconds})
      /\ ncp' = [ncp EXCEPT !.window = Max({0, ncp.window - seconds})]
  BY DEF Elapse
<1>4. left \in Nat /\ ncp.window \in Nat
  BY <1>2, Deadlines
<1>5. /\ Max({0, left - seconds}) = IF 0 >= left - seconds THEN 0 ELSE left - seconds
      /\ Max({0, ncp.window - seconds}) = IF 0 >= ncp.window - seconds THEN 0
                                          ELSE ncp.window - seconds
  <2>1. 0 \in Int /\ left - seconds \in Int /\ ncp.window - seconds \in Int
    BY <1>1, <1>4
  <2> QED BY <2>1, MaxOfTwo
<1>6. PICK w : w = Max({0, ncp.window - seconds})
  OBVIOUS
<1>7. w = IF 0 >= ncp.window - seconds THEN 0 ELSE ncp.window - seconds
  BY <1>5, <1>6
<1>8. w \in 0 .. 254
  <2>1. ncp.window \in Nat /\ ncp.window <= 254
    BY <1>2
  <2>2. PICK v \in Nat : v = ncp.window /\ v <= 254
    BY <2>1
  <2>3. w = IF 0 >= v - seconds THEN 0 ELSE v - seconds
    BY <1>7, <2>2
  <2> QED BY <1>1, <2>2, <2>3
<1>9. ncp' = [ncp EXCEPT !.window = w]
  BY <1>3, <1>6
<1>10. /\ ncp' \in Dongles /\ ncp'.window = w
       /\ ncp'.endpoint = ncp.endpoint /\ ncp'.config = ncp.config
       /\ ncp'.policies = ncp.policies /\ ncp'.network = ncp.network /\ ncp'.key = ncp.key
  BY <1>2, <1>8, <1>9 DEF Dongles, MAX_DURATION
<1>11. left' = IF 0 >= left - seconds THEN 0 ELSE left - seconds
  BY <1>3, <1>5
<1>12. left' \in 0 .. Max({JOIN_SECONDS, SENT_SECONDS})
  BY <1>1, <1>2, <1>4, <1>11, Deadlines
<1>13. /\ ncp.window = 0 => w = 0
       /\ ncp.window <= left => w <= left'
  BY <1>1, <1>4, <1>7, <1>11
<1> QED BY <1>10, <1>12, <1>13

\* What the waits find is what one of the callbacks says.
LEMMA WaitFinds ==
    ASSUME StartupTypes, NEW n \in 1 .. Len(callbacks), NEW batch, batch = SubSeq(callbacks, 1, n)
    PROVE  /\ Joined(batch) \in {"none", "came", "left"}
           /\ \/ Outcome(batch) = outcome
              \/ \E j \in 1 .. Len(callbacks) : /\ callbacks[j].kind = "MessageSent"
                                                /\ Outcome(batch) = callbacks[j].what
<1>1. callbacks \in Seq(Callbacks) /\ joined \in {"none", "came", "left"}
  BY DEF StartupTypes, StartupTypeOK
<1>2. /\ Len(batch) \in Nat
      /\ \A i \in 1 .. Len(batch) : \E j \in 1 .. Len(callbacks) : batch[i] = callbacks[j]
  BY <1>1, PartOfCallbacks
<1>3. Joined(batch) \in {"none", "came", "left"}
  <2> DEFINE T == {i \in 1 .. Len(batch) : batch[i].kind = "TrustCenterJoin"}
  <2>1. CASE T = {}
    BY <1>1, <2>1 DEF Joined
  <2>2. CASE T # {}
    <3>1. Max(T) \in T
      BY <1>2, <2>2, MaxOfPositions
    <3>2. PICK j \in 1 .. Len(callbacks) : batch[Max(T)] = callbacks[j]
      BY <1>2, <3>1
    <3>3. callbacks[j] \in Callbacks /\ callbacks[j].kind = "TrustCenterJoin"
      <4>1. batch[Max(T)].kind = "TrustCenterJoin"
        BY <3>1
      <4> HIDE DEF T
      <4> QED BY <1>1, <3>2, <4>1
    <3>4. callbacks[j].what \in {"came", "left"}
      BY <3>3 DEF Callbacks
    <3>5. Joined(batch) = batch[Max(T)].what
      BY <2>2 DEF Joined
    <3> QED BY <3>2, <3>4, <3>5
  <2> QED BY <2>1, <2>2
<1>4. \/ Outcome(batch) = outcome
      \/ \E j \in 1 .. Len(callbacks) : /\ callbacks[j].kind = "MessageSent"
                                        /\ Outcome(batch) = callbacks[j].what
  <2> DEFINE T == {i \in 1 .. Len(batch) : batch[i].kind = "MessageSent"}
  <2>1. CASE T = {}
    BY <2>1 DEF Outcome
  <2>2. CASE T # {}
    <3>1. Max(T) \in T
      BY <1>2, <2>2, MaxOfPositions
    <3>2. PICK j \in 1 .. Len(callbacks) : batch[Max(T)] = callbacks[j]
      BY <1>2, <3>1
    <3>3. Outcome(batch) = batch[Max(T)].what
      BY <2>2 DEF Outcome
    <3> QED BY <3>1, <3>2, <3>3
  <2> QED BY <2>1, <2>2
<1> QED BY <1>3, <1>4

\* A poll brings callbacks, time, or neither, and says nothing.
LEMMA PollInv == ASSUME StartupInv, Poll PROVE StartupInv'
<1>1. /\ StartupTypes /\ StartupTypeOK /\ pc \in {"joining", "sent"} /\ link' = link
      /\ callbacks \in Seq(Callbacks)
      /\ outcome \in {"none", "ok", "failed"} /\ joined \in {"none", "came", "left"}
  BY DEF StartupInv, StartupTypes, StartupTypeOK, Poll
<1>2. /\ UNCHANGED <<pc, item, ok, lines, late, link, stored, delivered, unsaid, mishaps>>
      /\ Position(pc) \in {10, 14}
  BY <1>1, Positions DEF Poll
<1>3. PICK seconds \in {0, POLL_SECONDS} : Elapse(seconds)
  BY DEF Poll
<1>4. /\ left' \in 0 .. Max({JOIN_SECONDS, SENT_SECONDS}) /\ ncp' \in Dongles
      /\ ncp'.endpoint = ncp.endpoint /\ ncp'.config = ncp.config
      /\ ncp'.policies = ncp.policies /\ ncp'.network = ncp.network /\ ncp'.key = ncp.key
      /\ ncp.window = 0 => ncp'.window = 0
      /\ ncp.window <= left => ncp'.window <= left'
  BY <1>1, <1>3, ElapseDoes
<1>5. /\ callbacks' \in Seq(Callbacks)
      /\ \A i \in 1 .. Len(callbacks') : \E j \in 1 .. Len(callbacks) : callbacks'[i] = callbacks[j]
      /\ joined' \in {"none", "came", "left"}
      /\ outcome' \in {"none", "ok", "failed"}
      /\ outcome' = outcome \/ \E j \in 1 .. Len(callbacks) : /\ callbacks[j].kind = "MessageSent"
                                                             /\ outcome' = callbacks[j].what
  <2>1. ASSUME NEW n \in 1 .. Len(callbacks),
               callbacks' = SubSeq(callbacks, n + 1, Len(callbacks)),
               joined' = IF pc = "joining" THEN Joined(SubSeq(callbacks, 1, n)) ELSE joined,
               outcome' = IF pc = "sent" THEN Outcome(SubSeq(callbacks, 1, n)) ELSE outcome
        PROVE  <1>5!1 /\ <1>5!2 /\ <1>5!3 /\ <1>5!4 /\ <1>5!5
    <3>1. Len(callbacks) \in Nat
      BY <1>1
    <3>2. n + 1 \in 1 .. (Len(callbacks) + 1) /\ Len(callbacks) \in 0 .. Len(callbacks)
      BY <2>1, <3>1
    <3>3. PICK rest : rest = callbacks'
      OBVIOUS
    <3>4. /\ rest \in Seq(Callbacks)
          /\ \A i \in 1 .. Len(rest) : \E j \in 1 .. Len(callbacks) : rest[i] = callbacks[j]
      BY <1>1, <2>1, <3>2, <3>3, PartOfCallbacks
    <3>5. PICK batch : batch = SubSeq(callbacks, 1, n)
      OBVIOUS
    <3>6. /\ Joined(batch) \in {"none", "came", "left"}
          /\ \/ Outcome(batch) = outcome
             \/ \E j \in 1 .. Len(callbacks) : /\ callbacks[j].kind = "MessageSent"
                                               /\ Outcome(batch) = callbacks[j].what
      BY <1>1, <3>5, WaitFinds
    <3>7. joined' \in {joined, Joined(batch)} /\ outcome' \in {outcome, Outcome(batch)}
      BY <2>1, <3>5
    <3>8. outcome' = outcome \/ \E j \in 1 .. Len(callbacks) : /\ callbacks[j].kind = "MessageSent"
                                                              /\ outcome' = callbacks[j].what
      BY <3>6, <3>7
    <3>9. ASSUME NEW j \in 1 .. Len(callbacks), callbacks[j].kind = "MessageSent"
          PROVE  callbacks[j].what \in {"ok", "failed"}
      <4>1. callbacks[j] \in Callbacks
        BY <1>1
      <4> QED BY <3>9, <4>1 DEF Callbacks
    <3>10. outcome' \in {"none", "ok", "failed"}
      BY <1>1, <3>8, <3>9
    <3>11. joined' \in {"none", "came", "left"}
      BY <1>1, <3>6, <3>7
    <3> QED BY <3>3, <3>4, <3>8, <3>10, <3>11
  <2>2. ASSUME UNCHANGED <<callbacks, joined, outcome>>
        PROVE  <1>5!1 /\ <1>5!2 /\ <1>5!3 /\ <1>5!4 /\ <1>5!5
    BY <1>1, <2>2
  <2> QED BY <2>1, <2>2 DEF Poll
<1>6. StartupTypes'
  <2>1. ncp'.window \in 0 .. MAX_DURATION
    BY <1>4 DEF Dongles
  <2>2. StartupTypeOK'
    BY <1>1, <1>2, <1>4, <1>5, <2>1 DEF StartupTypeOK
  <2> QED BY <1>1, <1>2, <1>4, <1>5, <2>2 DEF StartupTypes
<1>7. Quiet
  <2>1. Keeps
    BY <1>2, <1>4 DEF Keeps
  <2>2. mishaps = 0 => pending' = <<>> /\ parked' = <<>>
    BY DEF Poll, Absorbs, StartupInv, CleanSoFar
  <2>3. \A j \in 1 .. Len(callbacks) :
           callbacks[j].kind = "MessageSent" /\ callbacks[j].what = "ok" => delivered
    BY DEF StartupInv, DeliveryIsKnown
  <2>4. outcome' = "ok" => delivered'
    BY <1>2, <1>5, <2>3 DEF StartupInv, DeliveryIsKnown
  <2>5. \A i \in 1 .. Len(callbacks') :
           callbacks'[i].kind = "MessageSent" /\ callbacks'[i].what = "ok" => delivered'
    BY <1>2, <1>5, <2>3
  <2>6. mishaps = 0 => link = "up" /\ late = <<>>
    BY DEF StartupInv, CleanSoFar
  <2> QED BY <1>1, <1>2, <1>4, <2>1, <2>2, <2>4, <2>5, <2>6 DEF Quiet
<1> QED BY <1>6, <1>7, QuietStep

\* A report of a delivery is a delivery.
LEMMA NcpCallsBackInv == ASSUME StartupInv, NcpCallsBack PROVE StartupInv'
<1>1. StartupTypes /\ StartupTypeOK /\ ncp \in Dongles /\ callbacks \in Seq(Callbacks)
  BY DEF StartupInv, StartupTypes
<1>2. UNCHANGED <<pc, item, ok, left, joined, outcome, lines, pending, parked, late, link, stored,
                  unsaid, mishaps>>
  BY DEF NcpCallsBack, progVars, callVars
<1>3. PICK c \in Reportable :
         /\ callbacks' = Append(callbacks, c)
         /\ ncp' = [ncp EXCEPT !.sending = ncp.sending /\ c.kind # "MessageSent"]
         /\ delivered' = (delivered \/ (c.kind = "MessageSent" /\ c.what = "ok"))
  BY DEF NcpCallsBack
<1>4. c \in Callbacks
  BY <1>3 DEF Reportable, Callbacks
<1>5. /\ ncp' \in Dongles
      /\ ncp'.endpoint = ncp.endpoint /\ ncp'.config = ncp.config
      /\ ncp'.policies = ncp.policies /\ ncp'.network = ncp.network /\ ncp'.key = ncp.key
      /\ ncp'.window = ncp.window
  BY <1>1, <1>3 DEF Dongles
<1>6. /\ callbacks' \in Seq(Callbacks)
      /\ \A i \in 1 .. Len(callbacks') :
            callbacks'[i] = c \/ (i \in 1 .. Len(callbacks) /\ callbacks'[i] = callbacks[i])
  BY <1>1, <1>3, <1>4
<1>7. StartupTypes'
  <2>1. StartupTypeOK'
    BY <1>1, <1>2, <1>5 DEF StartupTypeOK
  <2> QED BY <1>1, <1>2, <1>5, <1>6, <2>1 DEF StartupTypes
<1>8. Quiet
  <2>1. Keeps
    BY <1>2, <1>5 DEF Keeps
  <2>2. \A i \in 1 .. Len(callbacks') :
           callbacks'[i].kind = "MessageSent" /\ callbacks'[i].what = "ok" => delivered'
    BY <1>3, <1>6 DEF StartupInv, DeliveryIsKnown
  <2>3. (delivered => delivered') /\ (outcome' = "ok" => delivered')
    BY <1>2, <1>3 DEF StartupInv, DeliveryIsKnown
  <2>4. mishaps = 0 => link = "up" /\ late = <<>> /\ pending = <<>> /\ parked = <<>>
    BY DEF StartupInv, CleanSoFar
  <2> QED BY <1>2, <1>5, <2>1, <2>2, <2>3, <2>4 DEF Quiet
<1> QED BY <1>7, <1>8, QuietStep

\* With the link goes what it carried; with a reboot goes the dongle's state too.
LEMMA LinkLostInv == ASSUME StartupInv, NcpReboots \/ PortFails PROVE StartupInv'
<1>1. /\ StartupTypes /\ StartupTypeOK /\ ncp \in Dongles /\ callbacks \in Seq(Callbacks)
      /\ mishaps \in Nat /\ left \in Nat /\ late \in Seq(Sendings)
  BY Deadlines DEF StartupInv, StartupTypes, StartupTypeOK
<1>2. PICK state \in {"reset", "gone"} :
         /\ LinkLost(state)
         /\ ncp' = IF state = "reset" THEN Rebooted ELSE ncp
         /\ late' = IF state = "reset" THEN <<>> ELSE late
  BY DEF NcpReboots, PortFails
<1>3. /\ UNCHANGED <<pc, item, ok, left, joined, outcome, lines, pending, parked, stored, delivered,
                     unsaid>>
      /\ link = "up" /\ link' = state /\ mishaps' = mishaps + 1 /\ pc # "open"
  BY <1>2 DEF LinkLost, Mishap, progVars, Running
<1>4. PICK n \in 0 .. Len(callbacks) : callbacks' = SubSeq(callbacks, 1, n)
  BY <1>2 DEF LinkLost
<1>5. PICK rest : rest = callbacks'
  OBVIOUS
<1>6. /\ rest \in Seq(Callbacks)
      /\ \A i \in 1 .. Len(rest) : \E j \in 1 .. Len(callbacks) : rest[i] = callbacks[j]
  <2>1. 1 \in 1 .. (Len(callbacks) + 1)
    BY <1>1
  <2> QED BY <1>1, <1>4, <1>5, <2>1, PartOfCallbacks
<1>7. Rebooted \in Dongles /\ Rebooted.window = 0
  BY DEF Rebooted, Dongles, MAX_DURATION
<1>8. ncp' \in Dongles /\ (ncp'.window = 0 \/ ncp'.window = ncp.window)
  BY <1>1, <1>2, <1>7
<1>9. StartupTypes'
  <2>1. ncp'.window \in 0 .. MAX_DURATION
    BY <1>8 DEF Dongles
  <2>2. StartupTypeOK'
    BY <1>1, <1>3, <2>1 DEF StartupTypeOK
  <2>3. mishaps' \in Nat /\ callbacks' \in Seq(Callbacks)
    BY <1>1, <1>3, <1>5, <1>6
  <2>4. late' \in Seq(Sendings)
    BY <1>1, <1>2
  <2> QED BY <1>1, <1>3, <1>8, <2>2, <2>3, <2>4 DEF StartupTypes
<1>10. Quiet
  <2>1. link' # "reset" => Keeps
    BY <1>2, <1>3 DEF Keeps
  <2>2. \A j \in 1 .. Len(callbacks) :
           callbacks[j].kind = "MessageSent" /\ callbacks[j].what = "ok" => delivered
    BY DEF StartupInv, DeliveryIsKnown
  <2>3. \A i \in 1 .. Len(callbacks') :
           callbacks'[i].kind = "MessageSent" /\ callbacks'[i].what = "ok" => delivered'
    BY <1>3, <1>5, <1>6, <2>2
  <2>4. outcome' = "ok" => delivered'
    BY <1>3 DEF StartupInv, DeliveryIsKnown
  <2>5. NoneOf("permit", late) =>
           /\ NoneOf("permit", late') /\ (ncp.window = 0 => ncp'.window = 0)
           /\ ncp.window <= left => ncp'.window <= left'
    BY <1>1, <1>2, <1>3, <1>8 DEF NoneOf
  <2>6. mishaps' # 0
    BY <1>1, <1>3
  <2> QED BY <1>3, <1>8, <2>1, <2>3, <2>4, <2>5, <2>6 DEF Quiet
<1> QED BY <1>9, <1>10, QuietStep

-----------------------------------------------------------------------------
(* The theorems *)

LEMMA InitStartupInv == StartupInit => StartupInv
<1> SUFFICES ASSUME StartupInit PROVE StartupInv
  OBVIOUS
<1>1. /\ pc = "open" /\ item = 1 /\ ok = TRUE /\ left = 0 /\ joined = "none" /\ outcome = "none"
      /\ lines = <<>> /\ callbacks = <<>> /\ link = "up" /\ mishaps = 0
      /\ pending = <<>> /\ parked = <<>> /\ late = <<>>
  BY DEF StartupInit
<1>2. ncp \in Dongles /\ ncp.window = 0
  <2>1. Rebooted \in Dongles /\ Rebooted.window = 0
    BY DEF Rebooted, Dongles, MAX_DURATION
  <2>2. stored \in BOOLEAN
    BY DEF StartupInit
  <2>3. ASSUME ncp = [Rebooted EXCEPT !.network = stored, !.endpoint = TRUE, !.key = TRUE]
        PROVE  ncp \in Dongles /\ ncp.window = 0
    BY <2>1, <2>2, <2>3 DEF Dongles
  <2> QED BY <2>1, <2>3 DEF StartupInit
<1>3. Position(pc) = 1 /\ Len(Steps) = 16 /\ pc \in Elements(Steps)
  BY <1>1, Positions, PositionOf DEF Steps
<1>4. lines \in Seq(Lines) /\ callbacks \in Seq(Callbacks) /\ Len(lines) = 0 /\ Len(callbacks) = 0
      /\ late \in Seq(Sendings) /\ Len(late) = 0
  BY <1>1
<1>5. StartupTypes
  <2>1. left \in 0 .. Max({JOIN_SECONDS, SENT_SECONDS}) /\ ncp.window \in 0 .. MAX_DURATION
    BY <1>1, <1>2, Deadlines DEF MAX_DURATION
  <2>2. item \in 1 .. (CASE pc = "config" -> Len(Configurations) [] pc = "policy" -> Len(Policies)
                         [] OTHER -> 1)
    BY <1>1
  <2>3. StartupTypeOK
    BY <1>1, <1>3, <1>4, <2>1, <2>2 DEF StartupTypeOK
  <2> QED BY <1>1, <1>2, <1>3, <1>4, <2>3 DEF StartupTypes
<1>6. LinesInOrder /\ LinesAreTrue /\ ArraysSoFar /\ DeliveryIsKnown
  BY <1>1, <1>4 DEF LinesInOrder, LinesAreTrue, ArraysSoFar, DeliveryIsKnown, Says
<1>7. WindowIsWatched /\ CleanSoFar
  BY <1>1, <1>2, <1>3, <1>4 DEF WindowIsWatched, CleanSoFar, Says, NoneOf
<1> QED BY <1>5, <1>6, <1>7 DEF StartupInv

LEMMA NextStartupInv == StartupInv /\ [StartupNext]_startupVars => StartupInv'
<1> SUFFICES ASSUME StartupInv, [StartupNext]_startupVars PROVE StartupInv'
  OBVIOUS
<1>1. CASE Open
  BY <1>1, OpenInv
<1>2. CASE Connect
  BY <1>2, ConnectInv
<1>3. CASE GetEui64
  BY <1>3, GetEui64Inv
<1>4. CASE register_endpoint
  BY <1>4, RegisterEndpointInv
<1>5. CASE configure_stack
  BY <1>5, ConfigureStackInv
<1>6. CASE configure_policies
  BY <1>6, ConfigurePoliciesInv
<1>7. CASE NetworkInit
  BY <1>7, NetworkInitInv
<1>8. CASE ImportTransientKey
  BY <1>8, ImportTransientKeyInv
<1>9. CASE open_for_joining
  BY <1>9, OpenForJoiningInv
<1>10. CASE close_joining
  BY <1>10, CloseJoiningInv
<1>11. CASE send_onoff
  BY <1>11, SendOnoffInv
<1>12. CASE Poll
  BY <1>12, PollInv
<1>13. CASE PollFails
  BY <1>13, PollFailsInv
<1>14. CASE WaitEnds
  BY <1>14, WaitEndsInv
<1>15. CASE Finish
  BY <1>15, FinishInv
<1>16. CASE NcpTakesLate
  BY <1>16, NcpTakesLateInv
<1>17. CASE NcpCallsBack
  BY <1>17, NcpCallsBackInv
<1>18. CASE NcpReboots \/ PortFails
  BY <1>18, LinkLostInv
<1>19. CASE UNCHANGED startupVars
  BY <1>19 DEF startupVars, progVars, callVars, StartupInv, StartupTypes, StartupTypeOK, LinesInOrder,
     LinesAreTrue, ArraysSoFar, DeliveryIsKnown, WindowIsWatched, CleanSoFar, Says
<1> QED BY <1>1, <1>2, <1>3, <1>4, <1>5, <1>6, <1>7, <1>8, <1>9, <1>10, <1>11, <1>12, <1>13, <1>14,
           <1>15, <1>16, <1>17, <1>18, <1>19 DEF StartupNext, ProgramStep

\* The inductive invariant holds of every run of the example, whatever the dongle refuses, the serial
\* port loses and the devices report.
THEOREM StartupInvHolds == StartupSpec => []StartupInv
<1>1. StartupInit => StartupInv
  BY InitStartupInv
<1>2. StartupInv /\ [StartupNext]_startupVars => StartupInv'
  BY NextStartupInv
<1> QED BY <1>1, <1>2, PTL DEF StartupSpec

\* main's variables keep their types: the array index stays inside the array being sent, the seconds
\* left inside the longer wait, the join window at most 254 (startup.rs:204-212, command.rs:220-228).
THEOREM StartupAlwaysTyped == StartupSpec => []StartupTypeOK
<1>1. StartupInv => StartupTypeOK
  BY DEF StartupInv, StartupTypes
<1> QED BY <1>1, StartupInvHolds, PTL

\* A PASS line of the summary stays true of the dongle until it reboots, through every later command,
\* however that one ended and whenever the dongle takes it.  "Network resumed", "no network" and
\* "window closed" are as good as the answer: not if it was one that an earlier command left behind.
\* "No network" needs, besides, that the configuration passed and that the dongle had no further
\* reason to refuse (startup.rs:500, 475-481, 124-125, 206-209, ncp.rs:344).
THEOREM SummaryAlwaysTrue == StartupSpec => []SummaryIsTrue
<1>1. StartupInv => SummaryIsTrue
  <2> SUFFICES ASSUME StartupInv PROVE SummaryIsTrue
    OBVIOUS
  <2>1. \A name : Passed(name) <=> Says(Pass(name))
    BY DEF Passed, Says, Pass
  <2>2. ASSUME link # "reset", NEW name, Passed(name) PROVE TrueOf(Pass(name), ncp, late, unsaid)
    BY <2>1, <2>2 DEF Says, StartupInv, LinesAreTrue
  <2>3. Passed("networkInitNoNetwork") /\ Passed("setConfigurationValue")
          => ~stored \/ unsaid \cap {"init", "balked"} # {}
    BY <2>1 DEF StartupInv, LinesAreTrue
  <2> QED BY <2>2, <2>3 DEF SummaryIsTrue, TrueOf
<1> QED BY <1>1, StartupInvHolds, PTL

\* A run in which nothing went wrong has the endpoint registered and resumes the network the dongle
\* has stored, and the summary has no failure but a device that did not come or did not answer
\* (startup.rs:173-178, 204-212).
THEOREM CleanRunAlwaysResumes == StartupSpec => []CleanRunResumesTheNetwork
<1>1. StartupInv => CleanRunResumesTheNetwork
  BY Positions DEF StartupInv, CleanSoFar, CleanRunResumesTheNetwork
<1> QED BY <1>1, StartupInvHolds, PTL

\* "Delivered" is said of nothing the device did not acknowledge (startup.rs:438-442).
THEOREM DeliveredAlwaysMeansDelivered == StartupSpec => []DeliveredMeansDelivered
<1>1. StartupInv => DeliveredMeansDelivered
  BY DEF StartupInv, DeliveryIsKnown, DeliveredMeansDelivered, Passed, Pass
<1> QED BY <1>1, StartupInvHolds, PTL

\* When the host has waited in vain for a device the window it opened is shut, as its deadline is
\* never shorter than the window it asked for, and stays shut: a late permitJoining cannot come once
\* its own answer was read.  Two exceptions: a wait that a poll's error cut short, and a permitJoining
\* that was given another command's answer (startup.rs:336, 348, 351, ncp.rs:344).
THEOREM WindowAlwaysShutAfterTheWait == StartupSpec => []WindowIsShutAfterTheWait
<1>1. StartupInv => WindowIsShutAfterTheWait
  <2> SUFFICES ASSUME StartupInv, Passed("permitJoiningOpen"),
                      [name |-> "deviceJoin", passed |-> FALSE] \in Elements(lines)
               PROVE  ncp.window = 0 \/ unsaid \cap {"permit", "cut"} # {}
    BY DEF WindowIsShutAfterTheWait
  <2>1. Says(Pass("permitJoiningOpen")) /\ Says(Fail("deviceJoin"))
    BY DEF Passed, Says, Pass, Fail, Elements
  <2> QED BY <2>1 DEF StartupInv, WindowIsWatched
<1> QED BY <1>1, StartupInvHolds, PTL
=============================================================================
