---------------------------- MODULE CallsProofs ----------------------------
(***************************************************************************)
(* What the parts of MCToolCalls keep for any number of calls, tools,      *)
(* ingests and rows, and the theorems of the composition.                  *)
(*                                                                         *)
(*   calls         A call is under way at one place, and its rows, its     *)
(*                 counters and what the engine was asked follow from the  *)
(*                 place it is at and what it met (Done, Held).            *)
(*   engine        Before a request is sent, and after an answer that asks *)
(*                 for another one, the origin has done nothing.           *)
(*   observations  An ingest has taken the rows up to how far it has read  *)
(*                 (Reads) and up to the watermarks it is about to write   *)
(*                 (Taken); the ingests of a process that run one at a     *)
(*                 time have taken no row twice (InTurn).                  *)
(***************************************************************************)
EXTENDS MCToolCalls, FiniteSetTheorems, SequenceTheorems, WellFoundedInduction, TLAPS

(* Calls.                                                                  *)

\* Some naturals have a least one.
LEMMA LeastNatural ==
  ASSUME NEW T \in SUBSET Nat, T # {}
  PROVE  \E x \in T : \A y \in T : x <= y
<1>1. PICK x \in T : \A y \in T : <<y, x>> \notin OpToRel(<, Nat)
  <2> DEFINE R == OpToRel(<, Nat)
  <2>1. IsWellFoundedOn(R, Nat)
    BY NatLessThanWellFounded, Zenon
  <2> HIDE DEF R
  <2>2. \E x \in T : \A y \in T : <<y, x>> \notin R
    BY <2>1, WFMin
  <2> QED BY <2>2, Zenon DEF R
<1>2. \A y \in T : ~ (y < x)
  BY <1>1, Zenon DEF OpToRel
<1> QED BY <1>2

\* The steps of a call between its window and its answer.
CallPlaces == Ended \union {"new", "windowExpire", "handle", "license", "lookup",
                "proxy", "quotaExpire", "request", "record", "stamp", "store", "reject"}
CallType == [pc : CallPlaces, by : Callers \union {Nothing}, with : Params \union {Nothing},
             tool : Tools \union {Nothing},
             answer : [tool : Tools, with : Params] \union {Nothing},
             hit : BOOLEAN, tries : 0..2, slow : BOOLEAN, lost : BOOLEAN,
             reply : {"none", "result", "isError", "static"}]
Counter == [n : Nat, ttl : BOOLEAN]

\* Places at which a tool has been found.
WithTool == {"lookup", "proxy", "quotaExpire", "request", "record", "stamp", "store"}
\* Places at which the origin has not been asked.
Unasked == {"new", "windowExpire", "handle", "license", "lookup", "proxy", "quotaExpire", "refused"}

\* What a call holds by the place it is at.
Held(k) ==
  /\ k.pc = "new" => k.tool = Nothing
  /\ k.pc # "new" => k.by \in Callers /\ k.with \in Params
  /\ k.pc \in WithTool => k.tool \in Tools
  /\ k.pc \in {"record", "stamp", "store"} => k.answer \in [tool : Tools, with : Params]
  /\ k.tool # Nothing /\ k.by \in ServerCallers =>
       OrgOf[ConnectorOf[k.tool]] = CallerOrg[k.by]
  /\ k.pc \notin {"request", "gone"} => k.tries = 0
  /\ k.hit => k.pc \in {"answered", "gone"}
  /\ k.pc \in Unasked \union {"request"} => k.reply = "none"
  /\ k.pc \in {"store", "answered"} => k.reply # "isError"

\* What the origin has done for a call, and what has been recorded of it.
Done(k, r, n) ==
  /\ k.pc \in Unasked \/ k.hit => n = 0 /\ r.SUCCESS = 0 /\ r.ERROR = 0
  /\ k.pc = "request" => n <= k.tries /\ r.SUCCESS = 0 /\ (n > 0 => k.slow)
  /\ k.pc = "record" => r.SUCCESS = 0 /\ (n > 0 \/ k.reply \in {"isError", "static"})
  /\ k.pc \in {"stamp", "store", "answered"} /\ ~k.hit /\ ~k.lost => r.SUCCESS = 1
  /\ k.pc \notin {"failed", "gone"} => r.ERROR = 0
  /\ k.pc = "reject" /\ ~k.lost => r.SUCCESS = 0 /\ k.reply # "isError"
  /\ k.pc = "failed" /\ ~k.lost /\ k.reply # "isError" => r.SUCCESS = 0 /\ r.ERROR = 1
  /\ k.pc = "failed" /\ ~k.lost /\ k.reply = "isError" => r.SUCCESS = 1 /\ r.ERROR = 0
  /\ r.SUCCESS = 1 => n > 0 \/ k.reply \in {"isError", "static"}
  /\ r.SUCCESS + r.ERROR = 2 => k.lost
  /\ n > 1 => k.slow

CallsTyped ==
  /\ registered \in UNION {Orders(S) : S \in SUBSET Tools}
  /\ cache \in [Keys -> [tool : Tools, with : Params] \union {Nothing}]
  /\ window \in [Callers -> Counter] /\ quota \in [Orgs -> Counter]
  /\ call \in [Calls -> CallType]
  /\ rows \in [Calls -> [SUCCESS : 0..1, ERROR : 0..1]]
  /\ milestone \subseteq Callers
  /\ processed \in [Calls -> 0..3]
  /\ reloads \in 0..MaxReloads /\ faults \in 0..MaxFaults
  /\ endless \subseteq Callers \union Orgs

CallsInv ==
  /\ CallsTyped /\ CountersEnd
  /\ \A c \in Calls : Held(call[c]) /\ Done(call[c], rows[c], processed[c])

\* What the invariant says of the calls in the words of the properties.
LEMMA CallsFromInv ==
  CallsInv => CallsTypeOK /\ RowsTellCalls /\ ServerCallStaysInOrg /\ ExecutedOnce /\ CountersEnd
<1> SUFFICES ASSUME CallsInv PROVE CallsTypeOK /\ RowsTellCalls /\ ServerCallStaysInOrg /\ ExecutedOnce /\ CountersEnd
  OBVIOUS
<1>1. CallsTypeOK
  BY DEF CallsInv, CallsTyped, CallsTypeOK, CallType, CallPlaces, Counter
<1>2. ASSUME NEW c \in Calls
      PROVE  LET k == call[c]
                 r == rows[c]
             IN /\ k.pc \in {"answered", "failed"} /\ ~k.hit /\ ~k.lost =>
                     IF k.pc = "answered" \/ k.reply = "isError" THEN r.SUCCESS = 1 /\ r.ERROR = 0
                     ELSE r.SUCCESS = 0 /\ r.ERROR = 1
                /\ k.hit \/ k.pc = "refused" => r.SUCCESS = 0 /\ r.ERROR = 0
                /\ r.SUCCESS = 1 => processed[c] > 0 \/ k.reply \in {"isError", "static"}
                /\ r.SUCCESS + r.ERROR = 2 => k.lost
  <2>1. Done(call[c], rows[c], processed[c])
    BY DEF CallsInv
  <2> QED BY <2>1 DEF Done, Unasked
<1>3. RowsTellCalls
  BY <1>2 DEF RowsTellCalls
<1>4. ServerCallStaysInOrg
  BY DEF CallsInv, Held, ServerCallStaysInOrg
<1>5. ExecutedOnce
  BY DEF CallsInv, Done, ExecutedOnce
<1> QED BY <1>1, <1>3, <1>4, <1>5 DEF CallsInv

\* The first registered tool of a set, if there is one.
LEMMA FirstInIs ==
  ASSUME CallsTyped, NEW ts
  PROVE  /\ FirstIn(ts) # Nothing => FirstIn(ts) \in ts \intersect Tools
         /\ FirstIn(ts) = Nothing => \A i \in DOMAIN registered : registered[i] \notin ts
<1> DEFINE at == {i \in DOMAIN registered : registered[i] \in ts}
           first == CHOOSE i \in at : \A j \in at : i <= j
<1>1. PICK S \in SUBSET Tools : registered \in Orders(S)
  BY DEF CallsTyped
<1>2. IsFiniteSet(S)
  BY CallsAssumption, FS_Subset
<1>3. Cardinality(S) \in Nat /\ DOMAIN registered = 1..Cardinality(S)
      /\ \A i \in DOMAIN registered : registered[i] \in Tools
  BY <1>1, <1>2, FS_CardinalityType DEF Orders
<1>4. at \in SUBSET Nat
  BY <1>3
<1>5. ASSUME at # {} PROVE first \in at
  <2>1. \E i \in at : \A j \in at : i <= j
    <3> HIDE DEF at
    <3> QED BY <1>4, <1>5, LeastNatural
  <2> HIDE DEF at
  <2> QED BY <2>1
<1>6. FirstIn(ts) = IF at = {} THEN Nothing ELSE registered[first]
  BY DEF FirstIn
<1>7. CASE at = {}
  BY <1>6, <1>7
<1>8. CASE at # {}
  <2>1. registered[first] \in ts \intersect Tools
    <3> HIDE DEF first
    <3> QED BY <1>3, <1>5, <1>8
  <2>2. FirstIn(ts) = registered[first]
    BY <1>6, <1>8
  <2> HIDE DEF first
  <2> QED BY <2>1, <2>2, CallsAssumption
<1> QED BY <1>7, <1>8

\* The tool a call takes: over the URL of a server, one of its client's organization.
LEMMA ResolvedIs ==
  ASSUME CallsTyped, NEW u \in Callers
  PROVE  /\ Resolved(u) \in Tools \union {Nothing}
         /\ u \in ServerCallers /\ Resolved(u) # Nothing => OrgOf[ConnectorOf[Resolved(u)]] = CallerOrg[u]
<1>1. \A ts : FirstIn(ts) # Nothing => FirstIn(ts) \in ts \intersect Tools
  BY FirstInIs
<1>2. \A k \in CallerScope[u] : OrgOf[k] = CallerOrg[u]
  BY CallsAssumption
<1>3. getTool(CallerScope[u]) # Nothing =>
        getTool(CallerScope[u]) \in Tools /\ OrgOf[ConnectorOf[getTool(CallerScope[u])]] = CallerOrg[u]
  BY <1>1, <1>2 DEF getTool, ToolsOfConnectors
<1>4. getToolForOrg(CallerOrg[u]) # Nothing =>
        getToolForOrg(CallerOrg[u]) \in Tools /\ OrgOf[ConnectorOf[getToolForOrg(CallerOrg[u])]] = CallerOrg[u]
  BY <1>1 DEF getToolForOrg, ToolsOfOrg
<1>5. FirstIn(Tools) # Nothing => FirstIn(Tools) \in Tools
  BY <1>1
<1>6. Resolved(u) # Nothing => Resolved(u) \in Tools
  BY <1>3, <1>4, <1>5 DEF Resolved
<1>7. u \in ServerCallers =>
        Resolved(u) = IF getTool(CallerScope[u]) # Nothing THEN getTool(CallerScope[u])
                      ELSE getToolForOrg(CallerOrg[u])
  BY DEF Resolved
<1> QED BY <1>3, <1>4, <1>6, <1>7

\* A connector is reloaded: its tools go and come back at the end.
LEMMA UnregisterKeeps ==
  ASSUME CallsTyped, NEW k, Unregister(k)
  PROVE  registered' \in UNION {Orders(S) : S \in SUBSET Tools}
<1> DEFINE rest == {registered[i] : i \in DOMAIN registered} \ ToolsOfConnectors({k})
<1>1. registered' \in Orders(rest)
  BY DEF Unregister
<1>2. PICK S \in SUBSET Tools : registered \in Orders(S)
  BY DEF CallsTyped
<1>3. {registered[i] : i \in DOMAIN registered} = S
  BY <1>2 DEF Orders
<1>4. rest \in SUBSET Tools
  BY <1>3
<1> HIDE DEF rest
<1> QED BY <1>1, <1>4

\* A tool put at the end of an order that lacks it.
LEMMA OrdersJoin ==
  ASSUME NEW S, NEW T, IsFiniteSet(S), IsFiniteSet(T), S \intersect T = {},
         NEW s \in Orders(S), NEW t \in Orders(T)
  PROVE  s \o t \in Orders(S \union T)
<1> DEFINE a == Cardinality(S)
           b == Cardinality(T)
<1>1. a \in Nat /\ b \in Nat /\ Cardinality(S \union T) = a + b
  <2>1. Cardinality(S \union T) = Cardinality(S) + Cardinality(T) - Cardinality(S \intersect T)
    BY FS_Union
  <2>2. Cardinality(S \intersect T) = 0
    BY FS_EmptySet
  <2>3. Cardinality(S) \in Nat /\ Cardinality(T) \in Nat
    BY FS_CardinalityType
  <2> QED BY <2>1, <2>2, <2>3
<1>2. s \in Seq(S \union T) /\ t \in Seq(S \union T) /\ Len(s) = a /\ Len(t) = b
      /\ s \in [1..a -> S] /\ t \in [1..b -> T]
      /\ {s[i] : i \in 1..a} = S /\ {t[i] : i \in 1..b} = T
  <2>1. s \in [1..a -> S] /\ t \in [1..b -> T]
    BY DEF Orders
  <2>2. s \in [1..a -> S \union T] /\ t \in [1..b -> S \union T]
    BY <2>1
  <2> HIDE DEF a, b
  <2>3. s \in Seq(S \union T) /\ t \in Seq(S \union T)
    BY <1>1, <2>2, SeqDef
  <2>4. DOMAIN s = 1..a /\ DOMAIN t = 1..b
    BY <2>1
  <2>5. Len(s) = a /\ Len(t) = b
    BY <1>1, <2>3, <2>4, LenProperties
  <2> QED BY <2>1, <2>3, <2>4, <2>5 DEF Orders
<1> DEFINE w == s \o t
<1> HIDE DEF a, b
<1>3. DOMAIN w = 1..(a + b)
      /\ (\A i \in 1..(a + b) : w[i] = IF i <= a THEN s[i] ELSE t[i - a])
  BY <1>1, <1>2
<1>4. \A i \in 1..(a + b) : w[i] \in S \union T
  <2> TAKE i \in 1..(a + b)
  <2>1. CASE i <= a
    BY <1>1, <1>2, <1>3, <2>1
  <2>2. CASE ~ i <= a
    <3>1. i - a \in 1..b
      BY <1>1, <2>2
    <3> QED BY <1>1, <1>2, <1>3, <2>2, <3>1
  <2> QED BY <2>1, <2>2
<1>5. ASSUME NEW x \in S \union T PROVE \E i \in 1..(a + b) : w[i] = x
  <2>1. CASE x \in S
    <3>1. PICK i \in 1..a : s[i] = x
      BY <1>2, <2>1
    <3>2. i \in 1..(a + b) /\ i <= a
      BY <1>1
    <3> QED BY <1>3, <3>1, <3>2
  <2>2. CASE x \in T
    <3>1. PICK i \in 1..b : t[i] = x
      BY <1>2, <2>2
    <3>2. i + a \in 1..(a + b) /\ ~ (i + a <= a) /\ (i + a) - a = i
      BY <1>1
    <3> QED BY <1>3, <3>1, <3>2
  <2> QED BY <2>1, <2>2
<1>6. w \in [1..(a + b) -> S \union T]
  <2>1. w \in Seq(S \union T)
    BY <1>2, ConcatProperties
  <2> HIDE DEF w
  <2>2. PICK n \in Nat : w \in [1..n -> S \union T]
    BY <2>1, SeqDef
  <2>3. DOMAIN w = 1..n
    BY <2>2
  <2> QED BY <2>2, <2>3, <1>3
<1>7. {w[i] : i \in DOMAIN w} = S \union T
  <2> HIDE DEF w
  <2> QED BY <1>3, <1>4, <1>5
<1>8. w \in [1..Cardinality(S \union T) -> S \union T]
  BY <1>1, <1>6 DEF a, b
<1> HIDE DEF w
<1>9. w \in Orders(S \union T)
  BY <1>7, <1>8 DEF Orders
<1> QED BY <1>9 DEF w

\* The tools of a connector are put back.
LEMMA RegisterKeeps ==
  ASSUME CallsTyped, NEW k, Register(k)
  PROVE  registered' \in UNION {Orders(S) : S \in SUBSET Tools}
<1> DEFINE T == ToolsOfConnectors({k})
<1>1. PICK S \in SUBSET Tools : registered \in Orders(S)
  BY DEF CallsTyped
<1>2. T \in SUBSET Tools
  BY DEF ToolsOfConnectors
<1>3. IsFiniteSet(S) /\ IsFiniteSet(T)
  BY <1>2, CallsAssumption, FS_Subset
<1>4. \A i \in DOMAIN registered : registered[i] \notin T
  BY FirstInIs DEF Register, getTool
<1>5. S \intersect T = {}
  BY <1>1, <1>4 DEF Orders
<1>6. PICK t \in Orders(T) : registered' = registered \o t
  BY DEF Register
<1> HIDE DEF T
<1>7. registered \o t \in Orders(S \union T)
  BY <1>1, <1>3, <1>5, OrdersJoin
<1> QED BY <1>2, <1>6, <1>7

RowType == [SUCCESS : 0..1, ERROR : 0..1]

\* One call goes on, and what is known of the others stays.
LEMMA CallGoes ==
  ASSUME CallsInv, NEW c \in Calls, NEW k \in CallType, call' = [call EXCEPT ![c] = k],
         NEW r \in RowType, rows' = [rows EXCEPT ![c] = r],
         NEW n \in 0..3, processed' = [processed EXCEPT ![c] = n],
         Held(k), Done(k, r, n)
  PROVE  /\ call' \in [Calls -> CallType]
         /\ rows' \in [Calls -> [SUCCESS : 0..1, ERROR : 0..1]]
         /\ processed' \in [Calls -> 0..3]
         /\ \A d \in Calls : Held(call'[d]) /\ Done(call'[d], rows'[d], processed'[d])
<1>1. /\ call \in [Calls -> CallType] /\ rows \in [Calls -> RowType] /\ processed \in [Calls -> 0..3]
      /\ \A d \in Calls : Held(call[d]) /\ Done(call[d], rows[d], processed[d])
  BY DEF CallsInv, CallsTyped, RowType
<1>2. call' \in [Calls -> CallType] /\ rows' \in [Calls -> RowType] /\ processed' \in [Calls -> 0..3]
  BY <1>1
<1>3. ASSUME NEW d \in Calls PROVE Held(call'[d]) /\ Done(call'[d], rows'[d], processed'[d])
  <2>1. CASE d = c
    <3>1. call'[d] = k /\ rows'[d] = r /\ processed'[d] = n
      BY <1>1, <2>1
    <3> QED BY <3>1
  <2>2. CASE d # c
    <3>1. call'[d] = call[d] /\ rows'[d] = rows[d] /\ processed'[d] = processed[d]
      BY <1>1, <2>2
    <3> QED BY <1>1, <3>1
  <2> QED BY <2>1, <2>2
<1> QED BY <1>2, <1>3 DEF RowType

\* A call goes on that is at no expire, and neither a counter nor an expire changes.
LEMMA CountersKept ==
  ASSUME CallsInv, NEW c \in Calls, NEW k, call' = [call EXCEPT ![c] = k],
         call[c].pc \notin {"windowExpire", "quotaExpire"},
         UNCHANGED <<window, quota, endless>>
  PROVE  CountersEnd'
<1>1. call \in [Calls -> CallType]
  BY DEF CallsInv, CallsTyped
<1>2. \A d \in Calls : call[d].pc \in {"windowExpire", "quotaExpire"} => call'[d] = call[d]
  BY <1>1
<1> QED BY <1>2 DEF CallsInv, CountersEnd, AtStep

\* What a call and its rows are.
LEMMA CallFacts ==
  ASSUME CallsInv, NEW c \in Calls
  PROVE  /\ call[c] \in CallType /\ rows[c] \in RowType /\ processed[c] \in 0..3
         /\ Held(call[c]) /\ Done(call[c], rows[c], processed[c])
         /\ rows = [rows EXCEPT ![c] = rows[c]] /\ processed = [processed EXCEPT ![c] = processed[c]]
BY DEF CallsInv, CallsTyped, RowType

\* A call with some fields changed.
LEMMA CallFields ==
  ASSUME NEW k \in CallType
  PROVE  /\ k.pc \in CallPlaces /\ k.by \in Callers \union {Nothing} /\ k.with \in Params \union {Nothing}
         /\ k.tool \in Tools \union {Nothing}
         /\ k.answer \in [tool : Tools, with : Params] \union {Nothing}
         /\ k.hit \in BOOLEAN /\ k.tries \in 0..2 /\ k.slow \in BOOLEAN /\ k.lost \in BOOLEAN
         /\ k.reply \in {"none", "result", "isError", "static"}
BY DEF CallType

\* A call changes its place, and what it has found.
LEMMA CallMoved ==
  ASSUME NEW k \in CallType, NEW pc \in CallPlaces
  PROVE  /\ [k EXCEPT !.pc = pc] \in CallType
         /\ [k EXCEPT !.pc = pc, !.lost = TRUE] \in CallType
         /\ \A t \in Tools \union {Nothing} : [k EXCEPT !.pc = pc, !.tool = t] \in CallType
BY DEF CallType

\* A call is at a place with what the cache gave it.
LEMMA CallFound ==
  ASSUME NEW k \in CallType, NEW pc \in CallPlaces, NEW hit \in BOOLEAN,
         NEW a \in [tool : Tools, with : Params] \union {Nothing}
  PROVE  [k EXCEPT !.pc = pc, !.hit = hit, !.answer = a] \in CallType
BY DEF CallType

\* A call goes on and leaves the registry and the counters alone.
LEMMA CallKept ==
  ASSUME CallsInv, NEW c \in Calls, NEW k \in CallType, call' = [call EXCEPT ![c] = k],
         call[c].pc \notin {"windowExpire", "quotaExpire"},
         NEW r \in RowType, rows' = [rows EXCEPT ![c] = r],
         NEW n \in 0..3, processed' = [processed EXCEPT ![c] = n],
         Held(k), Done(k, r, n),
         UNCHANGED <<registered, window, quota, endless, reloads>>,
         cache' \in [Keys -> [tool : Tools, with : Params] \union {Nothing}],
         milestone' \subseteq Callers, faults' \in 0..MaxFaults
  PROVE  CallsInv'
<1>1. /\ call' \in [Calls -> CallType]
      /\ rows' \in [Calls -> [SUCCESS : 0..1, ERROR : 0..1]]
      /\ processed' \in [Calls -> 0..3]
      /\ \A d \in Calls : Held(call'[d]) /\ Done(call'[d], rows'[d], processed'[d])
  BY CallGoes
<1>2. CountersEnd'
  BY CountersKept
<1>3. CallsTyped'
  BY <1>1 DEF CallsInv, CallsTyped
<1> QED BY <1>1, <1>2, <1>3 DEF CallsInv

\* The same, with nothing else changed but a fault counted.
LEMMA CallQuiet ==
  ASSUME CallsInv, NEW c \in Calls, NEW k \in CallType, call' = [call EXCEPT ![c] = k],
         call[c].pc \notin {"windowExpire", "quotaExpire"},
         Held(k), Done(k, rows[c], processed[c]),
         UNCHANGED <<registered, redisVars, auditVars, processed, reloads>>,
         faults' = faults \/ Fault
  PROVE  CallsInv'
<1>1. faults' \in 0..MaxFaults
  <2>1. faults \in 0..MaxFaults /\ MaxFaults \in Nat
    BY CallsAssumption DEF CallsInv, CallsTyped
  <2> QED BY <2>1 DEF Fault
<1>2. /\ rows[c] \in RowType /\ processed[c] \in 0..3
      /\ rows = [rows EXCEPT ![c] = rows[c]] /\ processed = [processed EXCEPT ![c] = processed[c]]
  BY CallFacts
<1>3. rows' = [rows EXCEPT ![c] = rows[c]] /\ processed' = [processed EXCEPT ![c] = processed[c]]
  BY <1>2 DEF auditVars
<1>4. UNCHANGED <<registered, window, quota, endless, reloads>>
  BY DEF redisVars
<1>5. cache' \in [Keys -> [tool : Tools, with : Params] \union {Nothing}] /\ milestone' \subseteq Callers
  BY DEF CallsInv, CallsTyped, redisVars, auditVars
<1> QED BY <1>1, <1>2, <1>3, <1>4, <1>5, CallKept

\* The places before the request.
LEMMA ArriveUncountedKeeps ==
  ASSUME CallsInv, NEW c \in Calls, NEW u \in Callers, NEW p \in Params, ArriveUncounted(c, u, p)
  PROVE  CallsInv'
<1> DEFINE k == [call[c] EXCEPT !.pc = "handle", !.by = u, !.with = p]
<1>1. call[c] \in CallType /\ call[c].pc = "new" /\ Held(call[c]) /\ Done(call[c], rows[c], processed[c])
  BY CallFacts DEF ArriveUncounted, AtStep
<1>2. k \in CallType
  BY <1>1 DEF CallType, CallPlaces
<1>3. /\ k.pc = "handle" /\ k.by = u /\ k.with = p /\ k.tool = call[c].tool /\ k.answer = call[c].answer
      /\ k.hit = call[c].hit /\ k.tries = call[c].tries /\ k.slow = call[c].slow /\ k.lost = call[c].lost
      /\ k.reply = call[c].reply
  BY <1>1 DEF CallType
<1>4. call' = [call EXCEPT ![c] = k] /\ Fault /\ UNCHANGED <<registered, redisVars, auditVars, processed, reloads>>
  BY DEF ArriveUncounted
<1> HIDE DEF k
<1>t. call[c].tool = Nothing
  BY <1>1 DEF Held
<1>5. Held(k)
  BY <1>1, <1>3, <1>t DEF Held, WithTool, Unasked
<1>6. Done(k, rows[c], processed[c])
  BY <1>1, <1>3 DEF Done, Unasked
<1> QED BY <1>1, <1>2, <1>4, <1>5, <1>6, CallQuiet

\* The handler of the endpoint picks a tool.
LEMMA HandleKeeps ==
  ASSUME CallsInv, NEW c \in Calls, Handle(c)
  PROVE  CallsInv'
<1>1. call[c] \in CallType /\ call[c].pc = "handle" /\ Held(call[c]) /\ Done(call[c], rows[c], processed[c])
  BY CallFacts DEF Handle, AtStep
<1>p. PICK pc \in {"license", "refused"} : call' = [call EXCEPT ![c].pc = pc]
  BY DEF Handle, Goto
<1> DEFINE k == [call[c] EXCEPT !.pc = pc]
<1>4. call' = [call EXCEPT ![c] = k] /\ (faults' = faults \/ Fault) /\ UNCHANGED <<registered, redisVars, auditVars, processed, reloads>>
  BY <1>p DEF Handle, Goto
<1>f. call[c].tries \in 0..2 /\ call[c].hit \in BOOLEAN /\ call[c].slow \in BOOLEAN /\ call[c].lost \in BOOLEAN
  BY <1>1, CallFields
<1>2. k \in CallType
  BY <1>1, <1>p DEF CallType, CallPlaces, Ended
<1>3. /\ k.pc = pc /\ k.by = call[c].by /\ k.with = call[c].with /\ k.tool = call[c].tool
      /\ k.answer = call[c].answer /\ k.hit = call[c].hit /\ k.tries = call[c].tries /\ k.slow = call[c].slow /\ k.lost = call[c].lost
      /\ k.reply = call[c].reply
  BY <1>1 DEF CallType
<1> HIDE DEF k
<1>5. Held(k)
  BY <1>1, <1>3, <1>p, <1>f DEF Held, WithTool, Unasked
<1>6. Done(k, rows[c], processed[c])
  BY <1>1, <1>3, <1>p, <1>f DEF Done, Unasked
<1> QED BY <1>1, <1>2, <1>4, <1>5, <1>6, CallQuiet

\* The license has run out: the call is refused.
LEMMA LicenseExpiredKeeps ==
  ASSUME CallsInv, NEW c \in Calls, LicenseExpired(c)
  PROVE  CallsInv'
<1>1. call[c] \in CallType /\ call[c].pc = "license" /\ Held(call[c]) /\ Done(call[c], rows[c], processed[c])
  BY CallFacts DEF LicenseExpired, AtStep
<1>p. PICK pc \in {"refused"} : call' = [call EXCEPT ![c].pc = pc]
  BY DEF LicenseExpired, Goto
<1> DEFINE k == [call[c] EXCEPT !.pc = pc]
<1>4. call' = [call EXCEPT ![c] = k] /\ (faults' = faults \/ Fault) /\ UNCHANGED <<registered, redisVars, auditVars, processed, reloads>>
  BY <1>p DEF LicenseExpired, Goto
<1>f. call[c].tries \in 0..2 /\ call[c].hit \in BOOLEAN /\ call[c].slow \in BOOLEAN /\ call[c].lost \in BOOLEAN
  BY <1>1, CallFields
<1>2. k \in CallType
  BY <1>1, <1>p DEF CallType, CallPlaces, Ended
<1>3. /\ k.pc = pc /\ k.by = call[c].by /\ k.with = call[c].with /\ k.tool = call[c].tool
      /\ k.answer = call[c].answer /\ k.hit = call[c].hit /\ k.tries = call[c].tries /\ k.slow = call[c].slow /\ k.lost = call[c].lost
      /\ k.reply = call[c].reply
  BY <1>1 DEF CallType
<1> HIDE DEF k
<1>5. Held(k)
  BY <1>1, <1>3, <1>p, <1>f DEF Held, WithTool, Unasked
<1>6. Done(k, rows[c], processed[c])
  BY <1>1, <1>3, <1>p, <1>f DEF Done, Unasked
<1> QED BY <1>1, <1>2, <1>4, <1>5, <1>6, CallQuiet

\* The license holds.
LEMMA LicenseKeeps ==
  ASSUME CallsInv, NEW c \in Calls, License(c)
  PROVE  CallsInv'
<1>1. call[c] \in CallType /\ call[c].pc = "license" /\ Held(call[c]) /\ Done(call[c], rows[c], processed[c])
  BY CallFacts DEF License, AtStep
<1>p. PICK pc \in {"refused", "lookup", "proxy", "request"}, t \in Tools \union {Nothing} :
        /\ call' = [call EXCEPT ![c].pc = pc, ![c].tool = t]
        /\ t = Nothing => pc = "refused"
        /\ t # Nothing /\ call[c].by \in ServerCallers => OrgOf[ConnectorOf[t]] = CallerOrg[call[c].by]
  <2>1. call[c].by \in Callers
    BY <1>1 DEF Held
  <2>2. /\ Resolved(call[c].by) \in Tools \union {Nothing}
        /\ call[c].by \in ServerCallers /\ Resolved(call[c].by) # Nothing =>
             OrgOf[ConnectorOf[Resolved(call[c].by)]] = CallerOrg[call[c].by]
    BY <2>1, ResolvedIs DEF CallsInv
  <2> QED BY <2>2 DEF License, AfterLookup
<1> DEFINE k == [call[c] EXCEPT !.pc = pc, !.tool = t]
<1>4. call' = [call EXCEPT ![c] = k] /\ (faults' = faults \/ Fault) /\ UNCHANGED <<registered, redisVars, auditVars, processed, reloads>>
  BY <1>p DEF License, Goto
<1>f. call[c].tries \in 0..2 /\ call[c].hit \in BOOLEAN /\ call[c].slow \in BOOLEAN /\ call[c].lost \in BOOLEAN
  BY <1>1, CallFields
<1>2. k \in CallType
  BY <1>1, <1>p DEF CallType, CallPlaces, Ended
<1>3. /\ k.pc = pc /\ k.by = call[c].by /\ k.with = call[c].with /\ k.tool = t
      /\ k.answer = call[c].answer /\ k.hit = call[c].hit /\ k.tries = call[c].tries /\ k.slow = call[c].slow /\ k.lost = call[c].lost
      /\ k.reply = call[c].reply
  BY <1>1 DEF CallType
<1> HIDE DEF k
<1>5. Held(k)
  BY <1>1, <1>3, <1>p, <1>f DEF Held, WithTool, Unasked
<1>6. Done(k, rows[c], processed[c])
  BY <1>1, <1>3, <1>p, <1>f DEF Done, Unasked
<1> QED BY <1>1, <1>2, <1>4, <1>5, <1>6, CallQuiet

\* The counter of the quota cannot be written.
LEMMA ChargeFailsKeeps ==
  ASSUME CallsInv, NEW c \in Calls, ChargeFails(c)
  PROVE  CallsInv'
<1>1. call[c] \in CallType /\ call[c].pc = "proxy" /\ Held(call[c]) /\ Done(call[c], rows[c], processed[c])
  BY CallFacts DEF ChargeFails, AtStep
<1>p. PICK pc \in {"request", "reject"} : call' = [call EXCEPT ![c].pc = pc]
  BY DEF ChargeFails, Goto
<1> DEFINE k == [call[c] EXCEPT !.pc = pc]
<1>4. call' = [call EXCEPT ![c] = k] /\ (faults' = faults \/ Fault) /\ UNCHANGED <<registered, redisVars, auditVars, processed, reloads>>
  BY <1>p DEF ChargeFails, Goto
<1>f. call[c].tries \in 0..2 /\ call[c].hit \in BOOLEAN /\ call[c].slow \in BOOLEAN /\ call[c].lost \in BOOLEAN
  BY <1>1, CallFields
<1>2. k \in CallType
  BY <1>1, <1>p DEF CallType, CallPlaces, Ended
<1>3. /\ k.pc = pc /\ k.by = call[c].by /\ k.with = call[c].with /\ k.tool = call[c].tool
      /\ k.answer = call[c].answer /\ k.hit = call[c].hit /\ k.tries = call[c].tries /\ k.slow = call[c].slow /\ k.lost = call[c].lost
      /\ k.reply = call[c].reply
  BY <1>1 DEF CallType
<1> HIDE DEF k
<1>5. Held(k)
  BY <1>1, <1>3, <1>p, <1>f DEF Held, WithTool, Unasked
<1>n. call[c].reply = "none"
  BY <1>1 DEF Held, Unasked
<1>6. Done(k, rows[c], processed[c])
  BY <1>1, <1>3, <1>n, <1>p, <1>f DEF Done, Unasked
<1> QED BY <1>1, <1>2, <1>4, <1>5, <1>6, CallQuiet

\* The row of a call that is turned away cannot be written.
LEMMA RejectUnrecordedKeeps ==
  ASSUME CallsInv, NEW c \in Calls, RejectUnrecorded(c)
  PROVE  CallsInv'
<1>1. call[c] \in CallType /\ call[c].pc = "reject" /\ Held(call[c]) /\ Done(call[c], rows[c], processed[c])
  BY CallFacts DEF RejectUnrecorded, AtStep
<1>p. TRUE
  OBVIOUS
<1> DEFINE k == [call[c] EXCEPT !.pc = "failed", !.lost = TRUE]
<1>4. call' = [call EXCEPT ![c] = k] /\ (faults' = faults \/ Fault) /\ UNCHANGED <<registered, redisVars, auditVars, processed, reloads>>
  BY <1>p DEF RejectUnrecorded, Goto
<1>f. call[c].tries \in 0..2 /\ call[c].hit \in BOOLEAN /\ call[c].slow \in BOOLEAN /\ call[c].lost \in BOOLEAN
  BY <1>1, CallFields
<1>2. k \in CallType
  BY <1>1, <1>p DEF CallType, CallPlaces, Ended
<1>3. /\ k.pc = "failed" /\ k.by = call[c].by /\ k.with = call[c].with /\ k.tool = call[c].tool
      /\ k.answer = call[c].answer /\ k.hit = call[c].hit /\ k.tries = call[c].tries /\ k.slow = call[c].slow /\ k.lost = TRUE
      /\ k.reply = call[c].reply
  BY <1>1 DEF CallType
<1> HIDE DEF k
<1>5. Held(k)
  BY <1>1, <1>3, <1>p, <1>f DEF Held, WithTool, Unasked
<1>6. Done(k, rows[c], processed[c])
  BY <1>1, <1>3, <1>p, <1>f DEF Done, Unasked
<1> QED BY <1>1, <1>2, <1>4, <1>5, <1>6, CallQuiet

\* Where a call goes after its row.
LEMMA AfterRecordIs ==
  ASSUME NEW c \in Calls
  PROVE  /\ AfterRecord(c) \in {"store", "answered", "failed"}
         /\ AfterRecord(c) \in {"store", "answered"} => call[c].reply # "isError"
         /\ AfterRecord(c) = "failed" => call[c].reply = "isError"
BY DEF AfterRecord

\* The audit row cannot be written.
LEMMA RecordFailsKeeps ==
  ASSUME CallsInv, NEW c \in Calls, RecordFails(c)
  PROVE  CallsInv'
<1>1. call[c] \in CallType /\ call[c].pc = "record" /\ Held(call[c]) /\ Done(call[c], rows[c], processed[c])
  BY CallFacts DEF RecordFails, AtStep
<1>p. PICK pc \in {"store", "answered", "failed", "reject"} :
        /\ call' = [call EXCEPT ![c].pc = pc, ![c].lost = TRUE]
        /\ pc \in {"store", "answered"} => call[c].reply # "isError"
  BY AfterRecordIs DEF RecordFails
<1>q. call[c].tool \in Tools
  BY <1>1 DEF Held, WithTool, Unasked
<1> DEFINE k == [call[c] EXCEPT !.pc = pc, !.lost = TRUE]
<1>4. call' = [call EXCEPT ![c] = k] /\ (faults' = faults \/ Fault) /\ UNCHANGED <<registered, redisVars, auditVars, processed, reloads>>
  BY <1>p DEF RecordFails, Goto
<1>f. call[c].tries \in 0..2 /\ call[c].hit \in BOOLEAN /\ call[c].slow \in BOOLEAN /\ call[c].lost \in BOOLEAN
  BY <1>1, CallFields
<1>2. k \in CallType
  BY <1>1, <1>p DEF CallType, CallPlaces, Ended
<1>3. /\ k.pc = pc /\ k.by = call[c].by /\ k.with = call[c].with /\ k.tool = call[c].tool
      /\ k.answer = call[c].answer /\ k.hit = call[c].hit /\ k.tries = call[c].tries /\ k.slow = call[c].slow /\ k.lost = TRUE
      /\ k.reply = call[c].reply
  BY <1>1 DEF CallType
<1> HIDE DEF k
<1>5. Held(k)
  BY <1>1, <1>3, <1>p, <1>f DEF Held, WithTool, Unasked
<1>6. Done(k, rows[c], processed[c])
  BY <1>1, <1>3, <1>p, <1>f DEF Done, Unasked
<1> QED BY <1>1, <1>2, <1>4, <1>5, <1>6, CallQuiet

\* The cache is asked.
LEMMA LookupKeeps ==
  ASSUME CallsInv, NEW c \in Calls, Lookup(c)
  PROVE  CallsInv'
<1>1. call[c] \in CallType /\ call[c].pc = "lookup" /\ Held(call[c]) /\ Done(call[c], rows[c], processed[c])
  BY CallFacts DEF Lookup, AtStep
<1>p. PICK pc \in {"answered", "proxy", "request"}, hit \in BOOLEAN, a \in [tool : Tools, with : Params] \union {Nothing} :
        /\ call' = [call EXCEPT ![c].pc = pc, ![c].hit = hit, ![c].answer = a]
        /\ hit <=> pc = "answered"
  <2>1. call[c].with \in Params
    BY <1>1 DEF Held
  <2>2. cache[Digest[call[c].with]] \in [tool : Tools, with : Params] \union {Nothing}
    BY <2>1 DEF CallsInv, CallsTyped, Keys
  <2>3. call[c].hit = FALSE /\ call[c].answer \in [tool : Tools, with : Params] \union {Nothing}
    BY <1>1, CallFields DEF Held
  <2>4. CASE cache[Digest[call[c].with]] # Nothing
    BY <2>2, <2>4 DEF Lookup
  <2>5. CASE cache[Digest[call[c].with]] = Nothing
    <3>1. PICK pc \in {"proxy", "request"} : call' = [call EXCEPT ![c].pc = pc]
      BY <2>5 DEF Lookup, AfterLookup
    <3>2. [call[c] EXCEPT !.pc = pc] = [call[c] EXCEPT !.pc = pc, !.hit = FALSE, !.answer = call[c].answer]
      BY <1>1, <2>3 DEF CallType
    <3>3. call' = [call EXCEPT ![c].pc = pc, ![c].hit = FALSE, ![c].answer = call[c].answer]
      BY <3>1, <3>2
    <3> QED BY <2>3, <3>3
  <2> QED BY <2>4, <2>5
<1> DEFINE k == [call[c] EXCEPT !.pc = pc, !.hit = hit, !.answer = a]
<1>4. call' = [call EXCEPT ![c] = k] /\ (faults' = faults \/ Fault) /\ UNCHANGED <<registered, redisVars, auditVars, processed, reloads>>
  BY <1>p DEF Lookup, Goto
<1>f. call[c].tries \in 0..2 /\ call[c].hit \in BOOLEAN /\ call[c].slow \in BOOLEAN /\ call[c].lost \in BOOLEAN
  BY <1>1, CallFields
<1>2. k \in CallType
  <2>1. pc \in CallPlaces
    BY <1>p DEF CallPlaces, Ended
  <2> QED BY <1>1, <1>p, <2>1, CallFound
<1>3. /\ k.pc = pc /\ k.by = call[c].by /\ k.with = call[c].with /\ k.tool = call[c].tool
      /\ k.answer = a /\ k.hit = hit /\ k.tries = call[c].tries /\ k.slow = call[c].slow /\ k.lost = call[c].lost
      /\ k.reply = call[c].reply
  BY <1>1 DEF CallType
<1> HIDE DEF k
<1>5. Held(k)
  BY <1>1, <1>3, <1>p, <1>f DEF Held, WithTool, Unasked
<1>6. Done(k, rows[c], processed[c])
  BY <1>1, <1>3, <1>p, <1>f DEF Done, Unasked
<1> QED BY <1>1, <1>2, <1>4, <1>5, <1>6, CallQuiet

\* The cache cannot be read.
LEMMA LookupFailsKeeps ==
  ASSUME CallsInv, NEW c \in Calls, LookupFails(c)
  PROVE  CallsInv'
<1>1. call[c] \in CallType /\ call[c].pc = "lookup" /\ Held(call[c]) /\ Done(call[c], rows[c], processed[c])
  BY CallFacts DEF LookupFails, AtStep
<1>p. PICK pc \in {"proxy", "request", "failed"}, lost \in BOOLEAN :
        /\ call' = [call EXCEPT ![c].pc = pc, ![c].lost = lost]
        /\ pc \in {"failed"} => lost
        /\ pc \in {"proxy", "request"} => lost = call[c].lost
  <2>1. call[c].lost \in BOOLEAN
    BY <1>1, CallFields
  <2>2. ASSUME NEW pc \in {"proxy", "request"}, Goto(c, pc) PROVE call' = [call EXCEPT ![c].pc = pc, ![c].lost = call[c].lost]
    <3>1. [call[c] EXCEPT !.pc = pc] = [call[c] EXCEPT !.pc = pc, !.lost = call[c].lost]
      BY <1>1 DEF CallType
    <3> QED BY <2>2, <3>1 DEF Goto
  <2> QED BY <2>1, <2>2 DEF LookupFails, AfterLookup
<1> DEFINE k == [call[c] EXCEPT !.pc = pc, !.lost = lost]
<1>4. call' = [call EXCEPT ![c] = k] /\ (faults' = faults \/ Fault) /\ UNCHANGED <<registered, redisVars, auditVars, processed, reloads>>
  BY <1>p DEF LookupFails, Goto
<1>f. call[c].tries \in 0..2 /\ call[c].hit \in BOOLEAN /\ call[c].slow \in BOOLEAN /\ call[c].lost \in BOOLEAN
  BY <1>1, CallFields
<1>2. k \in CallType
  BY <1>1, <1>p DEF CallType, CallPlaces, Ended
<1>3. /\ k.pc = pc /\ k.by = call[c].by /\ k.with = call[c].with /\ k.tool = call[c].tool
      /\ k.answer = call[c].answer /\ k.hit = call[c].hit /\ k.tries = call[c].tries /\ k.slow = call[c].slow /\ k.lost = lost
      /\ k.reply = call[c].reply
  BY <1>1 DEF CallType
<1> HIDE DEF k
<1>5. Held(k)
  BY <1>1, <1>3, <1>p, <1>f DEF Held, WithTool, Unasked
<1>6. Done(k, rows[c], processed[c])
  BY <1>1, <1>3, <1>p, <1>f DEF Done, Unasked
<1> QED BY <1>1, <1>2, <1>4, <1>5, <1>6, CallQuiet

\* The answer cannot be kept.
LEMMA StoreFailsKeeps ==
  ASSUME CallsInv, NEW c \in Calls, StoreFails(c)
  PROVE  CallsInv'
<1>1. call[c] \in CallType /\ call[c].pc = "store" /\ Held(call[c]) /\ Done(call[c], rows[c], processed[c])
  BY CallFacts DEF StoreFails, AtStep
<1>p. PICK pc \in {"answered", "reject"}, lost \in BOOLEAN :
        /\ call' = [call EXCEPT ![c].pc = pc, ![c].lost = lost]
        /\ pc \in {"reject"} => lost
        /\ pc \in {"answered"} => lost = call[c].lost
  <2>1. call[c].lost \in BOOLEAN
    BY <1>1, CallFields
  <2>2. ASSUME NEW pc \in {"answered"}, Goto(c, pc) PROVE call' = [call EXCEPT ![c].pc = pc, ![c].lost = call[c].lost]
    <3>1. [call[c] EXCEPT !.pc = pc] = [call[c] EXCEPT !.pc = pc, !.lost = call[c].lost]
      BY <1>1 DEF CallType
    <3> QED BY <2>2, <3>1 DEF Goto
  <2> QED BY <2>1, <2>2 DEF StoreFails
<1> DEFINE k == [call[c] EXCEPT !.pc = pc, !.lost = lost]
<1>4. call' = [call EXCEPT ![c] = k] /\ (faults' = faults \/ Fault) /\ UNCHANGED <<registered, redisVars, auditVars, processed, reloads>>
  BY <1>p DEF StoreFails, Goto
<1>f. call[c].tries \in 0..2 /\ call[c].hit \in BOOLEAN /\ call[c].slow \in BOOLEAN /\ call[c].lost \in BOOLEAN
  BY <1>1, CallFields
<1>2. k \in CallType
  BY <1>1, <1>p DEF CallType, CallPlaces, Ended
<1>3. /\ k.pc = pc /\ k.by = call[c].by /\ k.with = call[c].with /\ k.tool = call[c].tool
      /\ k.answer = call[c].answer /\ k.hit = call[c].hit /\ k.tries = call[c].tries /\ k.slow = call[c].slow /\ k.lost = lost
      /\ k.reply = call[c].reply
  BY <1>1 DEF CallType
<1> HIDE DEF k
<1>5. Held(k)
  BY <1>1, <1>3, <1>p, <1>f DEF Held, WithTool, Unasked
<1>6. Done(k, rows[c], processed[c])
  BY <1>1, <1>3, <1>p, <1>f DEF Done, Unasked
<1> QED BY <1>1, <1>2, <1>4, <1>5, <1>6, CallQuiet

\* The engine returns: a result, an isError or a static response.
LEMMA RespondKeeps ==
  ASSUME CallsInv, NEW c \in Calls, Respond(c) \/ RespondIsError(c) \/ RespondStatic(c)
  PROVE  CallsInv'
<1>1. /\ call[c] \in CallType /\ call[c].pc = "request" /\ Held(call[c]) /\ Done(call[c], rows[c], processed[c])
      /\ rows[c] \in RowType /\ processed[c] \in 0..3
      /\ rows = [rows EXCEPT ![c] = rows[c]] /\ processed = [processed EXCEPT ![c] = processed[c]]
  BY CallFacts DEF Respond, RespondIsError, RespondStatic, Returned, AtStep
<1>f. /\ call[c].hit \in BOOLEAN /\ call[c].slow \in BOOLEAN /\ call[c].lost \in BOOLEAN /\ call[c].tries \in 0..2
      /\ call[c].tool \in Tools \union {Nothing} /\ call[c].with \in Params \union {Nothing}
  BY <1>1, CallFields
<1>h. rows[c].SUCCESS \in 0..1 /\ rows[c].ERROR \in 0..1
  BY <1>1 DEF RowType
<1>p. call[c].tool \in Tools /\ call[c].with \in Params
  BY <1>1 DEF Held, WithTool, Unasked
<1>m. PICK said \in {"result", "isError", "static"}, m \in {processed[c], processed[c] + 1} :
        /\ Returned(c, said) /\ processed' = [processed EXCEPT ![c] = m]
        /\ said = "result" => m = processed[c] + 1
  BY <1>1 DEF Respond, RespondIsError, RespondStatic, Executed
<1> DEFINE k == [call[c] EXCEPT !.pc = "record", !.tries = 0, !.reply = said,
                             !.answer = [tool |-> call[c].tool, with |-> call[c].with]]
           r == rows[c]
           n == m
<1>4. call' = [call EXCEPT ![c] = k]
  BY <1>m, <1>1 DEF Returned
<1>z. 0 \in 0..2
  OBVIOUS
<1>2. k \in CallType
  BY <1>1, <1>m, <1>p, <1>f, <1>z DEF CallType, CallPlaces, Ended
<1>7. r \in RowType /\ rows' = [rows EXCEPT ![c] = r]
  BY <1>1, <1>m, <1>h DEF Returned, auditVars
<1>8. n \in 0..3 /\ processed' = [processed EXCEPT ![c] = n]
  BY <1>1, <1>m, <1>f DEF Done
<1>3. /\ k.pc = "record" /\ k.by = call[c].by /\ k.with = call[c].with /\ k.tool = call[c].tool
      /\ k.answer = [tool |-> call[c].tool, with |-> call[c].with] /\ k.hit = call[c].hit /\ k.tries = 0 /\ k.slow = call[c].slow /\ k.lost = call[c].lost
      /\ k.reply = said
  BY <1>1 DEF CallType
<1>r. r = rows[c]
  BY <1>1 DEF RowType
<1>9. /\ UNCHANGED <<registered, window, quota, endless, reloads>>
      /\ cache' \in [Keys -> [tool : Tools, with : Params] \union {Nothing}]
      /\ milestone' \subseteq Callers /\ faults' \in 0..MaxFaults
  BY <1>m DEF Returned, CallsInv, CallsTyped, redisVars, auditVars, Held, Keys
<1>v. n = m
  OBVIOUS
<1> HIDE DEF k, r, n
<1>5. Held(k)
  BY <1>1, <1>3, <1>m, <1>p, <1>f DEF Held, WithTool, Unasked
<1>6. Done(k, r, n)
  BY <1>1, <1>3, <1>m, <1>f, <1>h, <1>r, <1>v, <1>7 DEF Done, Unasked, Held
<1> QED BY <1>1, <1>2, <1>4, <1>5, <1>6, <1>7, <1>8, <1>9, CallKept

\* The origin answers with an error.
LEMMA RespondErrorKeeps ==
  ASSUME CallsInv, NEW c \in Calls, RespondError(c)
  PROVE  CallsInv'
<1>1. /\ call[c] \in CallType /\ call[c].pc = "request" /\ Held(call[c]) /\ Done(call[c], rows[c], processed[c])
      /\ rows[c] \in RowType /\ processed[c] \in 0..3
      /\ rows = [rows EXCEPT ![c] = rows[c]] /\ processed = [processed EXCEPT ![c] = processed[c]]
  BY CallFacts DEF RespondError, AtStep
<1>f. /\ call[c].hit \in BOOLEAN /\ call[c].slow \in BOOLEAN /\ call[c].lost \in BOOLEAN /\ call[c].tries \in 0..2
      /\ call[c].tool \in Tools \union {Nothing} /\ call[c].with \in Params \union {Nothing}
  BY <1>1, CallFields
<1>h. rows[c].SUCCESS \in 0..1 /\ rows[c].ERROR \in 0..1
  BY <1>1 DEF RowType
<1>p. PICK m \in {processed[c], processed[c] + 1} : processed' = [processed EXCEPT ![c] = m]
  BY <1>1 DEF RespondError, Executed
<1> DEFINE k == [call[c] EXCEPT !.pc = "reject", !.tries = 0]
           r == rows[c]
           n == m
<1>4. call' = [call EXCEPT ![c] = k]
  BY <1>p, <1>1 DEF RespondError, NotRetried
<1>z. 0 \in 0..2
  OBVIOUS
<1>2. k \in CallType
  BY <1>1, <1>p, <1>f, <1>z DEF CallType, CallPlaces, Ended
<1>7. r \in RowType /\ rows' = [rows EXCEPT ![c] = r]
  BY <1>1, <1>p, <1>h DEF RespondError, auditVars, Recorded, RowType, Done, Unasked
<1>8. n \in 0..3 /\ processed' = [processed EXCEPT ![c] = n]
  BY <1>1, <1>p, <1>f DEF RespondError, Executed, Done
<1>3. /\ k.pc = "reject" /\ k.by = call[c].by /\ k.with = call[c].with /\ k.tool = call[c].tool
      /\ k.answer = call[c].answer /\ k.hit = call[c].hit /\ k.tries = 0 /\ k.slow = call[c].slow /\ k.lost = call[c].lost
      /\ k.reply = call[c].reply
  BY <1>1 DEF CallType
<1>r. r = rows[c]
  BY <1>1 DEF RowType
<1>9. /\ UNCHANGED <<registered, window, quota, endless, reloads>>
      /\ cache' \in [Keys -> [tool : Tools, with : Params] \union {Nothing}]
      /\ milestone' \subseteq Callers /\ faults' \in 0..MaxFaults
  BY <1>1 DEF RespondError, CallsInv, CallsTyped, redisVars, auditVars, Held, Keys
<1>v. n = m
  OBVIOUS
<1> HIDE DEF k, r, n
<1>5. Held(k)
  BY <1>1, <1>3, <1>p, <1>f DEF Held, WithTool, Unasked
<1>6. Done(k, r, n)
  BY <1>1, <1>3, <1>p, <1>f, <1>h, <1>r, <1>v, <1>7 DEF Done, Unasked, Held
<1> QED BY <1>1, <1>2, <1>4, <1>5, <1>6, <1>7, <1>8, <1>9, CallKept

\* The origin answers with an error that may pass.
LEMMA TransientKeeps ==
  ASSUME CallsInv, NEW c \in Calls, Transient(c)
  PROVE  CallsInv'
<1>1. /\ call[c] \in CallType /\ call[c].pc = "request" /\ Held(call[c]) /\ Done(call[c], rows[c], processed[c])
      /\ rows[c] \in RowType /\ processed[c] \in 0..3
      /\ rows = [rows EXCEPT ![c] = rows[c]] /\ processed = [processed EXCEPT ![c] = processed[c]]
  BY CallFacts DEF Transient, AtStep
<1>f. /\ call[c].hit \in BOOLEAN /\ call[c].slow \in BOOLEAN /\ call[c].lost \in BOOLEAN /\ call[c].tries \in 0..2
      /\ call[c].tool \in Tools \union {Nothing} /\ call[c].with \in Params \union {Nothing}
  BY <1>1, CallFields
<1>h. rows[c].SUCCESS \in 0..1 /\ rows[c].ERROR \in 0..1
  BY <1>1 DEF RowType
<1>p. PICK pc \in {"request", "reject"}, t \in 0..2, s \in BOOLEAN, m \in {processed[c], processed[c] + 1} :
        /\ call' = [call EXCEPT ![c].pc = pc, ![c].tries = t, ![c].slow = s]
        /\ processed' = [processed EXCEPT ![c] = m]
        /\ pc = "request" => t = call[c].tries + 1
        /\ pc = "reject" => t = 0
        /\ m = processed[c] + 1 => s
        /\ call[c].slow => s
  <2>1. PICK slow \in BOOLEAN :
          /\ IF slow THEN Executed(c) ELSE UNCHANGED processed
          /\ call' = [Retried(c) EXCEPT ![c].slow = @ \/ slow]
    BY DEF Transient
  <2> DEFINE pc == IF Retries(c) THEN "request" ELSE "reject"
             t  == IF Retries(c) THEN call[c].tries + 1 ELSE 0
             s  == call[c].slow \/ slow
             m  == IF slow THEN processed[c] + 1 ELSE processed[c]
  <2>2. call \in [Calls -> CallType]
    BY DEF CallsInv, CallsTyped
  <2>3. Retried(c) = [call EXCEPT ![c] = [call[c] EXCEPT !.pc = pc, !.tries = t]]
    BY <1>1, <2>2 DEF Retried, CallType
  <2>4. [call[c] EXCEPT !.pc = pc, !.tries = t].slow = call[c].slow
    BY <1>1 DEF CallType
  <2>5. call' = [call EXCEPT ![c].pc = pc, ![c].tries = t, ![c].slow = s]
    <3> HIDE DEF pc, t
    <3> QED BY <2>1, <2>2, <2>3, <2>4
  <2>6. processed' = [processed EXCEPT ![c] = m]
    BY <1>1, <2>1 DEF Executed
  <2>7. /\ pc \in {"request", "reject"} /\ t \in 0..2 /\ m \in {processed[c], processed[c] + 1}
        /\ pc = "request" => t = call[c].tries + 1
        /\ pc = "reject" => t = 0
    BY <1>f DEF Retries
  <2>8. s \in BOOLEAN /\ (m = processed[c] + 1 => s) /\ (call[c].slow => s)
    BY <1>1, <1>f
  <2> HIDE DEF pc, t, s, m
  <2> QED BY <2>5, <2>6, <2>7, <2>8
<1> DEFINE k == [call[c] EXCEPT !.pc = pc, !.tries = t, !.slow = s]
           r == rows[c]
           n == m
<1>4. call' = [call EXCEPT ![c] = k]
  BY <1>p, <1>1 DEF Transient, Goto
<1>z. 0 \in 0..2
  OBVIOUS
<1>2. k \in CallType
  BY <1>1, <1>p, <1>f, <1>z DEF CallType, CallPlaces, Ended
<1>7. r \in RowType /\ rows' = [rows EXCEPT ![c] = r]
  BY <1>1, <1>p, <1>h DEF Transient, auditVars, Recorded, RowType, Done, Unasked
<1>8. n \in 0..3 /\ processed' = [processed EXCEPT ![c] = n]
  BY <1>1, <1>p, <1>f DEF Transient, Executed, Done
<1>3. /\ k.pc = pc /\ k.by = call[c].by /\ k.with = call[c].with /\ k.tool = call[c].tool
      /\ k.answer = call[c].answer /\ k.hit = call[c].hit /\ k.tries = t /\ k.slow = s /\ k.lost = call[c].lost
      /\ k.reply = call[c].reply
  BY <1>1 DEF CallType
<1>r. r = rows[c]
  BY <1>1 DEF RowType
<1>9. /\ UNCHANGED <<registered, window, quota, endless, reloads>>
      /\ cache' \in [Keys -> [tool : Tools, with : Params] \union {Nothing}]
      /\ milestone' \subseteq Callers /\ faults' \in 0..MaxFaults
  BY <1>1 DEF Transient, CallsInv, CallsTyped, redisVars, auditVars, Held, Keys
<1>v. n = m
  OBVIOUS
<1> HIDE DEF k, r, n
<1>5. Held(k)
  BY <1>1, <1>3, <1>p, <1>f DEF Held, WithTool, Unasked
<1>6. Done(k, r, n)
  BY <1>1, <1>3, <1>p, <1>f, <1>h, <1>r, <1>v, <1>7 DEF Done, Unasked, Held
<1> QED BY <1>1, <1>2, <1>4, <1>5, <1>6, <1>7, <1>8, <1>9, CallKept

\* The audit row is written.
LEMMA RecordKeeps ==
  ASSUME CallsInv, NEW c \in Calls, Record(c)
  PROVE  CallsInv'
<1>1. /\ call[c] \in CallType /\ call[c].pc = "record" /\ Held(call[c]) /\ Done(call[c], rows[c], processed[c])
      /\ rows[c] \in RowType /\ processed[c] \in 0..3
      /\ rows = [rows EXCEPT ![c] = rows[c]] /\ processed = [processed EXCEPT ![c] = processed[c]]
  BY CallFacts DEF Record, AtStep
<1>f. /\ call[c].hit \in BOOLEAN /\ call[c].slow \in BOOLEAN /\ call[c].lost \in BOOLEAN /\ call[c].tries \in 0..2
      /\ call[c].tool \in Tools \union {Nothing} /\ call[c].with \in Params \union {Nothing}
  BY <1>1, CallFields
<1>h. rows[c].SUCCESS \in 0..1 /\ rows[c].ERROR \in 0..1
  BY <1>1 DEF RowType
<1>p. TRUE
  OBVIOUS
<1> DEFINE k == [call[c] EXCEPT !.pc = "stamp"]
           r == [rows[c] EXCEPT !.SUCCESS = @ + 1]
           n == processed[c]
<1>4. call' = [call EXCEPT ![c] = k]
  BY <1>p, <1>1 DEF Record, Goto
<1>z. 0 \in 0..2
  OBVIOUS
<1>2. k \in CallType
  BY <1>1, <1>p, <1>f, <1>z DEF CallType, CallPlaces, Ended
<1>7. r \in RowType /\ rows' = [rows EXCEPT ![c] = r]
  BY <1>1, <1>p, <1>h DEF Record, auditVars, Recorded, RowType, Done, Unasked
<1>8. n \in 0..3 /\ processed' = [processed EXCEPT ![c] = n]
  BY <1>1, <1>p, <1>f DEF Record, Executed, Done
<1>3. /\ k.pc = "stamp" /\ k.by = call[c].by /\ k.with = call[c].with /\ k.tool = call[c].tool
      /\ k.answer = call[c].answer /\ k.hit = call[c].hit /\ k.tries = call[c].tries /\ k.slow = call[c].slow /\ k.lost = call[c].lost
      /\ k.reply = call[c].reply
  BY <1>1 DEF CallType
<1>r. r.SUCCESS = rows[c].SUCCESS + 1 /\ r.ERROR = rows[c].ERROR
  BY <1>1 DEF RowType
<1>9. /\ UNCHANGED <<registered, window, quota, endless, reloads>>
      /\ cache' \in [Keys -> [tool : Tools, with : Params] \union {Nothing}]
      /\ milestone' \subseteq Callers /\ faults' \in 0..MaxFaults
  BY <1>1 DEF Record, CallsInv, CallsTyped, redisVars, auditVars, Held, Keys
<1>v. n = processed[c]
  OBVIOUS
<1> HIDE DEF k, r, n
<1>5. Held(k)
  BY <1>1, <1>3, <1>p, <1>f DEF Held, WithTool, Unasked
<1>6. Done(k, r, n)
  BY <1>1, <1>3, <1>p, <1>f, <1>h, <1>r, <1>v, <1>7 DEF Done, Unasked, Held
<1> QED BY <1>1, <1>2, <1>4, <1>5, <1>6, <1>7, <1>8, <1>9, CallKept

\* The milestone is stamped.
LEMMA StampKeeps ==
  ASSUME CallsInv, NEW c \in Calls, Stamp(c)
  PROVE  CallsInv'
<1>1. /\ call[c] \in CallType /\ call[c].pc = "stamp" /\ Held(call[c]) /\ Done(call[c], rows[c], processed[c])
      /\ rows[c] \in RowType /\ processed[c] \in 0..3
      /\ rows = [rows EXCEPT ![c] = rows[c]] /\ processed = [processed EXCEPT ![c] = processed[c]]
  BY CallFacts DEF Stamp, AtStep
<1>f. /\ call[c].hit \in BOOLEAN /\ call[c].slow \in BOOLEAN /\ call[c].lost \in BOOLEAN /\ call[c].tries \in 0..2
      /\ call[c].tool \in Tools \union {Nothing} /\ call[c].with \in Params \union {Nothing}
  BY <1>1, CallFields
<1>h. rows[c].SUCCESS \in 0..1 /\ rows[c].ERROR \in 0..1
  BY <1>1 DEF RowType
<1>p. PICK pc \in {"store", "answered", "failed"} :
        /\ call' = [call EXCEPT ![c].pc = pc]
        /\ pc \in {"store", "answered"} => call[c].reply # "isError"
        /\ pc = "failed" => call[c].reply = "isError"
  BY AfterRecordIs DEF Stamp, Goto
<1>q. call[c].tool \in Tools
  BY <1>1 DEF Held, WithTool, Unasked
<1> DEFINE k == [call[c] EXCEPT !.pc = pc]
           r == rows[c]
           n == processed[c]
<1>4. call' = [call EXCEPT ![c] = k]
  BY <1>p, <1>1 DEF Stamp, Goto
<1>z. 0 \in 0..2
  OBVIOUS
<1>2. k \in CallType
  BY <1>1, <1>p, <1>f, <1>z DEF CallType, CallPlaces, Ended
<1>7. r \in RowType /\ rows' = [rows EXCEPT ![c] = r]
  BY <1>1, <1>p, <1>h DEF Stamp, auditVars, Recorded, RowType, Done, Unasked
<1>8. n \in 0..3 /\ processed' = [processed EXCEPT ![c] = n]
  BY <1>1, <1>p, <1>f DEF Stamp, Executed, Done
<1>3. /\ k.pc = pc /\ k.by = call[c].by /\ k.with = call[c].with /\ k.tool = call[c].tool
      /\ k.answer = call[c].answer /\ k.hit = call[c].hit /\ k.tries = call[c].tries /\ k.slow = call[c].slow /\ k.lost = call[c].lost
      /\ k.reply = call[c].reply
  BY <1>1 DEF CallType
<1>r. r = rows[c]
  BY <1>1 DEF RowType
<1>9. /\ UNCHANGED <<registered, window, quota, endless, reloads>>
      /\ cache' \in [Keys -> [tool : Tools, with : Params] \union {Nothing}]
      /\ milestone' \subseteq Callers /\ faults' \in 0..MaxFaults
  BY <1>1 DEF Stamp, CallsInv, CallsTyped, redisVars, auditVars, Held, Keys
<1>v. n = processed[c]
  OBVIOUS
<1> HIDE DEF k, r, n
<1>5. Held(k)
  BY <1>1, <1>3, <1>p, <1>f DEF Held, WithTool, Unasked
<1>6. Done(k, r, n)
  BY <1>1, <1>3, <1>p, <1>f, <1>h, <1>r, <1>v, <1>7 DEF Done, Unasked, Held
<1> QED BY <1>1, <1>2, <1>4, <1>5, <1>6, <1>7, <1>8, <1>9, CallKept

\* The answer is kept.
LEMMA StoreKeeps ==
  ASSUME CallsInv, NEW c \in Calls, Store(c)
  PROVE  CallsInv'
<1>1. /\ call[c] \in CallType /\ call[c].pc = "store" /\ Held(call[c]) /\ Done(call[c], rows[c], processed[c])
      /\ rows[c] \in RowType /\ processed[c] \in 0..3
      /\ rows = [rows EXCEPT ![c] = rows[c]] /\ processed = [processed EXCEPT ![c] = processed[c]]
  BY CallFacts DEF Store, AtStep
<1>f. /\ call[c].hit \in BOOLEAN /\ call[c].slow \in BOOLEAN /\ call[c].lost \in BOOLEAN /\ call[c].tries \in 0..2
      /\ call[c].tool \in Tools \union {Nothing} /\ call[c].with \in Params \union {Nothing}
  BY <1>1, CallFields
<1>h. rows[c].SUCCESS \in 0..1 /\ rows[c].ERROR \in 0..1
  BY <1>1 DEF RowType
<1>p. TRUE
  OBVIOUS
<1> DEFINE k == [call[c] EXCEPT !.pc = "answered"]
           r == rows[c]
           n == processed[c]
<1>4. call' = [call EXCEPT ![c] = k]
  BY <1>p, <1>1 DEF Store, Goto
<1>z. 0 \in 0..2
  OBVIOUS
<1>2. k \in CallType
  BY <1>1, <1>p, <1>f, <1>z DEF CallType, CallPlaces, Ended
<1>7. r \in RowType /\ rows' = [rows EXCEPT ![c] = r]
  BY <1>1, <1>p, <1>h DEF Store, auditVars, Recorded, RowType, Done, Unasked
<1>8. n \in 0..3 /\ processed' = [processed EXCEPT ![c] = n]
  BY <1>1, <1>p, <1>f DEF Store, Executed, Done
<1>3. /\ k.pc = "answered" /\ k.by = call[c].by /\ k.with = call[c].with /\ k.tool = call[c].tool
      /\ k.answer = call[c].answer /\ k.hit = call[c].hit /\ k.tries = call[c].tries /\ k.slow = call[c].slow /\ k.lost = call[c].lost
      /\ k.reply = call[c].reply
  BY <1>1 DEF CallType
<1>r. r = rows[c]
  BY <1>1 DEF RowType
<1>9. /\ UNCHANGED <<registered, window, quota, endless, reloads>>
      /\ cache' \in [Keys -> [tool : Tools, with : Params] \union {Nothing}]
      /\ milestone' \subseteq Callers /\ faults' \in 0..MaxFaults
  BY <1>1 DEF Store, CallsInv, CallsTyped, redisVars, auditVars, Held, Keys
<1>v. n = processed[c]
  OBVIOUS
<1> HIDE DEF k, r, n
<1>5. Held(k)
  BY <1>1, <1>3, <1>p, <1>f DEF Held, WithTool, Unasked
<1>6. Done(k, r, n)
  BY <1>1, <1>3, <1>p, <1>f, <1>h, <1>r, <1>v, <1>7 DEF Done, Unasked, Held
<1> QED BY <1>1, <1>2, <1>4, <1>5, <1>6, <1>7, <1>8, <1>9, CallKept

\* The row of a call that is turned away is written.
LEMMA RejectKeeps ==
  ASSUME CallsInv, NEW c \in Calls, Reject(c)
  PROVE  CallsInv'
<1>1. /\ call[c] \in CallType /\ call[c].pc = "reject" /\ Held(call[c]) /\ Done(call[c], rows[c], processed[c])
      /\ rows[c] \in RowType /\ processed[c] \in 0..3
      /\ rows = [rows EXCEPT ![c] = rows[c]] /\ processed = [processed EXCEPT ![c] = processed[c]]
  BY CallFacts DEF Reject, AtStep
<1>f. /\ call[c].hit \in BOOLEAN /\ call[c].slow \in BOOLEAN /\ call[c].lost \in BOOLEAN /\ call[c].tries \in 0..2
      /\ call[c].tool \in Tools \union {Nothing} /\ call[c].with \in Params \union {Nothing}
  BY <1>1, CallFields
<1>h. rows[c].SUCCESS \in 0..1 /\ rows[c].ERROR \in 0..1
  BY <1>1 DEF RowType
<1>p. TRUE
  OBVIOUS
<1> DEFINE k == [call[c] EXCEPT !.pc = "failed"]
           r == [rows[c] EXCEPT !.ERROR = @ + 1]
           n == processed[c]
<1>4. call' = [call EXCEPT ![c] = k]
  BY <1>p, <1>1 DEF Reject, Goto
<1>z. 0 \in 0..2
  OBVIOUS
<1>2. k \in CallType
  BY <1>1, <1>p, <1>f, <1>z DEF CallType, CallPlaces, Ended
<1>7. r \in RowType /\ rows' = [rows EXCEPT ![c] = r]
  BY <1>1, <1>p, <1>h DEF Reject, auditVars, Recorded, RowType, Done, Unasked
<1>8. n \in 0..3 /\ processed' = [processed EXCEPT ![c] = n]
  BY <1>1, <1>p, <1>f DEF Reject, Executed, Done
<1>3. /\ k.pc = "failed" /\ k.by = call[c].by /\ k.with = call[c].with /\ k.tool = call[c].tool
      /\ k.answer = call[c].answer /\ k.hit = call[c].hit /\ k.tries = call[c].tries /\ k.slow = call[c].slow /\ k.lost = call[c].lost
      /\ k.reply = call[c].reply
  BY <1>1 DEF CallType
<1>r. r.SUCCESS = rows[c].SUCCESS /\ r.ERROR = rows[c].ERROR + 1
  BY <1>1 DEF RowType
<1>9. /\ UNCHANGED <<registered, window, quota, endless, reloads>>
      /\ cache' \in [Keys -> [tool : Tools, with : Params] \union {Nothing}]
      /\ milestone' \subseteq Callers /\ faults' \in 0..MaxFaults
  BY <1>1 DEF Reject, CallsInv, CallsTyped, redisVars, auditVars, Held, Keys
<1>v. n = processed[c]
  OBVIOUS
<1> HIDE DEF k, r, n
<1>5. Held(k)
  BY <1>1, <1>3, <1>p, <1>f DEF Held, WithTool, Unasked
<1>6. Done(k, r, n)
  BY <1>1, <1>3, <1>p, <1>f, <1>h, <1>r, <1>v, <1>7 DEF Done, Unasked, Held
<1> QED BY <1>1, <1>2, <1>4, <1>5, <1>6, <1>7, <1>8, <1>9, CallKept

\* A counter goes up for a call.
LEMMA CallCounted ==
  ASSUME CallsInv, NEW c \in Calls, NEW k \in CallType, call' = [call EXCEPT ![c] = k],
         Held(k), Done(k, rows[c], processed[c]),
         UNCHANGED <<registered, cache, auditVars, processed, reloads>>,
         faults' = faults \/ Fault,
         window' \in [Callers -> Counter], quota' \in [Orgs -> Counter],
         endless' \subseteq Callers \union Orgs, CountersEnd'
  PROVE  CallsInv'
<1>1. faults' \in 0..MaxFaults
  <2>1. faults \in 0..MaxFaults /\ MaxFaults \in Nat
    BY CallsAssumption DEF CallsInv, CallsTyped
  <2> QED BY <2>1 DEF Fault
<1>2. /\ rows[c] \in RowType /\ processed[c] \in 0..3
      /\ rows' = [rows EXCEPT ![c] = rows[c]] /\ processed' = [processed EXCEPT ![c] = processed[c]]
  BY CallFacts DEF auditVars
<1>3. /\ call' \in [Calls -> CallType]
      /\ rows' \in [Calls -> [SUCCESS : 0..1, ERROR : 0..1]]
      /\ processed' \in [Calls -> 0..3]
      /\ \A d \in Calls : Held(call'[d]) /\ Done(call'[d], rows'[d], processed'[d])
  BY <1>2, CallGoes
<1>4. CallsTyped'
  BY <1>1, <1>3 DEF CallsInv, CallsTyped, auditVars
<1> QED BY <1>3, <1>4 DEF CallsInv

\* The first of a window is about to give it an end.
LEMMA ArriveKeeps ==
  ASSUME CallsInv, NEW c \in Calls, NEW u \in Callers, NEW p \in Params, Arrive(c, u, p)
  PROVE  CallsInv'
<1> DEFINE m == window[u].n + 1
<1>1. call[c] \in CallType /\ call[c].pc = "new" /\ Held(call[c]) /\ Done(call[c], rows[c], processed[c])
  BY CallFacts DEF Arrive, AtStep
<1>p. PICK pc \in {"windowExpire", "handle", "refused"} :
        /\ call' = [call EXCEPT ![c].pc = pc, ![c].by = u, ![c].with = p]
        /\ m = 1 => pc = "windowExpire"
        /\ window' = [window EXCEPT ![u].n = m]
  BY DEF Arrive, IsFirst, Placed
<1> DEFINE k == [call[c] EXCEPT !.pc = pc, !.by = u, !.with = p]
<1>2. k \in CallType
  BY <1>1 DEF CallType, CallPlaces, Ended
<1>3. /\ k.pc = pc /\ k.by = u /\ k.with = p /\ k.tool = call[c].tool /\ k.answer = call[c].answer
      /\ k.hit = call[c].hit /\ k.tries = call[c].tries /\ k.slow = call[c].slow /\ k.lost = call[c].lost
      /\ k.reply = call[c].reply
  BY <1>1 DEF CallType
<1>4. call' = [call EXCEPT ![c] = k] /\ UNCHANGED <<registered, cache, quota, endless, auditVars, processed, reloads, faults>>
  BY <1>p DEF Arrive
<1> HIDE DEF k
<1>5. Held(k)
  BY <1>1, <1>3, CallFields DEF Held, WithTool, Unasked
<1>6. Done(k, rows[c], processed[c])
  BY <1>1, <1>3, CallFields DEF Done, Unasked
<1>7. window \in [Callers -> Counter] /\ call \in [Calls -> CallType] /\ quota \in [Orgs -> Counter]
      /\ endless \subseteq Callers \union Orgs /\ CountersEnd
  BY DEF CallsInv, CallsTyped
<1>8. /\ window[u].n \in Nat /\ window[u].ttl \in BOOLEAN
      /\ window'[u] = [window[u] EXCEPT !.n = m] /\ window'[u] \in Counter
      /\ window'[u].n = window[u].n + 1 /\ window'[u].ttl = window[u].ttl
      /\ \A v \in Callers : v # u => window'[v] = window[v]
      /\ window' \in [Callers -> Counter]
  BY <1>7, <1>p DEF Counter
<1>9. call'[c] = k /\ \A d \in Calls : d # c => call'[d] = call[d]
  BY <1>1, <1>4, <1>7
<1>10. ASSUME NEW v \in Callers, window'[v].n > 0, ~ window'[v].ttl
       PROVE  v \in endless \/ \E d \in Calls : call'[d].pc = "windowExpire" /\ call'[d].by = v
  <2>1. CASE v = u /\ m = 1
    BY <1>3, <1>9, <1>p, <2>1
  <2>2. CASE ~ (v = u /\ m = 1)
    <3>1. window[v].n > 0 /\ ~ window[v].ttl
      <4>1. CASE v = u
        <5>1. window[u].n > 0
          BY <1>8, <2>2, <4>1
        <5>2. ~ window[u].ttl
          BY <1>8, <1>10, <4>1, Zenon
        <5> QED BY <4>1, <5>1, <5>2
      <4>2. CASE v # u
        BY <1>8, <1>10, <4>2
      <4> QED BY <4>1, <4>2
    <3>2. v \in endless \/ \E d \in Calls : call[d].pc = "windowExpire" /\ call[d].by = v
      BY <1>7, <3>1 DEF CountersEnd, AtStep
    <3> QED BY <3>2, <1>1, <1>9
  <2> QED BY <2>1, <2>2
<1>11. \A o \in Orgs : quota'[o].n > 0 /\ ~ quota'[o].ttl =>
         o \in endless \/ \E d \in Calls : call'[d].pc = "quotaExpire" /\ CallerOrg[call'[d].by] = o
  BY <1>1, <1>4, <1>7, <1>9 DEF CountersEnd, AtStep
<1>12. CountersEnd'
  BY <1>4, <1>10, <1>11 DEF CountersEnd, AtStep
<1> QED BY <1>2, <1>4, <1>5, <1>6, <1>7, <1>8, <1>12, CallCounted

\* The first call of a window gives it its end.
LEMMA WindowExpireKeeps ==
  ASSUME CallsInv, NEW c \in Calls, WindowExpire(c)
  PROVE  CallsInv'
<1>1. call[c] \in CallType /\ call[c].pc = "windowExpire" /\ Held(call[c]) /\ Done(call[c], rows[c], processed[c])
  BY CallFacts DEF WindowExpire, AtStep
<1>p. PICK pc \in {"handle", "refused"} : (call' = [call EXCEPT ![c].pc = pc])
  BY DEF WindowExpire, Goto, Placed
<1> DEFINE k == [call[c] EXCEPT !.pc = pc]
<1>2. k \in CallType
  BY <1>1 DEF CallType, CallPlaces, Ended
<1>3. /\ k.pc = pc /\ k.by = call[c].by /\ k.with = call[c].with /\ k.tool = call[c].tool
      /\ k.answer = call[c].answer /\ k.hit = call[c].hit /\ k.tries = call[c].tries
      /\ k.slow = call[c].slow /\ k.lost = call[c].lost
      /\ k.reply = call[c].reply
  BY <1>1 DEF CallType
<1>4. call' = [call EXCEPT ![c] = k] /\ UNCHANGED <<registered, cache, auditVars, processed, reloads>>
      /\ (faults' = faults \/ Fault)
  BY <1>p DEF WindowExpire
<1> HIDE DEF k
<1>5. Held(k)
  BY <1>1, <1>3, CallFields DEF Held, WithTool, Unasked
<1>6. Done(k, rows[c], processed[c])
  BY <1>1, <1>3, CallFields DEF Done, Unasked
<1>7. window \in [Callers -> Counter] /\ call \in [Calls -> CallType] /\ quota \in [Orgs -> Counter]
      /\ endless \subseteq Callers \union Orgs /\ CountersEnd
  BY DEF CallsInv, CallsTyped
<1>u. call[c].by \in Callers /\ CallerOrg[call[c].by] \in Orgs
  BY <1>1, CallsAssumption DEF Held
<1>9. call'[c] = k /\ \A d \in Calls : d # c => call'[d] = call[d]
  BY <1>1, <1>4, <1>7
<1> DEFINE u == call[c].by
           b == window[u].n > 0
<1>b. b \in BOOLEAN /\ window[u] \in Counter
  BY <1>7, <1>u
<1>a. window' = [window EXCEPT ![u].ttl = b]
  BY DEF WindowExpire
<1>c. [window[u] EXCEPT !.ttl = b] \in Counter
  <2> HIDE DEF b
  <2> QED BY <1>b DEF Counter
<1>d. window' \in [Callers -> Counter]
  <2> HIDE DEF b
  <2> QED BY <1>a, <1>c, <1>7, <1>u
<1>8. /\ UNCHANGED <<quota, endless>>
      /\ window' = [window EXCEPT ![u].ttl = b] /\ window[u] \in Counter
      /\ window' \in [Callers -> Counter] /\ endless' \subseteq Callers \union Orgs
      /\ quota' \in [Orgs -> Counter]
  BY <1>7, <1>a, <1>b, <1>d DEF WindowExpire
<1>13. window'[u].ttl = (window[u].n > 0) /\ window'[u].n = window[u].n /\ \A v \in Callers : v # u => window'[v] = window[v]
  BY <1>7, <1>8, <1>u DEF Counter
<1>10. ASSUME NEW v \in Callers, window'[v].n > 0, ~ window'[v].ttl
       PROVE  v \in endless' \/ \E d \in Calls : call'[d].pc = "windowExpire" /\ call'[d].by = v
  <2>1. v # u
    <3>1. window'[u].n > 0 => window'[u].ttl
      BY <1>13, Zenon
    <3> QED BY <3>1, <1>10, Zenon
  <2>2. window[v].n > 0 /\ ~ window[v].ttl
    BY <1>10, <1>13, <2>1
  <2>3. v \in endless \/ \E d \in Calls : call[d].pc = "windowExpire" /\ call[d].by = v
    BY <1>7, <2>2 DEF CountersEnd, AtStep
  <2> QED BY <1>1, <1>8, <1>9, <2>1, <2>3
<1>11. \A o \in Orgs : quota'[o].n > 0 /\ ~ quota'[o].ttl =>
         o \in endless' \/ \E d \in Calls : call'[d].pc = "quotaExpire" /\ CallerOrg[call'[d].by] = o
  BY <1>1, <1>7, <1>9, <1>8 DEF CountersEnd, AtStep
<1>12. CountersEnd'
  BY <1>10, <1>11 DEF CountersEnd, AtStep
<1> QED BY <1>2, <1>4, <1>5, <1>6, <1>7, <1>8, <1>12, CallCounted

\* The first call of a day gives the quota its end.
LEMMA QuotaExpireKeeps ==
  ASSUME CallsInv, NEW c \in Calls, QuotaExpire(c)
  PROVE  CallsInv'
<1>1. call[c] \in CallType /\ call[c].pc = "quotaExpire" /\ Held(call[c]) /\ Done(call[c], rows[c], processed[c])
  BY CallFacts DEF QuotaExpire, AtStep
<1>p. PICK pc \in {"request", "reject"} : (call' = [call EXCEPT ![c].pc = pc])
  BY DEF QuotaExpire, Goto, Placed
<1> DEFINE k == [call[c] EXCEPT !.pc = pc]
<1>2. k \in CallType
  BY <1>1 DEF CallType, CallPlaces, Ended
<1>3. /\ k.pc = pc /\ k.by = call[c].by /\ k.with = call[c].with /\ k.tool = call[c].tool
      /\ k.answer = call[c].answer /\ k.hit = call[c].hit /\ k.tries = call[c].tries
      /\ k.slow = call[c].slow /\ k.lost = call[c].lost
      /\ k.reply = call[c].reply
  BY <1>1 DEF CallType
<1>4. call' = [call EXCEPT ![c] = k] /\ UNCHANGED <<registered, cache, auditVars, processed, reloads>>
      /\ (faults' = faults \/ Fault)
  BY <1>p DEF QuotaExpire
<1> HIDE DEF k
<1>5. Held(k)
  BY <1>1, <1>3, CallFields DEF Held, WithTool, Unasked
<1>n. call[c].reply = "none"
  BY <1>1 DEF Held, Unasked
<1>6. Done(k, rows[c], processed[c])
  BY <1>1, <1>3, <1>n, CallFields DEF Done, Unasked
<1>7. window \in [Callers -> Counter] /\ call \in [Calls -> CallType] /\ quota \in [Orgs -> Counter]
      /\ endless \subseteq Callers \union Orgs /\ CountersEnd
  BY DEF CallsInv, CallsTyped
<1>u. call[c].by \in Callers /\ CallerOrg[call[c].by] \in Orgs
  BY <1>1, CallsAssumption DEF Held
<1>9. call'[c] = k /\ \A d \in Calls : d # c => call'[d] = call[d]
  BY <1>1, <1>4, <1>7
<1> DEFINE u == CallerOrg[call[c].by]
           b == quota[u].n > 0
<1>b. b \in BOOLEAN /\ quota[u] \in Counter
  BY <1>7, <1>u
<1>a. quota' = [quota EXCEPT ![u].ttl = b]
  BY DEF QuotaExpire
<1>c. [quota[u] EXCEPT !.ttl = b] \in Counter
  <2> HIDE DEF b
  <2> QED BY <1>b DEF Counter
<1>d. quota' \in [Orgs -> Counter]
  <2> HIDE DEF b
  <2> QED BY <1>a, <1>c, <1>7, <1>u
<1>8. /\ UNCHANGED <<window, endless>>
      /\ quota' = [quota EXCEPT ![u].ttl = b] /\ quota[u] \in Counter
      /\ quota' \in [Orgs -> Counter] /\ endless' \subseteq Callers \union Orgs
      /\ window' \in [Callers -> Counter]
  BY <1>7, <1>a, <1>b, <1>d DEF QuotaExpire
<1>13. quota'[u].ttl = (quota[u].n > 0) /\ quota'[u].n = quota[u].n /\ \A v \in Orgs : v # u => quota'[v] = quota[v]
  BY <1>7, <1>8, <1>u DEF Counter
<1>10. ASSUME NEW v \in Orgs, quota'[v].n > 0, ~ quota'[v].ttl
       PROVE  v \in endless' \/ \E d \in Calls : call'[d].pc = "quotaExpire" /\ CallerOrg[call'[d].by] = v
  <2>1. v # u
    <3>1. quota'[u].n > 0 => quota'[u].ttl
      BY <1>13, Zenon
    <3> QED BY <3>1, <1>10, Zenon
  <2>2. quota[v].n > 0 /\ ~ quota[v].ttl
    BY <1>10, <1>13, <2>1
  <2>3. v \in endless \/ \E d \in Calls : call[d].pc = "quotaExpire" /\ CallerOrg[call[d].by] = v
    BY <1>7, <2>2 DEF CountersEnd, AtStep
  <2> QED BY <1>1, <1>8, <1>9, <2>1, <2>3
<1>11. \A v \in Callers : window'[v].n > 0 /\ ~ window'[v].ttl =>
         v \in endless' \/ \E d \in Calls : call'[d].pc = "windowExpire" /\ call'[d].by = v
  BY <1>1, <1>7, <1>9, <1>8 DEF CountersEnd, AtStep
<1>12. CountersEnd'
  BY <1>10, <1>11 DEF CountersEnd, AtStep
<1> QED BY <1>2, <1>4, <1>5, <1>6, <1>7, <1>8, <1>12, CallCounted

\* The window is not given its end.
LEMMA WindowExpireFailsKeeps ==
  ASSUME CallsInv, NEW c \in Calls, WindowExpireFails(c)
  PROVE  CallsInv'
<1>1. call[c] \in CallType /\ call[c].pc = "windowExpire" /\ Held(call[c]) /\ Done(call[c], rows[c], processed[c])
  BY CallFacts DEF WindowExpireFails, AtStep
<1>p. PICK pc \in {"handle"} : (call' = [call EXCEPT ![c].pc = pc])
  BY DEF WindowExpireFails, Goto
<1> DEFINE k == [call[c] EXCEPT !.pc = pc]
<1>2. k \in CallType
  BY <1>1 DEF CallType, CallPlaces, Ended
<1>3. /\ k.pc = pc /\ k.by = call[c].by /\ k.with = call[c].with /\ k.tool = call[c].tool
      /\ k.answer = call[c].answer /\ k.hit = call[c].hit /\ k.tries = call[c].tries
      /\ k.slow = call[c].slow /\ k.lost = call[c].lost
      /\ k.reply = call[c].reply
  BY <1>1 DEF CallType
<1>4. call' = [call EXCEPT ![c] = k] /\ UNCHANGED <<registered, cache, auditVars, processed, reloads>>
      /\ (faults' = faults \/ Fault)
  BY <1>p DEF WindowExpireFails
<1> HIDE DEF k
<1>5. Held(k)
  BY <1>1, <1>3, CallFields DEF Held, WithTool, Unasked
<1>6. Done(k, rows[c], processed[c])
  BY <1>1, <1>3, CallFields DEF Done, Unasked
<1>7. window \in [Callers -> Counter] /\ call \in [Calls -> CallType] /\ quota \in [Orgs -> Counter]
      /\ endless \subseteq Callers \union Orgs /\ CountersEnd
  BY DEF CallsInv, CallsTyped
<1>u. call[c].by \in Callers /\ CallerOrg[call[c].by] \in Orgs
  BY <1>1, CallsAssumption DEF Held
<1>9. call'[c] = k /\ \A d \in Calls : d # c => call'[d] = call[d]
  BY <1>1, <1>4, <1>7
<1>8. /\ UNCHANGED <<window, quota>> /\ endless' = endless \union {call[c].by}
      /\ window' \in [Callers -> Counter] /\ quota' \in [Orgs -> Counter]
      /\ endless' \subseteq Callers \union Orgs
  BY <1>7, <1>u DEF WindowExpireFails
<1>10. \A v \in Callers : window'[v].n > 0 /\ ~ window'[v].ttl =>
         v \in endless' \/ \E d \in Calls : call'[d].pc = "windowExpire" /\ call'[d].by = v
  BY <1>1, <1>7, <1>9, <1>8 DEF CountersEnd, AtStep
<1>11. \A o \in Orgs : quota'[o].n > 0 /\ ~ quota'[o].ttl =>
         o \in endless' \/ \E d \in Calls : call'[d].pc = "quotaExpire" /\ CallerOrg[call'[d].by] = o
  BY <1>1, <1>7, <1>9, <1>8 DEF CountersEnd, AtStep
<1>12. CountersEnd'
  BY <1>10, <1>11 DEF CountersEnd, AtStep
<1> QED BY <1>2, <1>4, <1>5, <1>6, <1>7, <1>8, <1>12, CallCounted

\* The quota is not given its end.
LEMMA QuotaExpireFailsKeeps ==
  ASSUME CallsInv, NEW c \in Calls, QuotaExpireFails(c)
  PROVE  CallsInv'
<1>1. call[c] \in CallType /\ call[c].pc = "quotaExpire" /\ Held(call[c]) /\ Done(call[c], rows[c], processed[c])
  BY CallFacts DEF QuotaExpireFails, AtStep
<1>p. PICK pc \in {"reject"} : (call' = [call EXCEPT ![c].pc = pc])
  BY DEF QuotaExpireFails, Goto
<1> DEFINE k == [call[c] EXCEPT !.pc = pc]
<1>2. k \in CallType
  BY <1>1 DEF CallType, CallPlaces, Ended
<1>3. /\ k.pc = pc /\ k.by = call[c].by /\ k.with = call[c].with /\ k.tool = call[c].tool
      /\ k.answer = call[c].answer /\ k.hit = call[c].hit /\ k.tries = call[c].tries
      /\ k.slow = call[c].slow /\ k.lost = call[c].lost
      /\ k.reply = call[c].reply
  BY <1>1 DEF CallType
<1>4. call' = [call EXCEPT ![c] = k] /\ UNCHANGED <<registered, cache, auditVars, processed, reloads>>
      /\ (faults' = faults \/ Fault)
  BY <1>p DEF QuotaExpireFails
<1> HIDE DEF k
<1>5. Held(k)
  BY <1>1, <1>3, CallFields DEF Held, WithTool, Unasked
<1>n. call[c].reply = "none"
  BY <1>1 DEF Held, Unasked
<1>6. Done(k, rows[c], processed[c])
  BY <1>1, <1>3, <1>n, CallFields DEF Done, Unasked
<1>7. window \in [Callers -> Counter] /\ call \in [Calls -> CallType] /\ quota \in [Orgs -> Counter]
      /\ endless \subseteq Callers \union Orgs /\ CountersEnd
  BY DEF CallsInv, CallsTyped
<1>u. call[c].by \in Callers /\ CallerOrg[call[c].by] \in Orgs
  BY <1>1, CallsAssumption DEF Held
<1>9. call'[c] = k /\ \A d \in Calls : d # c => call'[d] = call[d]
  BY <1>1, <1>4, <1>7
<1>8. /\ UNCHANGED <<window, quota>> /\ endless' = endless \union {CallerOrg[call[c].by]}
      /\ window' \in [Callers -> Counter] /\ quota' \in [Orgs -> Counter]
      /\ endless' \subseteq Callers \union Orgs
  BY <1>7, <1>u DEF QuotaExpireFails
<1>10. \A v \in Callers : window'[v].n > 0 /\ ~ window'[v].ttl =>
         v \in endless' \/ \E d \in Calls : call'[d].pc = "windowExpire" /\ call'[d].by = v
  BY <1>1, <1>7, <1>9, <1>8 DEF CountersEnd, AtStep
<1>11. \A o \in Orgs : quota'[o].n > 0 /\ ~ quota'[o].ttl =>
         o \in endless' \/ \E d \in Calls : call'[d].pc = "quotaExpire" /\ CallerOrg[call'[d].by] = o
  BY <1>1, <1>7, <1>9, <1>8 DEF CountersEnd, AtStep
<1>12. CountersEnd'
  BY <1>10, <1>11 DEF CountersEnd, AtStep
<1> QED BY <1>2, <1>4, <1>5, <1>6, <1>7, <1>8, <1>12, CallCounted

\* The quota is charged.
LEMMA ChargeKeeps ==
  ASSUME CallsInv, NEW c \in Calls, Charge(c)
  PROVE  CallsInv'
<1>1. call[c] \in CallType /\ call[c].pc = "proxy" /\ Held(call[c]) /\ Done(call[c], rows[c], processed[c])
  BY CallFacts DEF Charge, AtStep
<1>p. PICK pc \in {"quotaExpire", "request", "reject"} : (call' = [call EXCEPT ![c].pc = pc])
        /\ (quota[CallerOrg[call[c].by]].n + 1 = 1 => pc = "quotaExpire")
  BY DEF Charge, Goto, IsFirst, Placed
<1> DEFINE k == [call[c] EXCEPT !.pc = pc]
<1>2. k \in CallType
  BY <1>1 DEF CallType, CallPlaces, Ended
<1>3. /\ k.pc = pc /\ k.by = call[c].by /\ k.with = call[c].with /\ k.tool = call[c].tool
      /\ k.answer = call[c].answer /\ k.hit = call[c].hit /\ k.tries = call[c].tries
      /\ k.slow = call[c].slow /\ k.lost = call[c].lost
      /\ k.reply = call[c].reply
  BY <1>1 DEF CallType
<1>4. call' = [call EXCEPT ![c] = k] /\ UNCHANGED <<registered, cache, auditVars, processed, reloads>>
      /\ (faults' = faults \/ Fault)
  BY <1>p DEF Charge
<1> HIDE DEF k
<1>5. Held(k)
  BY <1>1, <1>3, CallFields DEF Held, WithTool, Unasked
<1>n. call[c].reply = "none"
  BY <1>1 DEF Held, Unasked
<1>6. Done(k, rows[c], processed[c])
  BY <1>1, <1>3, <1>n, CallFields DEF Done, Unasked
<1>7. window \in [Callers -> Counter] /\ call \in [Calls -> CallType] /\ quota \in [Orgs -> Counter]
      /\ endless \subseteq Callers \union Orgs /\ CountersEnd
  BY DEF CallsInv, CallsTyped
<1>u. call[c].by \in Callers /\ CallerOrg[call[c].by] \in Orgs
  BY <1>1, CallsAssumption DEF Held
<1>9. call'[c] = k /\ \A d \in Calls : d # c => call'[d] = call[d]
  BY <1>1, <1>4, <1>7
<1> DEFINE u == CallerOrg[call[c].by]
           m == quota[u].n + 1
<1>8. /\ UNCHANGED <<window, endless>>
      /\ quota' = [quota EXCEPT ![u].n = m] /\ quota[u] \in Counter /\ m \in Nat
      /\ quota' \in [Orgs -> Counter] /\ endless' \subseteq Callers \union Orgs
      /\ window' \in [Callers -> Counter]
  BY <1>7, <1>u DEF Charge, Counter
<1>13. /\ quota'[u].n = quota[u].n + 1 /\ quota'[u].ttl = quota[u].ttl /\ quota[u].n \in Nat
       /\ \A v \in Orgs : v # u => quota'[v] = quota[v]
  BY <1>7, <1>8, <1>u DEF Counter
<1>10. ASSUME NEW v \in Orgs, quota'[v].n > 0, ~ quota'[v].ttl
       PROVE  v \in endless' \/ \E d \in Calls : call'[d].pc = "quotaExpire" /\ CallerOrg[call'[d].by] = v
  <2>1. CASE v = u /\ m = 1
    BY <1>3, <1>9, <1>p, <2>1
  <2>2. CASE ~ (v = u /\ m = 1)
    <3>1. quota[v].n > 0 /\ ~ quota[v].ttl
      <4>1. CASE v = u
        <5>1. quota[u].n > 0
          BY <1>13, <2>2, <4>1
        <5>2. ~ quota[u].ttl
          BY <1>13, <1>10, <4>1, Zenon
        <5> QED BY <4>1, <5>1, <5>2
      <4>2. CASE v # u
        BY <1>13, <1>10, <4>2
      <4> QED BY <4>1, <4>2
    <3>2. v \in endless \/ \E d \in Calls : call[d].pc = "quotaExpire" /\ CallerOrg[call[d].by] = v
      BY <1>7, <3>1 DEF CountersEnd, AtStep
    <3> QED BY <3>2, <1>1, <1>8, <1>9
  <2> QED BY <2>1, <2>2
<1>11. \A v \in Callers : window'[v].n > 0 /\ ~ window'[v].ttl =>
         v \in endless' \/ \E d \in Calls : call'[d].pc = "windowExpire" /\ call'[d].by = v
  BY <1>1, <1>7, <1>9, <1>8 DEF CountersEnd, AtStep
<1>12. CountersEnd'
  BY <1>10, <1>11 DEF CountersEnd, AtStep
<1> QED BY <1>2, <1>4, <1>5, <1>6, <1>7, <1>8, <1>12, CallCounted

\* The calls that were cut off are gone, and the counters they created have no end.
LEMMA CallsCrashKeeps ==
  ASSUME CallsInv, CallsCrash
  PROVE  CallsInv'
<1>1. /\ call \in [Calls -> CallType] /\ window \in [Callers -> Counter] /\ quota \in [Orgs -> Counter]
      /\ endless \subseteq Callers \union Orgs /\ CountersEnd
      /\ faults \in 0..MaxFaults /\ MaxFaults \in Nat
      /\ \A c \in Calls : Held(call[c]) /\ Done(call[c], rows[c], processed[c])
  BY CallsAssumption DEF CallsInv, CallsTyped
<1>2. faults' \in 0..MaxFaults
  BY <1>1 DEF CallsCrash, Fault
<1>3. ASSUME NEW c \in Calls
      PROVE  call'[c] \in CallType /\ Held(call'[c]) /\ Done(call'[c], rows[c], processed[c])
  <2> DEFINE k == [call[c] EXCEPT !.pc = "gone"]
  <2>1. call[c] \in CallType
    BY <1>1
  <2>2. CASE call[c].pc \in Ended \union {"new"}
    <3>1. call'[c] = call[c]
      BY <2>2 DEF CallsCrash
    <3> QED BY <1>1, <2>1, <3>1
  <2>3. CASE call[c].pc \notin Ended \union {"new"}
    <3>1. call'[c] = k
      BY <2>3 DEF CallsCrash
    <3>2. k \in CallType
      BY <2>1 DEF CallType, CallPlaces, Ended
    <3>3. /\ k.pc = "gone" /\ k.by = call[c].by /\ k.with = call[c].with /\ k.tool = call[c].tool
          /\ k.answer = call[c].answer /\ k.hit = call[c].hit /\ k.tries = call[c].tries
          /\ k.slow = call[c].slow /\ k.lost = call[c].lost /\ k.reply = call[c].reply
      BY <2>1 DEF CallType
    <3> HIDE DEF k
    <3>4. /\ call[c].hit \in BOOLEAN /\ call[c].slow \in BOOLEAN /\ call[c].lost \in BOOLEAN
          /\ Held(call[c]) /\ Done(call[c], rows[c], processed[c])
          /\ rows[c].SUCCESS \in 0..1 /\ rows[c].ERROR \in 0..1 /\ processed[c] \in 0..3
      BY <1>1, <2>1, CallFields DEF CallsInv, CallsTyped
    <3>t. call[c].tries \in 0..2
      BY <2>1, CallFields
    <3>5. Done(k, rows[c], processed[c])
      BY <2>3, <3>3, <3>4, <3>t DEF Done, Ended, Unasked, CallPlaces
    <3>7. Held(k)
      BY <2>3, <3>3, <3>4 DEF Held, WithTool, Unasked
    <3> QED BY <3>1, <3>2, <3>5, <3>7
  <2> QED BY <2>2, <2>3
<1>4. call' \in [Calls -> CallType]
  <2>1. call' = [c \in Calls |-> call'[c]]
    BY DEF CallsCrash
  <2> QED BY <2>1, <1>3
<1>5. endless' \subseteq Callers \union Orgs
  BY <1>1, CallsAssumption DEF CallsCrash, AtStep, Held
<1>6. registered' \in UNION {Orders(S) : S \in SUBSET Tools}
  BY DEF CallsCrash
<1>7. CountersEnd'
  BY <1>1 DEF CallsCrash, CountersEnd, AtStep
<1>8. CallsTyped'
  BY <1>2, <1>4, <1>5, <1>6 DEF CallsInv, CallsTyped, CallsCrash, auditVars
<1> QED BY <1>3, <1>7, <1>8 DEF CallsInv, CallsCrash, auditVars

\* Steps that leave the calls alone.
LEMMA OthersKeep ==
  ASSUME CallsInv, UNCHANGED <<call, rows, milestone, processed, endless, faults>>,
         registered' \in UNION {Orders(S) : S \in SUBSET Tools},
         cache' \in [Keys -> [tool : Tools, with : Params] \union {Nothing}],
         reloads' \in 0..MaxReloads,
         window' \in [Callers -> Counter], quota' \in [Orgs -> Counter],
         \A u \in Callers : window'[u] \in {window[u], Unset},
         \A o \in Orgs : quota'[o] \in {quota[o], Unset}
  PROVE  CallsInv'
<1>1. CallsTyped'
  BY DEF CallsInv, CallsTyped
<1>2. CountersEnd'
  <2>1. CountersEnd
    BY DEF CallsInv
  <2>2. Unset.n = 0
    BY DEF Unset
  <2>3. ASSUME NEW u \in Callers, window'[u].n > 0, ~ window'[u].ttl
        PROVE  u \in endless' \/ \E c \in Calls : AtStep(c, "windowExpire")' /\ call'[c].by = u
    <3>1. window'[u] = window[u]
      BY <2>2, <2>3
    <3> QED BY <2>1, <2>3, <3>1 DEF CountersEnd, AtStep
  <2>4. ASSUME NEW o \in Orgs, quota'[o].n > 0, ~ quota'[o].ttl
        PROVE  o \in endless' \/ \E c \in Calls : AtStep(c, "quotaExpire")' /\ CallerOrg[call'[c].by] = o
    <3>1. quota'[o] = quota[o]
      BY <2>2, <2>4
    <3> QED BY <2>1, <2>4, <3>1 DEF CountersEnd, AtStep
  <2> QED BY <2>3, <2>4 DEF CountersEnd
<1> QED BY <1>1, <1>2 DEF CallsInv

\* A connector is reloaded.
LEMMA RegistryKeeps ==
  ASSUME CallsInv, NEW k \in Connectors, Unregister(k) \/ Register(k)
  PROVE  CallsInv'
<1>1. registered' \in UNION {Orders(S) : S \in SUBSET Tools}
  BY UnregisterKeeps, RegisterKeeps DEF CallsInv
<1>2. reloads' \in 0..MaxReloads
  <2>1. reloads \in 0..MaxReloads /\ MaxReloads \in Nat
    BY CallsAssumption DEF CallsInv, CallsTyped
  <2> QED BY <2>1 DEF Unregister, Register
<1>3. UNCHANGED <<redisVars, call, auditVars, processed, faults>>
  BY DEF Unregister, Register
<1> QED BY <1>1, <1>2, <1>3, OthersKeep DEF CallsInv, CallsTyped, redisVars, auditVars

\* A counter or an answer of the cache comes to its end.
LEMMA EndsKeep ==
  ASSUME CallsInv,
         \/ \E u \in Callers : WindowEnds(u)
         \/ \E o \in Orgs : QuotaEnds(o)
         \/ \E k \in Keys : AnswerExpires(k)
  PROVE  CallsInv'
<1>1. CallsTyped /\ Unset \in Counter
  BY DEF CallsInv, Unset, Counter
<1>2. UNCHANGED <<registered, endless, call, auditVars, processed, reloads, faults>>
  BY DEF WindowEnds, QuotaEnds, AnswerExpires
<1>3. ASSUME NEW u \in Callers, WindowEnds(u) PROVE CallsInv'
  BY <1>1, <1>2, <1>3, OthersKeep DEF WindowEnds, CallsTyped, auditVars
<1>4. ASSUME NEW o \in Orgs, QuotaEnds(o) PROVE CallsInv'
  BY <1>1, <1>2, <1>4, OthersKeep DEF QuotaEnds, CallsTyped, auditVars
<1>5. ASSUME NEW k \in Keys, AnswerExpires(k) PROVE CallsInv'
  <2>1. cache' \in [Keys -> [tool : Tools, with : Params] \union {Nothing}]
    BY <1>1, <1>5 DEF AnswerExpires, CallsTyped
  <2> QED BY <1>1, <1>2, <1>5, <2>1, OthersKeep DEF AnswerExpires, CallsTyped, auditVars
<1> QED BY <1>3, <1>4, <1>5

\* No call has been made at first.
LEMMA CallsInvInit == CallsInit => CallsInv
<1> SUFFICES ASSUME CallsInit PROVE CallsInv
  OBVIOUS
<1>0. {RateLimit, ProxyLimit, MaxReloads, MaxFaults} \subseteq Nat
  BY CallsAssumption
<1>1. New \in CallType
  BY DEF New, CallType, CallPlaces
<1>2. /\ New.pc = "new" /\ New.tool = Nothing /\ New.tries = 0 /\ New.hit = FALSE /\ New.slow = FALSE
      /\ New.lost = FALSE /\ New.reply = "none"
  BY DEF New
<1>3. Held(New)
  BY <1>2 DEF Held, WithTool, Unasked
<1>4. \A c \in Calls : call[c] = New /\ rows[c].SUCCESS = 0 /\ rows[c].ERROR = 0 /\ processed[c] = 0
  BY DEF CallsInit
<1>5. \A c \in Calls : Done(call[c], rows[c], processed[c])
  BY <1>2, <1>4 DEF Done, Unasked
<1>6. Unset \in Counter /\ Unset.n = 0
  BY DEF Unset, Counter
<1>7. CountersEnd
  BY <1>6 DEF CallsInit, CountersEnd
<1>8. CallsTyped
  BY <1>0, <1>1, <1>6 DEF CallsInit, CallsTyped, Keys
<1> QED BY <1>3, <1>4, <1>5, <1>7, <1>8 DEF CallsInv

\* Every step keeps the invariant.
LEMMA CallsInvStep == CallsInv /\ [CallsNext]_callsVars => CallsInv'
<1> SUFFICES ASSUME CallsInv, [CallsNext]_callsVars PROVE CallsInv'
  OBVIOUS
<1>1. ASSUME NEW c \in Calls, NEW u \in Callers, NEW p \in Params,
             Arrive(c, u, p) \/ ArriveUncounted(c, u, p)
      PROVE  CallsInv'
  BY <1>1, ArriveKeeps, ArriveUncountedKeeps
<1>2. ASSUME NEW c \in Calls, CallStep(c) PROVE CallsInv'
  BY <1>2, WindowExpireKeeps, HandleKeeps, LicenseKeeps, LicenseExpiredKeeps, LookupKeeps,
     ChargeKeeps, QuotaExpireKeeps, RespondKeeps, RespondErrorKeeps, TransientKeeps, RecordKeeps,
     StampKeeps, StoreKeeps, RejectKeeps DEF CallStep
<1>3. ASSUME NEW c \in Calls, CallFault(c) PROVE CallsInv'
  BY <1>3, WindowExpireFailsKeeps, LookupFailsKeeps, ChargeFailsKeeps, QuotaExpireFailsKeeps,
     RecordFailsKeeps, StoreFailsKeeps, RejectUnrecordedKeeps DEF CallFault
<1>4. ASSUME NEW k \in Connectors, Unregister(k) \/ Register(k) PROVE CallsInv'
  BY <1>4, RegistryKeeps
<1>5. CASE \/ \E u \in Callers : WindowEnds(u)
           \/ \E o \in Orgs : QuotaEnds(o)
           \/ \E k \in Keys : AnswerExpires(k)
  BY <1>5, EndsKeep
<1>6. CASE CallsCrash
  BY <1>6, CallsCrashKeeps
<1>7. CASE UNCHANGED callsVars
  BY <1>7 DEF callsVars, redisVars, auditVars, CallsInv, CallsTyped, CountersEnd, AtStep
<1> QED BY <1>1, <1>2, <1>3, <1>4, <1>5, <1>6, <1>7 DEF CallsNext

\* Of the calls, for any number of them: their types, and what RowsTellCalls,
\* ServerCallStaysInOrg, ExecutedOnce and CountersEnd say.
THEOREM CallsInvHolds == CallsSpec => []CallsInv
BY CallsInvInit, CallsInvStep, PTL DEF CallsSpec

-----------------------------------------------------------------------------
(* The engine.                                                             *)

\* What can be known of the origin by the place the engine is at: before a request is
\* sent, and after an answer that asks for another one, it has done nothing.
EngineInv ==
  /\ EngineTypeOK /\ ActsOnce
  /\ ~ blurred /\ phase \in {"prepare", "send"} => acts = 0
  /\ ~ blurred /\ phase = "replied" /\ reply \in {"401", "busy", "gone"} => acts = 0

\* No request has been sent at first.
LEMMA EngineInvInit == EngineInit => EngineInv
<1> SUFFICES ASSUME EngineInit PROVE EngineInv
  OBVIOUS
<1>1. setup.scheme \in Schemes
  BY DEF EngineInit, Setups
<1>3. header \in [scheme : Schemes, good : BOOLEAN]
  BY <1>1 DEF EngineInit
<1>4. 0 \in 0..MaxRetries /\ 0 \in Nat
  BY DEF MaxRetries
<1>2. EngineTypeOK
  BY <1>3, <1>4 DEF EngineInit, EngineTypeOK, Replies
<1> QED BY <1>2 DEF EngineInit, EngineInv, ActsOnce

\* Every step keeps the invariant.
LEMMA EngineInvStep == EngineInv /\ [EngineNext]_engineVars => EngineInv'
<1> SUFFICES ASSUME EngineInv, [EngineNext]_engineVars PROVE EngineInv'
  OBVIOUS
<1> USE DEF EngineInv, EngineTypeOK, ActsOnce
<1>1. ASSUME NEW good \in BOOLEAN, Prepare(good) PROVE EngineInv'
  BY <1>1 DEF Prepare, Setups
<1>2. ASSUME NEW r \in Replies, Acts(r) PROVE EngineInv'
  BY <1>2 DEF Acts, Replied
<1>3. ASSUME NEW r \in Replies, Rejects(r) PROVE EngineInv'
  BY <1>3 DEF Rejects, Replied
<1>4. ASSUME NEW r \in Replies, ActsUnseen(r) PROVE EngineInv'
  BY <1>4 DEF ActsUnseen, Replied
<1>5. CASE PrepareFails
  BY <1>5 DEF PrepareFails, Ends, Replies
<1>6. CASE Denies
  BY <1>6 DEF Denies, Replied, Replies
<1>7. CASE ActsWith401Text
  BY <1>7 DEF ActsWith401Text, Replied, Replies
<1>8. CASE Repeat
  BY <1>8 DEF Repeat, Repeats, isTransientError, MaxRetries
<1>9. CASE Refresh
  BY <1>9 DEF Refresh, Renews, Setups, Schemes
<1>10. CASE Relogin
  <2>1. [header EXCEPT !.good = TRUE] \in [scheme : Schemes, good : BOOLEAN]
    OBVIOUS
  <2> QED BY <1>10, <2>1 DEF Relogin, Renews
<1>11. CASE RenewFails
  BY <1>11 DEF RenewFails, Ends
<1>12. CASE Return
  BY <1>12 DEF Return, Ends
<1>13. CASE UNCHANGED engineVars
  BY <1>13 DEF engineVars
<1> QED
  BY <1>1, <1>2, <1>3, <1>4, <1>5, <1>6, <1>7, <1>8, <1>9, <1>10, <1>11, <1>12, <1>13
  DEF EngineNext

\* The invariant holds in every reachable state.
THEOREM EngineInvHolds == EngineSpec => []EngineInv
BY EngineInvInit, EngineInvStep, PTL DEF EngineSpec

-----------------------------------------------------------------------------
(* Observations.                                                           *)

\* Some naturals that are bounded have a greatest one.
LEMMA GreatestNatural ==
  ASSUME NEW n \in Nat, NEW T \in SUBSET (0..n), T # {}
  PROVE  \E x \in T : \A y \in T : y <= x
<1> DEFINE U == {n - x : x \in T}
<1>1. U \in SUBSET Nat /\ U # {}
  <2>1. \A x \in T : x \in 0..n
    OBVIOUS
  <2>2. \A x \in T : n - x \in Nat
    BY <2>1
  <2> QED BY <2>2
<1>2. PICK u \in U : \A v \in U : u <= v
  <2> HIDE DEF U
  <2> QED BY <1>1, LeastNatural
<1>3. PICK x \in T : u = n - x
  OBVIOUS
<1>4. \A y \in T : n - x <= n - y
  BY <1>2, <1>3
<1> QED BY <1>4

Row == [of : Sources, at : Nat, named : BOOLEAN]

\* Rows are in the order of their time.
InTime(lg) ==
  /\ \A n \in DOMAIN lg : lg[n].at >= 1
  /\ \A m, n \in DOMAIN lg : m <= n => lg[m].at <= lg[n].at

\* The rows later than f of those left when p are purged, and how many there are before them.
Later(f, p, lg) == {n \in (p + 1)..Len(lg) : lg[n].at > f}
Ahead(f, p, lg) == Len(lg) - Cardinality(Later(f, p, lg))

\* b is a time the watermark of k may have: none, or one of its rows has it.
Timed(k, b, lg) == b = 0 \/ \E m \in DOMAIN lg : lg[m].of = k /\ lg[m].at = b

\* The rows of k up to the time b have been taken.
Taken(k, b, p, lg, cnt) ==
  \A n \in (p + 1)..Len(lg) :
    lg[n].of = k /\ lg[n].named /\ lg[n].at <= b =>
      cnt[n] > 0 \/ \E m \in 1..(n - 1) : lg[m].of = lg[n].of /\ lg[m].at = lg[n].at

\* How far the ingest g has read.
Passed(g, p, lg) == Ahead(g.floor, p, lg) + g.skip

\* What an ingest that reads pages has taken.
Reads(g, p, lg, cnt) ==
  /\ \A k \in Sources : Taken(k, g.seen[k], p, lg, cnt)
  /\ Passed(g, p, lg) <= Len(lg)
  /\ \A n \in (p + 1)..Passed(g, p, lg) :
       lg[n].named /\ lg[n].at > g.seen[lg[n].of] => cnt[n] > 0

\* The ingest g has taken the row n, or none that runs after it will take it again.
Covers(g, n, p, lg) ==
  lg[n].at <= g.high[lg[n].of] /\ (g.pc = "page" => n <= Passed(g, p, lg))

\* While one ingest at a time has come to its end: no row has been taken twice, and a row
\* was taken up to the watermark, or by the ingest that runs.
InTurn ==
  /\ \A n \in 1..Len(log) :
       /\ counted[n] <= 1
       /\ counted[n] > 0 => \/ log[n].at <= mark[log[n].of]
                            \/ \E i \in Ingests : ingest[i] # Idling /\ Covers(ingest[i], n, purged, log)
  /\ \A i \in Ingests : ingest[i] # Idling =>
       /\ ingest[i].pc = "page" => ingest[i].seen = mark
       /\ \A k \in Sources : ingest[i].high[k] = 0 \/ ingest[i].high[k] > mark[k]

\* What an ingest holds by the place it is at.
Holds(g, lg) ==
  /\ \A k \in Sources : Timed(k, g.high[k], lg)
  /\ g.pc = "page" => \A k \in Sources : Timed(k, g.seen[k], lg) /\ g.floor <= g.seen[k]
  /\ g.pc = "open" => g.skip = 0 /\ \A k \in Sources : g.high[k] = 0

\* What has been taken into the graph for an ingest.
TakenFor(g, p, lg, cnt) ==
  /\ \A k \in Sources : Taken(k, g.high[k], p, lg, cnt)
  /\ g.pc = "page" => Reads(g, p, lg, cnt)

ObsInv ==
  /\ ObservationsTypeOK /\ InTime(log)
  /\ \A k \in Sources : Timed(k, mark[k], log)
  /\ \A i \in Ingests : ingest[i] # Idling => Holds(ingest[i], log)
  /\ ~ shifted => /\ \A k \in Sources : Taken(k, mark[k], purged, log, counted)
                  /\ \A i \in Ingests : ingest[i] # Idling => TakenFor(ingest[i], purged, log, counted)
  /\ ~ overlapped => \A i, j \in Ingests : ingest[i] # Idling /\ ingest[j] # Idling => i = j
  /\ ~ overlapped /\ ~ cutOff => InTurn

\* What a row is.
LEMMA RowFacts ==
  ASSUME ObservationsTypeOK, NEW n \in 1..Len(log)
  PROVE  /\ n \in DOMAIN log /\ log[n].of \in Sources /\ log[n].at \in Nat /\ log[n].named \in BOOLEAN
         /\ counted[n] \in 0..2 /\ Len(log) \in Nat /\ purged \in 0..Len(log)
<1>1. log \in Seq(Row) /\ counted \in [DOMAIN log -> 0..2] /\ purged \in 0..Len(log)
  BY DEF ObservationsTypeOK, Row
<1>2. DOMAIN log = 1..Len(log) /\ Len(log) \in Nat /\ log[n] \in Row
  BY <1>1, LenProperties, ElementOfSeq
<1> QED BY <1>1, <1>2 DEF Row

\* What RowsCountedOnce says.
LEMMA CountedFromInv == ObsInv => RowsCountedOnce
<1> SUFFICES ASSUME ObsInv PROVE RowsCountedOnce
  OBVIOUS
<1> SUFFICES ASSUME NEW n \in DOMAIN log
             PROVE  /\ log[n].named /\ log[n].at <= mark[log[n].of] /\ n > purged =>
                         counted[n] > 0 \/ Tied(n) \/ shifted
                    /\ counted[n] > 1 => overlapped \/ cutOff
  BY DEF RowsCountedOnce
<1>1. /\ log \in Seq([of : Sources, at : Nat, named : BOOLEAN])
      /\ counted \in [DOMAIN log -> 0..2] /\ purged \in 0..Len(log)
  BY DEF ObsInv, ObservationsTypeOK
<1>2. log[n].of \in Sources /\ n \in 1..Len(log) /\ counted[n] \in 0..2
  BY <1>1, LenProperties, RowFacts DEF ObsInv
<1>3. ~ shifted => Taken(log[n].of, mark[log[n].of], purged, log, counted)
  BY <1>2 DEF ObsInv
<1>4. n > purged => n \in (purged + 1)..Len(log)
  BY <1>1, <1>2
<1>5. ~ overlapped /\ ~ cutOff => counted[n] <= 1
  BY DEF ObsInv, InTurn
<1> QED BY <1>2, <1>3, <1>4, <1>5 DEF Taken, Tied

\* No row is of time 0.
LEMMA AllLater ==
  ASSUME NEW lg \in Seq(Row), NEW p \in 0..Len(lg), InTime(lg)
  PROVE  \A n \in (p + 1)..Len(lg) : ~ lg[n].at <= 0
<1> TAKE n \in (p + 1)..Len(lg)
<1>1. Len(lg) \in Nat /\ DOMAIN lg = 1..Len(lg)
  BY LenProperties
<1>2. n \in 1..Len(lg)
  BY <1>1
<1>3. lg[n].at >= 1
  BY <1>1, <1>2 DEF InTime
<1>4. lg[n].at \in Nat
  <2>1. lg[n] \in Row
    BY <1>2, ElementOfSeq
  <2> QED BY <2>1 DEF Row
<1> QED BY <1>3, <1>4

\* The rows later than f are the last ones.
LEMMA AheadIs ==
  ASSUME NEW lg \in Seq(Row), NEW p \in 0..Len(lg), InTime(lg), NEW f \in Nat
  PROVE  /\ Ahead(f, p, lg) \in p..Len(lg) /\ Later(f, p, lg) = (Ahead(f, p, lg) + 1)..Len(lg)
         /\ Len(lg) \in Nat /\ Cardinality(Later(f, p, lg)) = Len(lg) - Ahead(f, p, lg)
         /\ \A n \in (p + 1)..Len(lg) : n <= Ahead(f, p, lg) <=> lg[n].at <= f
<1>1. Len(lg) \in Nat /\ p \in 0..Len(lg) /\ DOMAIN lg = 1..Len(lg)
  BY LenProperties
<1>2. \A n \in (p + 1)..Len(lg) : n \in DOMAIN lg /\ lg[n].at \in Nat
  <2> TAKE n \in (p + 1)..Len(lg)
  <2>1. n \in 1..Len(lg)
    BY <1>1
  <2>2. lg[n] \in Row
    BY <2>1, ElementOfSeq
  <2> QED BY <1>1, <2>1, <2>2 DEF Row
<1>3. CASE Later(f, p, lg) = {}
  <2>1. Ahead(f, p, lg) = Len(lg)
    BY <1>1, <1>3, FS_EmptySet DEF Ahead
  <2>2. \A n \in (p + 1)..Len(lg) : lg[n].at <= f
    BY <1>2, <1>3 DEF Later
  <2> QED BY <1>1, <1>3, <2>1, <2>2, FS_EmptySet
<1>4. CASE Later(f, p, lg) # {}
  <2>1. Later(f, p, lg) \in SUBSET Nat
    BY <1>1 DEF Later
  <2>2. PICK t \in Later(f, p, lg) : \A n \in Later(f, p, lg) : t <= n
    BY <1>4, <2>1, LeastNatural
  <2>3. t \in (p + 1)..Len(lg) /\ lg[t].at > f /\ t \in Nat
    BY <1>1, <2>2 DEF Later
  <2>4. ASSUME NEW n \in (p + 1)..Len(lg) PROVE n \in Later(f, p, lg) <=> n >= t
    <3>1. CASE n >= t
      <4>1. lg[t].at <= lg[n].at
        BY <1>1, <1>2, <2>3, <3>1 DEF InTime
      <4> QED BY <1>2, <2>3, <3>1, <4>1 DEF Later
    <3>2. CASE ~ n >= t
      BY <1>1, <2>2, <2>3, <3>2
    <3> QED BY <3>1, <3>2
  <2>5. Later(f, p, lg) = t..Len(lg)
    <3>1. \A n \in Later(f, p, lg) : n \in (p + 1)..Len(lg)
      BY DEF Later
    <3>2. \A n \in Later(f, p, lg) : n \in t..Len(lg)
      BY <1>1, <2>3, <2>4, <3>1
    <3>3. \A n \in t..Len(lg) : n \in (p + 1)..Len(lg) /\ n >= t
      BY <1>1, <2>3
    <3>4. \A n \in t..Len(lg) : n \in Later(f, p, lg)
      BY <3>3, <2>4
    <3> QED BY <3>2, <3>4
  <2>6. Cardinality(Later(f, p, lg)) = Len(lg) - t + 1
    BY <1>1, <2>3, <2>5, FS_Interval
  <2>7. Ahead(f, p, lg) = t - 1
    BY <1>1, <2>3, <2>6 DEF Ahead
  <2>8. \A n \in (p + 1)..Len(lg) : lg[n].at <= f <=> n < t
    BY <1>1, <1>2, <2>3, <2>4 DEF Later
  <2>9. /\ Ahead(f, p, lg) \in p..Len(lg) /\ Ahead(f, p, lg) + 1 = t
        /\ Cardinality(Later(f, p, lg)) = Len(lg) - Ahead(f, p, lg)
    BY <1>1, <2>3, <2>6, <2>7
  <2>10. Later(f, p, lg) = (Ahead(f, p, lg) + 1)..Len(lg)
    BY <2>5, <2>9
  <2>11. \A n \in (p + 1)..Len(lg) : n <= Ahead(f, p, lg) <=> lg[n].at <= f
    <3>1. \A n \in (p + 1)..Len(lg) : n < t <=> n <= t - 1
      BY <1>1, <2>3
    <3> QED BY <2>7, <2>8, <3>1
  <2> QED BY <1>1, <2>9, <2>10, <2>11
<1> QED BY <1>3, <1>4

\* An ingest that runs.
LEMMA IngestFacts ==
  ASSUME ObservationsTypeOK, NEW i \in Ingests, Runs(i)
  PROVE  /\ ingest[i] \in Running /\ ingest[i].floor \in Nat /\ ingest[i].skip \in 0..MaxPerIngest
         /\ ingest[i].seen \in [Sources -> Nat] /\ ingest[i].high \in [Sources -> Nat]
         /\ ingest[i].pc \in {"open", "page", "advance"}
         /\ ingest[i].by \in {"call", "rebuild", "cron"}
BY DEF ObservationsTypeOK, Runs, Running

\* The rows of a page follow those already read.
LEMMA PageIs ==
  ASSUME ObservationsTypeOK, InTime(log), NEW i \in Ingests, At(i, "page")
  PROVE  \E L \in Nat :
           /\ Len(PageRows(i)) = L /\ ingest[i].skip + L \in 0..MaxPerIngest
           /\ L > 0 => Passed(ingest[i], purged, log) + L <= Len(log)
           /\ NewRows(i, PageRows(i)) =
                {n \in (Passed(ingest[i], purged, log) + 1)..(Passed(ingest[i], purged, log) + L) :
                   log[n].named /\ log[n].at > ingest[i].seen[log[n].of]}
<1> DEFINE g == ingest[i]
           there == Later(g.floor, purged, log)
           first == Cardinality(there)
           from  == Len(log) - first + 1 + g.skip
           take  == Smaller(Chunk, MaxPerIngest - g.skip)
           L == Smaller(take, IF first > g.skip THEN first - g.skip ELSE 0)
           page == [n \in 1..L |-> from + n - 1]
<1>1. PageRows(i) = page
  BY DEF PageRows, Later
<1>2. g.floor \in Nat /\ g.skip \in 0..MaxPerIngest /\ MaxPerIngest \in Nat /\ Chunk \in Nat
  BY IngestFacts, ObservationsAssumption DEF At
<1>3. /\ Ahead(g.floor, purged, log) \in purged..Len(log) /\ Len(log) \in Nat /\ purged \in Nat
      /\ first = Len(log) - Ahead(g.floor, purged, log) /\ Passed(ingest[i], purged, log) = Ahead(g.floor, purged, log) + g.skip
  <2>1. purged \in 0..Len(log) /\ log \in Seq(Row)
    BY DEF ObservationsTypeOK, Row
  <2>2. /\ Ahead(g.floor, purged, log) \in purged..Len(log) /\ Len(log) \in Nat
        /\ first = Len(log) - Ahead(g.floor, purged, log)
    BY <1>2, <2>1, AheadIs
  <2>3. Passed(g, purged, log) = Ahead(g.floor, purged, log) + g.skip
    BY DEF Passed
  <2> QED BY <2>1, <2>2, <2>3
<1> HIDE DEF g, there, first
<1>4. from = Passed(ingest[i], purged, log) + 1 /\ from \in Nat /\ Passed(ingest[i], purged, log) \in Nat /\ first \in Nat
  <2> DEFINE a == Ahead(g.floor, purged, log)
  <2>1. a \in Nat /\ g.skip \in Nat /\ Len(log) \in Nat /\ a <= Len(log)
    BY <1>2, <1>3
  <2>2. first = Len(log) - a /\ Passed(ingest[i], purged, log) = a + g.skip
    BY <1>3
  <2>3. from = Len(log) - first + 1 + g.skip
    OBVIOUS
  <2> HIDE DEF a, from
  <2> QED BY <2>1, <2>2, <2>3
<1>5. take \in Nat /\ take <= MaxPerIngest - g.skip
  BY <1>2 DEF Smaller
<1> HIDE DEF from, take
<1>6. L \in Nat /\ L <= take /\ (L > 0 => L <= first - g.skip)
  BY <1>2, <1>4, <1>5 DEF Smaller
<1> HIDE DEF L
<1>7. g.skip + L \in 0..MaxPerIngest /\ (L > 0 => Passed(ingest[i], purged, log) + L <= Len(log))
  <2> DEFINE a == Ahead(g.floor, purged, log)
             s == g.skip
             p == Passed(ingest[i], purged, log)
             end == Len(log)
             take1 == take
  <2>1. a \in Nat /\ end \in Nat /\ first = end - a /\ p = a + s
    BY <1>3
  <2>2. s \in Nat /\ s <= MaxPerIngest /\ MaxPerIngest \in Nat /\ L \in Nat
    BY <1>2, <1>6
  <2>3. take1 \in Nat /\ take1 <= MaxPerIngest - s /\ L <= take1 /\ (L > 0 => L <= first - s)
    BY <1>5, <1>6
  <2> HIDE DEF a, s, p, end, take1
  <2>4. s + L \in 0..MaxPerIngest /\ (L > 0 => p + L <= end)
    BY <2>1, <2>2, <2>3
  <2> QED BY <2>4 DEF s, p, end
<1>8. Len(page) = L /\ DOMAIN page = 1..L
  <2>1. page \in [1..L -> Nat]
    BY <1>4, <1>6
  <2>2. page \in Seq(Nat) /\ DOMAIN page = 1..L
    BY <1>6, <2>1, SeqDef
  <2> HIDE DEF page
  <2> QED BY <1>6, <2>2, LenProperties
<1>9. NewRows(i, page) = {n \in (Passed(ingest[i], purged, log) + 1)..(Passed(ingest[i], purged, log) + L) :
                            log[n].named /\ log[n].at > ingest[i].seen[log[n].of]}
  <2> DEFINE Fresh(n) == log[n].named /\ log[n].at > ingest[i].seen[log[n].of]
             P == {m \in DOMAIN page : Fresh(page[m])}
  <2>1. NewRows(i, page) = {page[n] : n \in P}
    BY DEF NewRows
  <2>2. \A m \in 1..L : page[m] = Passed(ingest[i], purged, log) + m
    BY <1>4
  <2> HIDE DEF page, Fresh
  <2>3. \A n \in (Passed(ingest[i], purged, log) + 1)..(Passed(ingest[i], purged, log) + L) : n - Passed(ingest[i], purged, log) \in 1..L /\ Passed(ingest[i], purged, log) + (n - Passed(ingest[i], purged, log)) = n
    BY <1>4, <1>6
  <2>4. \A m \in 1..L : Passed(ingest[i], purged, log) + m \in (Passed(ingest[i], purged, log) + 1)..(Passed(ingest[i], purged, log) + L)
    BY <1>4, <1>6
  <2>5. \A n \in NewRows(i, page) : n \in (Passed(ingest[i], purged, log) + 1)..(Passed(ingest[i], purged, log) + L) /\ Fresh(n)
    BY <1>8, <2>1, <2>2, <2>4
  <2>6. ASSUME NEW n \in (Passed(ingest[i], purged, log) + 1)..(Passed(ingest[i], purged, log) + L), Fresh(n) PROVE n \in NewRows(i, page)
    <3> DEFINE m == n - Passed(ingest[i], purged, log)
    <3>1. m \in 1..L /\ page[m] = n
      BY <2>2, <2>3
    <3> HIDE DEF m
    <3>2. m \in P
      BY <1>8, <2>6, <3>1
    <3> QED BY <2>1, <3>1, <3>2
  <2>7. NewRows(i, page) = {n \in (Passed(ingest[i], purged, log) + 1)..(Passed(ingest[i], purged, log) + L) : Fresh(n)}
    BY <2>5, <2>6
  <2> QED BY <2>7 DEF Fresh
<1> HIDE DEF page
<1> QED BY <1>1, <1>6, <1>7, <1>8, <1>9 DEF g

\* What Highest makes of the time of a connector.
LEMMA HighestIs ==
  ASSUME ObservationsTypeOK, InTime(log), NEW high \in [Sources -> Nat], NEW page,
         NEW new \in SUBSET DOMAIN log, NEW k \in Sources
  PROVE  /\ Highest(high, page, new)[k] \in Nat /\ Highest(high, page, new)[k] >= high[k]
         /\ \A m \in new : log[m].of = k => log[m].at <= Highest(high, page, new)[k]
         /\ \/ Highest(high, page, new)[k] = high[k]
            \/ \E m \in new : log[m].of = k /\ log[m].at = Highest(high, page, new)[k]
<1> DEFINE of == {log[n].at : n \in {m \in new : log[m].of = k}} \union {high[k]}
           t == CHOOSE x \in of : \A y \in of : y <= x
<1>1. Highest(high, page, new)[k] = t
  BY DEF Highest
<1>2. \A n \in DOMAIN log : n \in 1..Len(log) /\ log[n].at \in Nat
  <2>1. log \in Seq([of : Sources, at : Nat, named : BOOLEAN])
    BY DEF ObservationsTypeOK
  <2>2. DOMAIN log = 1..Len(log)
    BY <2>1, LenProperties
  <2> QED BY <2>2, RowFacts
<1>3. \E x \in of : \A y \in of : y <= x
  <2>0. high[k] \in Nat
    OBVIOUS
  <2>1. CASE DOMAIN log = {}
    <3>1. of = {high[k]}
      BY <2>1
    <3> HIDE DEF of
    <3> QED BY <2>0, <3>1
  <2>2. CASE DOMAIN log # {}
    <3> DEFINE last == log[Len(log)].at
               N == last + high[k]
    <3>1. Len(log) \in DOMAIN log /\ Len(log) \in Nat /\ \A n \in DOMAIN log : n <= Len(log)
      <4>1. log \in Seq([of : Sources, at : Nat, named : BOOLEAN])
        BY DEF ObservationsTypeOK
      <4>2. DOMAIN log = 1..Len(log) /\ Len(log) \in Nat
        BY <4>1, LenProperties
      <4> QED BY <2>2, <4>2
    <3>2. last \in Nat /\ N \in Nat
      BY <1>2, <3>1
    <3>3. \A n \in DOMAIN log : log[n].at <= last
      BY <1>2, <3>1 DEF InTime
    <3> HIDE DEF last
    <3>4. \A n \in DOMAIN log : log[n].at \in 0..N
      BY <1>2, <2>0, <3>2, <3>3
    <3>5. high[k] \in 0..N
      BY <2>0, <3>2
    <3>6. of \in SUBSET (0..N) /\ of # {}
      BY <3>4, <3>5
    <3> HIDE DEF of, N
    <3> QED BY <3>2, <3>6, GreatestNatural
  <2> QED BY <2>1, <2>2
<1>4. t \in of /\ \A y \in of : y <= t
  <2> HIDE DEF of
  <2> QED BY <1>3
<1> HIDE DEF t
<1>5. t = high[k] \/ \E m \in new : log[m].of = k /\ log[m].at = t
  BY <1>4
<1>6. t \in Nat
  BY <1>2, <1>5
<1>7. t >= high[k] /\ \A m \in new : log[m].of = k => log[m].at <= t
  BY <1>2, <1>4, <1>6
<1> QED BY <1>1, <1>5, <1>6, <1>7

\* What has been taken stays taken when rows are counted or purged.
LEMMA TakenGrows ==
  ASSUME NEW lg \in Seq(Row), NEW p \in Nat, NEW q \in Nat, p <= q, NEW cnt, NEW new,
         \A n \in 1..Len(lg) : cnt[n] > 0 => new[n] > 0,
         NEW k, NEW b, Taken(k, b, p, lg, cnt)
  PROVE  Taken(k, b, q, lg, new)
<1>1. \A n \in (q + 1)..Len(lg) : n \in (p + 1)..Len(lg) /\ n \in 1..Len(lg)
  BY LenProperties
<1> QED BY <1>1 DEF Taken

\* An ingest at its first page has read nothing.
LEMMA ReadsFresh ==
  ASSUME NEW lg \in Seq(Row), InTime(lg), NEW p \in 0..Len(lg), NEW cnt,
         NEW g, g.skip = 0, g.floor \in Nat, g.seen \in [Sources -> Nat],
         \A k \in Sources : Taken(k, g.seen[k], p, lg, cnt) /\ g.floor <= g.seen[k]
  PROVE  Reads(g, p, lg, cnt)
<1>1. /\ Ahead(g.floor, p, lg) \in p..Len(lg) /\ Len(lg) \in Nat
      /\ \A n \in (p + 1)..Len(lg) : n <= Ahead(g.floor, p, lg) <=> lg[n].at <= g.floor
  BY AheadIs
<1>2. Passed(g, p, lg) = Ahead(g.floor, p, lg)
  BY <1>1 DEF Passed
<1>3. ASSUME NEW n \in (p + 1)..Passed(g, p, lg) PROVE ~ lg[n].at > g.seen[lg[n].of]
  <2>1. n \in (p + 1)..Len(lg) /\ lg[n].at <= g.floor /\ n \in 1..Len(lg)
    BY <1>1, <1>2
  <2>2. lg[n] \in Row
    BY <2>1, ElementOfSeq
  <2>3. g.floor <= g.seen[lg[n].of] /\ lg[n].at \in Nat /\ g.seen[lg[n].of] \in Nat
    BY <2>2 DEF Row
  <2> QED BY <2>1, <2>3
<1> QED BY <1>1, <1>2, <1>3 DEF Reads

\* Counting keeps what an ingest has done.
LEMMA ReadsGrows ==
  ASSUME NEW lg \in Seq(Row), NEW p \in 0..Len(lg), NEW cnt, NEW new,
         NEW g, g.floor \in Nat, InTime(lg), g.skip \in Nat,
         \A n \in 1..Len(lg) : cnt[n] > 0 => new[n] > 0, Reads(g, p, lg, cnt)
  PROVE  Reads(g, p, lg, new)
<1>1. Len(lg) \in Nat /\ p \in Nat /\ p <= p
  BY LenProperties
<1>2. ASSUME NEW k \in Sources PROVE Taken(k, g.seen[k], p, lg, new)
  <2>1. Taken(k, g.seen[k], p, lg, cnt)
    BY DEF Reads
  <2> QED BY <1>1, <2>1, TakenGrows
<1>3. Passed(g, p, lg) <= Len(lg) /\ Passed(g, p, lg) \in Nat
  <2>1. Ahead(g.floor, p, lg) \in p..Len(lg)
    BY AheadIs
  <2>2. Ahead(g.floor, p, lg) \in Nat
    BY <1>1, <2>1
  <2> QED BY <2>2 DEF Reads, Passed
<1>4. \A n \in (p + 1)..Passed(g, p, lg) : n \in 1..Len(lg)
  BY <1>1, <1>3
<1> QED BY <1>2, <1>3, <1>4 DEF Reads

\* Retention purges p to q: the rows before the first later one are more, if anything.
LEMMA AheadGrows ==
  ASSUME NEW lg \in Seq(Row), InTime(lg), NEW p \in 0..Len(lg), NEW q \in 0..Len(lg), p <= q,
         NEW f \in Nat
  PROVE  Ahead(f, p, lg) <= Ahead(f, q, lg) /\ Ahead(f, p, lg) \in Nat /\ Ahead(f, q, lg) \in Nat
<1> DEFINE a == Ahead(f, p, lg)
           b == Ahead(f, q, lg)
<1>1. Len(lg) \in Nat /\ p \in Nat /\ q \in Nat
  BY LenProperties
<1>2. a \in p..Len(lg) /\ \A n \in (p + 1)..Len(lg) : n <= a <=> lg[n].at <= f
  BY AheadIs
<1>3. b \in q..Len(lg) /\ \A n \in (q + 1)..Len(lg) : n <= b <=> lg[n].at <= f
  BY AheadIs
<1> HIDE DEF a, b
<1>4. a \in Nat /\ b \in Nat
  BY <1>1, <1>2, <1>3
<1>5. ASSUME b < a PROVE FALSE
  <2>1. b + 1 \in (q + 1)..Len(lg) /\ b + 1 \in (p + 1)..Len(lg) /\ b + 1 <= a /\ ~ b + 1 <= b
    BY <1>1, <1>2, <1>3, <1>4, <1>5
  <2> QED BY <1>2, <1>3, <2>1
<1>6. a <= b
  BY <1>4, <1>5
<1> QED BY <1>4, <1>6 DEF a, b

\* What an ingest covers it covers after a deletion.
LEMMA CoversPurged ==
  ASSUME NEW lg \in Seq(Row), InTime(lg), NEW p \in 0..Len(lg), NEW q \in 0..Len(lg), p <= q,
         NEW g, g.floor \in Nat, g.skip \in Nat, NEW n \in 1..Len(lg), Covers(g, n, p, lg)
  PROVE  Covers(g, n, q, lg)
<1>1. Ahead(g.floor, p, lg) <= Ahead(g.floor, q, lg) /\ Ahead(g.floor, p, lg) \in Nat /\ Ahead(g.floor, q, lg) \in Nat
  BY AheadGrows
<1>2. Passed(g, p, lg) \in Nat /\ Passed(g, q, lg) \in Nat /\ Passed(g, p, lg) <= Passed(g, q, lg) /\ n \in Nat
  BY <1>1 DEF Passed
<1> QED BY <1>2 DEF Covers

\* A row that has been written, of the time of the last one or a later one.
Follows(lg, r) == r \in Row /\ r.at >= 1 /\ (Len(lg) > 0 => lg[Len(lg)].at <= r.at)

\* The rows after another row was written.
LEMMA AppendIs ==
  ASSUME NEW lg \in Seq(Row), NEW r, InTime(lg), Follows(lg, r)
  PROVE  /\ Append(lg, r) \in Seq(Row) /\ Len(Append(lg, r)) = Len(lg) + 1 /\ Len(lg) \in Nat
         /\ DOMAIN lg = 1..Len(lg) /\ DOMAIN Append(lg, r) = 1..(Len(lg) + 1)
         /\ \A n \in 1..Len(lg) : Append(lg, r)[n] = lg[n] /\ lg[n].at \in Nat /\ lg[n].at <= r.at
         /\ Append(lg, r)[Len(lg) + 1] = r /\ r.at \in Nat
<1> DEFINE w == Append(lg, r)
<1>1. r \in Row /\ r.at \in Nat
  BY DEF Follows, Row
<1>2. w \in Seq(Row) /\ Len(w) = Len(lg) + 1 /\ (\A n \in 1..Len(lg) : w[n] = lg[n]) /\ w[Len(lg) + 1] = r
  BY <1>1, AppendProperties
<1>3. DOMAIN lg = 1..Len(lg) /\ Len(lg) \in Nat
  BY LenProperties
<1> HIDE DEF w
<1>4. DOMAIN w = 1..(Len(lg) + 1)
  BY <1>2, LenProperties
<1>5. \A n \in 1..Len(lg) : lg[n].at \in Nat
  <2> TAKE n \in 1..Len(lg)
  <2>1. lg[n] \in Row
    BY ElementOfSeq
  <2> QED BY <2>1 DEF Row
<1>6. ASSUME NEW n \in 1..Len(lg) PROVE lg[n].at <= r.at
  <2>1. Len(lg) \in 1..Len(lg) /\ Len(lg) > 0
    BY <1>3
  <2>2. lg[n].at <= lg[Len(lg)].at
    BY <1>3, <2>1 DEF InTime
  <2> QED BY <1>1, <1>5, <2>1, <2>2 DEF Follows
<1> QED BY <1>1, <1>2, <1>3, <1>4, <1>5, <1>6 DEF w

\* They are in order.
LEMMA InTimeAppend ==
  ASSUME NEW lg \in Seq(Row), NEW r, InTime(lg), Follows(lg, r)
  PROVE  InTime(Append(lg, r))
<1> DEFINE w == Append(lg, r)
<1>1. /\ Len(lg) \in Nat /\ DOMAIN lg = 1..Len(lg) /\ DOMAIN w = 1..(Len(lg) + 1)
      /\ \A n \in 1..Len(lg) : w[n] = lg[n] /\ lg[n].at \in Nat /\ lg[n].at <= r.at
      /\ w[Len(lg) + 1] = r /\ r.at \in Nat
  BY AppendIs
<1> HIDE DEF w
<1>2. \A n \in DOMAIN w : w[n].at >= 1
  <2>1. r.at >= 1
    BY DEF Follows
  <2> QED BY <1>1, <2>1 DEF InTime
<1>3. ASSUME NEW m \in DOMAIN w, NEW n \in DOMAIN w, m <= n PROVE w[m].at <= w[n].at
  <2>1. CASE n \in 1..Len(lg)
    <3>1. m \in 1..Len(lg)
      BY <1>1, <1>3, <2>1
    <3> QED BY <1>1, <1>3, <2>1, <3>1 DEF InTime
  <2>2. CASE n = Len(lg) + 1
    <3>1. CASE m \in 1..Len(lg)
      BY <1>1, <2>2, <3>1
    <3>2. CASE m = Len(lg) + 1
      BY <1>1, <2>2, <3>2
    <3> QED BY <1>1, <3>1, <3>2
  <2> QED BY <1>1, <2>1, <2>2
<1>4. InTime(w)
  BY <1>2, <1>3 DEF InTime
<1> QED BY <1>4 DEF w

\* A watermark stays the time of a row.
LEMMA TimedAppend ==
  ASSUME NEW lg \in Seq(Row), NEW r, InTime(lg), Follows(lg, r), NEW k, NEW b, Timed(k, b, lg)
  PROVE  Timed(k, b, Append(lg, r))
<1>1. /\ Len(lg) \in Nat /\ DOMAIN lg = 1..Len(lg) /\ DOMAIN Append(lg, r) = 1..(Len(lg) + 1)
      /\ \A n \in 1..Len(lg) : Append(lg, r)[n] = lg[n]
  BY AppendIs
<1>2. \A n \in 1..Len(lg) : n \in 1..(Len(lg) + 1)
  BY <1>1
<1> QED BY <1>1, <1>2 DEF Timed

\* The row has not been taken, but it is no later than one of its connector that has.
LEMMA TakenAppend ==
  ASSUME NEW lg \in Seq(Row), NEW r, InTime(lg), Follows(lg, r), NEW p \in 0..Len(lg), NEW cnt, NEW new,
         \A n \in 1..Len(lg) : new[n] = cnt[n],
         NEW k, NEW b \in Nat, Timed(k, b, lg), Taken(k, b, p, lg, cnt)
  PROVE  Taken(k, b, p, Append(lg, r), new)
<1> DEFINE w == Append(lg, r)
<1>1. /\ Len(lg) \in Nat /\ DOMAIN lg = 1..Len(lg) /\ Len(w) = Len(lg) + 1
      /\ \A n \in 1..Len(lg) : w[n] = lg[n] /\ lg[n].at \in Nat /\ lg[n].at <= r.at
      /\ w[Len(lg) + 1] = r /\ r.at \in Nat
  BY AppendIs
<1> HIDE DEF w
<1>2. SUFFICES ASSUME NEW n \in (p + 1)..Len(w), w[n].of = k, w[n].named, w[n].at <= b
               PROVE  new[n] > 0 \/ \E m \in 1..(n - 1) : w[m].of = w[n].of /\ w[m].at = w[n].at
  BY DEF Taken, w
<1>p. p \in Nat
  BY <1>1
<1>3. CASE n \in (p + 1)..Len(lg)
  <2>1. n \in 1..Len(lg) /\ \A m \in 1..(n - 1) : m \in 1..Len(lg)
    BY <1>1, <1>3, <1>p
  <2>2. cnt[n] > 0 \/ \E m \in 1..(n - 1) : lg[m].of = lg[n].of /\ lg[m].at = lg[n].at
    BY <1>1, <1>2, <1>3, <2>1 DEF Taken
  <2>3. CASE cnt[n] > 0
    BY <2>1, <2>3
  <2>4. CASE \E m \in 1..(n - 1) : lg[m].of = lg[n].of /\ lg[m].at = lg[n].at
    <3>1. PICK m \in 1..(n - 1) : lg[m].of = lg[n].of /\ lg[m].at = lg[n].at
      BY <2>4
    <3>2. w[m] = lg[m] /\ w[n] = lg[n]
      BY <1>1, <2>1
    <3> QED BY <3>1, <3>2
  <2> QED BY <2>2, <2>3, <2>4
<1>4. CASE n = Len(lg) + 1
  <2>1. r.at <= b /\ r.of = k /\ r.at >= 1
    BY <1>1, <1>2, <1>4 DEF Follows
  <2>2. b # 0
    BY <1>1, <2>1
  <2>3. PICK m \in 1..Len(lg) : lg[m].of = k /\ lg[m].at = b
    BY <1>1, <2>2 DEF Timed
  <2>4. m \in 1..(n - 1) /\ w[m] = lg[m] /\ lg[m].at = r.at
    BY <1>1, <1>4, <2>1, <2>3
  <2> QED BY <1>1, <1>4, <2>1, <2>3, <2>4
<1> QED BY <1>1, <1>2, <1>3, <1>4, <1>p

\* The rows before the first later one stay the same if there is one.
LEMMA AheadAppend ==
  ASSUME NEW lg \in Seq(Row), NEW r, InTime(lg), Follows(lg, r), NEW p \in 0..Len(lg), NEW f \in Nat
  PROVE  /\ Ahead(f, p, lg) \in Nat /\ Ahead(f, p, Append(lg, r)) \in Nat
         /\ Ahead(f, p, lg) <= Ahead(f, p, Append(lg, r))
         /\ Ahead(f, p, lg) < Len(lg) => Ahead(f, p, Append(lg, r)) = Ahead(f, p, lg)
         /\ Ahead(f, p, Append(lg, r)) <= Len(lg) + 1
<1> DEFINE w == Append(lg, r)
           a == Ahead(f, p, lg)
           b == Ahead(f, p, w)
<1>1. /\ Len(lg) \in Nat /\ w \in Seq(Row) /\ Len(w) = Len(lg) + 1 /\ p \in Nat /\ p \in 0..Len(w)
      /\ \A n \in 1..Len(lg) : w[n] = lg[n]
  <2>1. /\ Len(lg) \in Nat /\ w \in Seq(Row) /\ Len(w) = Len(lg) + 1
        /\ \A n \in 1..Len(lg) : w[n] = lg[n]
    BY AppendIs
  <2>2. p \in Nat /\ p \in 0..(Len(lg) + 1)
    BY <2>1
  <2> HIDE DEF w
  <2> QED BY <2>1, <2>2
<1>2. InTime(w)
  BY InTimeAppend
<1>3. a \in p..Len(lg) /\ \A n \in (p + 1)..Len(lg) : n <= a <=> lg[n].at <= f
  BY AheadIs
<1>4. b \in p..Len(w) /\ \A n \in (p + 1)..Len(w) : n <= b <=> w[n].at <= f
  <2> HIDE DEF w
  <2> QED BY <1>1, <1>2, AheadIs
<1> HIDE DEF a, b, w
<1>5. a \in Nat /\ b \in Nat /\ b <= Len(lg) + 1
  BY <1>1, <1>3, <1>4
<1>6. ASSUME b < a PROVE FALSE
  <2>1. b + 1 \in (p + 1)..Len(lg) /\ b + 1 \in (p + 1)..Len(w) /\ b + 1 <= a /\ ~ b + 1 <= b /\ b + 1 \in 1..Len(lg)
    BY <1>1, <1>3, <1>4, <1>5, <1>6
  <2> QED BY <1>1, <1>3, <1>4, <2>1
<1>7. ASSUME a < Len(lg), a < b PROVE FALSE
  <2>1. a + 1 \in (p + 1)..Len(lg) /\ a + 1 \in (p + 1)..Len(w) /\ a + 1 <= b /\ ~ a + 1 <= a /\ a + 1 \in 1..Len(lg)
    BY <1>1, <1>3, <1>4, <1>5, <1>7
  <2> QED BY <1>1, <1>3, <1>4, <2>1
<1> QED BY <1>5, <1>6, <1>7 DEF a, b, w

\* What an ingest has read stays read.
LEMMA ReadsAppend ==
  ASSUME NEW lg \in Seq(Row), NEW r, InTime(lg), Follows(lg, r), NEW p \in 0..Len(lg), NEW cnt, NEW new,
         \A n \in 1..Len(lg) : new[n] = cnt[n],
         NEW g, g.floor \in Nat, g.skip \in Nat, g.seen \in [Sources -> Nat],
         \A k \in Sources : Timed(k, g.seen[k], lg) /\ g.floor <= g.seen[k],
         Reads(g, p, lg, cnt)
  PROVE  Reads(g, p, Append(lg, r), new)
<1> DEFINE w == Append(lg, r)
<1>1. /\ Len(lg) \in Nat /\ w \in Seq(Row) /\ Len(w) = Len(lg) + 1 /\ p \in Nat /\ p \in 0..Len(w)
      /\ \A n \in 1..Len(lg) : w[n] = lg[n]
  <2>1. /\ Len(lg) \in Nat /\ w \in Seq(Row) /\ Len(w) = Len(lg) + 1
        /\ \A n \in 1..Len(lg) : w[n] = lg[n]
    BY AppendIs
  <2>2. p \in Nat /\ p \in 0..(Len(lg) + 1)
    BY <2>1
  <2> HIDE DEF w
  <2> QED BY <2>1, <2>2
<1>2. ASSUME NEW k \in Sources PROVE Taken(k, g.seen[k], p, w, new)
  <2>1. Taken(k, g.seen[k], p, lg, cnt) /\ Timed(k, g.seen[k], lg) /\ g.seen[k] \in Nat
    BY DEF Reads
  <2> QED BY <2>1, TakenAppend
<1>3. InTime(w)
  BY InTimeAppend
<1>4. /\ Ahead(g.floor, p, lg) \in Nat /\ Ahead(g.floor, p, w) \in Nat
      /\ Ahead(g.floor, p, lg) <= Ahead(g.floor, p, w)
      /\ Ahead(g.floor, p, lg) < Len(lg) => Ahead(g.floor, p, w) = Ahead(g.floor, p, lg)
      /\ Ahead(g.floor, p, w) <= Len(lg) + 1
  BY AheadAppend
<1> HIDE DEF w
<1>5. CASE g.skip = 0
  <2>1. \A k \in Sources : Taken(k, g.seen[k], p, w, new) /\ g.floor <= g.seen[k]
    BY <1>2
  <2>2. Reads(g, p, w, new)
    BY <1>1, <1>3, <1>5, <2>1, ReadsFresh
  <2> QED BY <2>2 DEF w
<1>6. CASE g.skip # 0
  <2>1. Passed(g, p, w) = Passed(g, p, lg) /\ Passed(g, p, lg) \in Nat /\ Passed(g, p, lg) <= Len(lg)
    <3>1. Passed(g, p, lg) = Ahead(g.floor, p, lg) + g.skip /\ Passed(g, p, w) = Ahead(g.floor, p, w) + g.skip
      BY DEF Passed
    <3>2. Passed(g, p, lg) <= Len(lg)
      BY DEF Reads
    <3> QED BY <1>1, <1>4, <1>6, <3>1, <3>2
  <2>2. ASSUME NEW n \in (p + 1)..Passed(g, p, w), w[n].named, w[n].at > g.seen[w[n].of]
        PROVE  new[n] > 0
    <3>1. n \in (p + 1)..Passed(g, p, lg) /\ n \in 1..Len(lg)
      BY <1>1, <2>1
    <3> QED BY <1>1, <2>2, <3>1 DEF Reads
  <2>3. Reads(g, p, w, new)
    BY <1>1, <1>2, <2>1, <2>2 DEF Reads
  <2> QED BY <2>3 DEF w
<1> QED BY <1>5, <1>6

\* What an ingest covers it covers after a row was written.
LEMMA CoversAppend ==
  ASSUME NEW lg \in Seq(Row), NEW r, InTime(lg), Follows(lg, r), NEW p \in 0..Len(lg),
         NEW g, g.floor \in Nat, g.skip \in Nat, NEW n \in 1..Len(lg), Covers(g, n, p, lg)
  PROVE  Covers(g, n, p, Append(lg, r))
<1>1. /\ Ahead(g.floor, p, lg) \in Nat /\ Ahead(g.floor, p, Append(lg, r)) \in Nat
      /\ Ahead(g.floor, p, lg) <= Ahead(g.floor, p, Append(lg, r))
  BY AheadAppend
<1>2. Append(lg, r)[n] = lg[n]
  BY AppendIs
<1>3. Passed(g, p, lg) \in Nat /\ Passed(g, p, Append(lg, r)) \in Nat /\ Passed(g, p, lg) <= Passed(g, p, Append(lg, r)) /\ n \in Nat
  BY <1>1 DEF Passed
<1> QED BY <1>2, <1>3 DEF Covers

\* What the variables are.
LEMMA ObsFacts ==
  ASSUME ObsInv
  PROVE  /\ log \in Seq(Row) /\ Len(log) \in Nat /\ DOMAIN log = 1..Len(log) /\ InTime(log)
         /\ purged \in 0..Len(log) /\ purged \in Nat
         /\ counted \in [1..Len(log) -> 0..2] /\ mark \in [Sources -> Nat]
         /\ ingest \in [Ingests -> Running \union {Idling}]
<1>1. log \in Seq(Row) /\ purged \in 0..Len(log) /\ counted \in [DOMAIN log -> 0..2]
  BY DEF ObsInv, ObservationsTypeOK, Row
<1>2. Len(log) \in Nat /\ DOMAIN log = 1..Len(log)
  BY <1>1, LenProperties
<1> QED BY <1>1, <1>2 DEF ObsInv, ObservationsTypeOK

\* The fields of an ingest that runs.
LEMMA RunningFacts ==
  ASSUME NEW g \in Running
  PROVE  /\ g.floor \in Nat /\ g.skip \in 0..MaxPerIngest /\ g.skip \in Nat
         /\ g.seen \in [Sources -> Nat] /\ g.high \in [Sources -> Nat]
         /\ g.pc \in {"open", "page", "advance"} /\ g.by \in {"call", "rebuild", "cron"}
<1>1. MaxPerIngest \in Nat
  BY ObservationsAssumption
<1> QED BY <1>1 DEF Running

\* A row is written.
LEMMA LogKeeps ==
  ASSUME ObsInv, NEW s \in Sources, NEW named \in BOOLEAN, Log(s, named)
  PROVE  ObsInv'
<1>1. /\ log \in Seq(Row) /\ Len(log) \in Nat /\ DOMAIN log = 1..Len(log) /\ InTime(log)
      /\ purged \in 0..Len(log) /\ purged \in Nat
      /\ counted \in [1..Len(log) -> 0..2] /\ mark \in [Sources -> Nat]
      /\ ingest \in [Ingests -> Running \union {Idling}]
  BY ObsFacts
<1>2. PICK r : log' = Append(log, r) /\ Follows(log, r)
  <2>1. PICK at \in IF log = <<>> THEN {1} ELSE {log[Len(log)].at, log[Len(log)].at + 1} :
          log' = Append(log, [of |-> s, at |-> at, named |-> named])
    BY DEF Log
  <2> DEFINE r == [of |-> s, at |-> at, named |-> named]
  <2>2. CASE log = <<>>
    <3>1. Len(log) = 0 /\ at = 1
      BY <2>1, <2>2
    <3>2. r \in Row /\ r.at = 1
      BY <3>1 DEF Row
    <3>3. Follows(log, r)
      BY <3>1, <3>2 DEF Follows
    <3> QED BY <2>1, <3>3
  <2>3. CASE log # <<>>
    <3>1. Len(log) \in 1..Len(log)
      <4>1. Len(log) # 0
        BY <1>1, <2>3, EmptySeq
      <4> QED BY <1>1, <4>1
    <3>2. log[Len(log)].at \in Nat /\ log[Len(log)].at >= 1
      <4>1. log[Len(log)] \in Row
        BY <1>1, <3>1, ElementOfSeq
      <4> QED BY <1>1, <3>1, <4>1 DEF InTime, Row
    <3>3. at \in Nat /\ at >= 1 /\ log[Len(log)].at <= at
      BY <2>1, <2>3, <3>2
    <3>4. r \in Row /\ r.at = at
      BY <3>3 DEF Row
    <3>5. Follows(log, r)
      BY <3>3, <3>4 DEF Follows
    <3> QED BY <2>1, <3>5
  <2> QED BY <2>2, <2>3
<1>3. /\ log' \in Seq(Row) /\ Len(log') = Len(log) + 1 /\ DOMAIN log' = 1..(Len(log) + 1)
      /\ \A n \in 1..Len(log) : log'[n] = log[n]
  BY <1>1, <1>2, AppendIs
<1>4. counted' \in [1..(Len(log) + 1) -> 0..2] /\ counted'[Len(log) + 1] = 0
      /\ \A n \in 1..Len(log) : counted'[n] = counted[n]
  <2>1. counted' = Append(counted, 0)
    BY DEF Log
  <2>2. counted \in Seq(0..2) /\ Len(counted) = Len(log)
    <3>1. counted \in Seq(0..2) /\ DOMAIN counted = 1..Len(log)
      BY <1>1, SeqDef
    <3> QED BY <1>1, <3>1, LenProperties
  <2>3. 0 \in 0..2
    OBVIOUS
  <2>4. /\ Append(counted, 0) \in Seq(0..2) /\ Len(Append(counted, 0)) = Len(log) + 1
        /\ Append(counted, 0)[Len(log) + 1] = 0
        /\ \A n \in 1..Len(log) : Append(counted, 0)[n] = counted[n]
    BY <2>2, <2>3, AppendProperties
  <2>5. counted' \in Seq(0..2) /\ Len(counted') = Len(log) + 1
    BY <2>1, <2>4
  <2>6. DOMAIN counted' = 1..(Len(log) + 1)
    BY <2>5, LenProperties
  <2>7. \A n \in 1..(Len(log) + 1) : counted'[n] \in 0..2
    BY <2>5, ElementOfSeq
  <2>8. PICK m \in Nat : counted' \in [1..m -> 0..2]
    BY <2>5, SeqDef
  <2>9. counted' \in [1..(Len(log) + 1) -> 0..2]
    BY <2>6, <2>8
  <2> QED BY <2>1, <2>4, <2>9
<1>5. UNCHANGED <<purged, mark, ingest, cooling, locked, starts, overlapped, cutOff, shifted>>
  BY DEF Log, keysVars, historyVars
<1>6. ObservationsTypeOK'
  <2>1. purged' \in 0..Len(log')
    BY <1>1, <1>3, <1>5
  <2> QED BY <1>3, <1>4, <1>5, <2>1 DEF ObsInv, ObservationsTypeOK, Row
<1>7. InTime(log')
  BY <1>1, <1>2, InTimeAppend
<1>8. \A k \in Sources, b \in Nat : Timed(k, b, log) => Timed(k, b, log')
  BY <1>1, <1>2, TimedAppend
<1>9. \A k \in Sources : Timed(k, mark'[k], log')
  BY <1>1, <1>5, <1>8 DEF ObsInv
<1>10. ASSUME NEW i \in Ingests, ingest[i] # Idling
       PROVE  /\ Holds(ingest[i], log')
              /\ ~ shifted => TakenFor(ingest[i], purged, log', counted')
              /\ \A n \in 1..Len(log) : Covers(ingest[i], n, purged, log) => Covers(ingest[i], n, purged, log')
  <2> DEFINE g == ingest[i]
  <2>0. g \in Running /\ Holds(g, log)
    BY <1>1, <1>10 DEF ObsInv
  <2> HIDE DEF g
  <2>1. /\ g.floor \in Nat /\ g.skip \in Nat
        /\ g.seen \in [Sources -> Nat] /\ g.high \in [Sources -> Nat]
    BY <2>0, RunningFacts
  <2>2. Holds(g, log')
    BY <1>8, <2>0, <2>1 DEF Holds
  <2>3. ASSUME ~ shifted PROVE TakenFor(g, purged, log', counted')
    <3>1. TakenFor(g, purged, log, counted)
      BY <1>10, <2>3 DEF ObsInv, g
    <3>2. ASSUME NEW k \in Sources PROVE Taken(k, g.high[k], purged, log', counted')
      <4>1. Taken(k, g.high[k], purged, log, counted) /\ Timed(k, g.high[k], log) /\ g.high[k] \in Nat
        BY <2>0, <2>1, <3>1 DEF TakenFor, Holds
      <4> QED BY <1>1, <1>2, <1>4, <4>1, TakenAppend
    <3>3. ASSUME g.pc = "page" PROVE Reads(g, purged, log', counted')
      <4>1. Reads(g, purged, log, counted) /\ \A k \in Sources : Timed(k, g.seen[k], log) /\ g.floor <= g.seen[k]
        BY <2>0, <3>1, <3>3 DEF TakenFor, Holds
      <4> QED BY <1>1, <1>2, <1>4, <2>1, <4>1, ReadsAppend
    <3> QED BY <3>2, <3>3 DEF TakenFor
  <2>4. \A n \in 1..Len(log) : Covers(g, n, purged, log) => Covers(g, n, purged, log')
    BY <1>1, <1>2, <2>1, CoversAppend
  <2> QED BY <2>2, <2>3, <2>4 DEF g
<1>11. ASSUME ~ shifted, NEW k \in Sources PROVE Taken(k, mark[k], purged, log', counted')
  <2>1. Taken(k, mark[k], purged, log, counted) /\ Timed(k, mark[k], log) /\ mark[k] \in Nat
    BY <1>1, <1>11 DEF ObsInv
  <2> QED BY <1>1, <1>2, <1>4, <2>1, TakenAppend
<1>12. ASSUME ~ overlapped, ~ cutOff PROVE InTurn'
  <2>1. InTurn
    BY <1>12 DEF ObsInv
  <2>2. ASSUME NEW n \in 1..Len(log')
        PROVE  /\ counted'[n] <= 1
               /\ counted'[n] > 0 => \/ log'[n].at <= mark[log'[n].of]
                                     \/ \E i \in Ingests : ingest[i] # Idling /\ Covers(ingest[i], n, purged, log')
    <3>1. CASE n = Len(log) + 1
      BY <1>4, <3>1
    <3>2. CASE n \in 1..Len(log)
      <4>1. log'[n] = log[n] /\ counted'[n] = counted[n]
        BY <1>3, <1>4, <3>2
      <4>2. /\ counted[n] <= 1
            /\ counted[n] > 0 => \/ log[n].at <= mark[log[n].of]
                                 \/ \E i \in Ingests : ingest[i] # Idling /\ Covers(ingest[i], n, purged, log)
        BY <2>1, <3>2 DEF InTurn
      <4> QED BY <1>10, <3>2, <4>1, <4>2
    <3> QED BY <1>1, <1>3, <3>1, <3>2
  <2> QED BY <1>5, <2>1, <2>2 DEF InTurn
<1> QED BY <1>5, <1>6, <1>7, <1>9, <1>10, <1>11, <1>12 DEF ObsInv

\* Retention deletes the oldest rows.
LEMMA RetentionKeeps == ASSUME ObsInv, Retention PROVE ObsInv'
<1>1. /\ log \in Seq(Row) /\ Len(log) \in Nat /\ DOMAIN log = 1..Len(log) /\ InTime(log)
      /\ purged \in 0..Len(log) /\ purged \in Nat
      /\ counted \in [1..Len(log) -> 0..2] /\ mark \in [Sources -> Nat]
      /\ ingest \in [Ingests -> Running \union {Idling}]
  BY ObsFacts
<1>2. /\ UNCHANGED <<log, mark, ingest, cooling, locked, starts, counted, overlapped, cutOff>>
      /\ purged' > purged
      /\ shifted' = (shifted \/ \E i \in Ingests : At(i, "page") /\ ingest[i].skip > 0)
  BY DEF Retention, keysVars
<1>3. purged' \in 0..Len(log) /\ purged <= purged' /\ purged' \in Nat
  <2>1. PICK n \in (purged + 1)..Len(log) :
               purged' = Cardinality({m \in DOMAIN log : log[m].at < log[n].at})
    BY DEF Retention
  <2> DEFINE S == {m \in DOMAIN log : log[m].at < log[n].at}
  <2>2. IsFiniteSet(1..Len(log)) /\ Cardinality(1..Len(log)) = Len(log)
    <3>1. 1 \in Int /\ Len(log) \in Int
      BY <1>1
    <3>2. IsFiniteSet(1..Len(log)) /\ Cardinality(1..Len(log)) = IF 1 > Len(log) THEN 0 ELSE Len(log) - 1 + 1
      BY <3>1, FS_Interval
    <3> QED BY <1>1, <3>2
  <2>3. S \subseteq 1..Len(log)
    BY <1>1
  <2>4. IsFiniteSet(S) /\ Cardinality(S) <= Len(log)
    BY <2>2, <2>3, FS_Subset
  <2>5. Cardinality(S) \in Nat
    BY <2>4, FS_CardinalityType
  <2> QED BY <1>1, <1>2, <2>1, <2>4, <2>5
<1>4. ObservationsTypeOK'
  <2>1. shifted' \in BOOLEAN
    BY <1>2
  <2> QED BY <1>2, <1>3, <2>1 DEF ObsInv, ObservationsTypeOK
<1>5. \A n \in 1..Len(log) : counted[n] > 0 => counted[n] > 0
  OBVIOUS
<1>6. ASSUME ~ shifted' PROVE ~ shifted /\ \A i \in Ingests : ingest[i] # Idling /\ ingest[i].pc = "page" => ingest[i].skip = 0
  <2>1. ~ shifted /\ \A i \in Ingests : ~ (At(i, "page") /\ ingest[i].skip > 0)
    BY <1>2, <1>6
  <2>2. \A i \in Ingests : ingest[i] # Idling => ingest[i].skip \in Nat
    BY <1>1, RunningFacts
  <2> QED BY <2>1, <2>2 DEF At, Runs
<1>7. ASSUME ~ shifted', NEW k \in Sources, NEW b, Taken(k, b, purged, log, counted)
      PROVE  Taken(k, b, purged', log, counted)
  BY <1>1, <1>3, <1>5, <1>7, TakenGrows
<1>8. ASSUME ~ shifted', NEW i \in Ingests, ingest[i] # Idling
      PROVE  TakenFor(ingest[i], purged', log, counted)
  <2> DEFINE g == ingest[i]
  <2>0. g \in Running /\ Holds(g, log) /\ TakenFor(g, purged, log, counted) /\ (g.pc = "page" => g.skip = 0)
    BY <1>1, <1>6, <1>8 DEF ObsInv
  <2> HIDE DEF g
  <2>1. g.floor \in Nat /\ g.seen \in [Sources -> Nat]
    BY <2>0, RunningFacts
  <2>2. \A k \in Sources : Taken(k, g.high[k], purged', log, counted)
    BY <1>7, <1>8, <2>0 DEF TakenFor
  <2>3. ASSUME g.pc = "page" PROVE Reads(g, purged', log, counted)
    <3>1. Reads(g, purged, log, counted) /\ g.skip = 0 /\ \A k \in Sources : g.floor <= g.seen[k]
      BY <2>0, <2>3 DEF TakenFor, Holds
    <3>2. \A k \in Sources : Taken(k, g.seen[k], purged', log, counted)
      BY <1>7, <1>8, <3>1 DEF Reads
    <3> QED BY <1>1, <1>3, <2>1, <3>1, <3>2, ReadsFresh
  <2>4. TakenFor(g, purged', log, counted)
    BY <2>2, <2>3 DEF TakenFor
  <2> QED BY <2>4 DEF g
<1>9. ASSUME ~ shifted', NEW k \in Sources PROVE Taken(k, mark[k], purged', log, counted)
  BY <1>6, <1>7, <1>9 DEF ObsInv
<1>10. ASSUME NEW i \in Ingests, ingest[i] # Idling, NEW n \in 1..Len(log), Covers(ingest[i], n, purged, log)
       PROVE  Covers(ingest[i], n, purged', log)
  <2>1. ingest[i].floor \in Nat /\ ingest[i].skip \in Nat
    BY <1>1, <1>10, RunningFacts
  <2> QED BY <1>1, <1>3, <1>10, <2>1, CoversPurged
<1>11. ASSUME ~ overlapped, ~ cutOff PROVE InTurn'
  <2>1. InTurn
    BY <1>11 DEF ObsInv
  <2>2. ASSUME NEW n \in 1..Len(log)
        PROVE  /\ counted[n] <= 1
               /\ counted[n] > 0 => \/ log[n].at <= mark[log[n].of]
                                    \/ \E i \in Ingests : ingest[i] # Idling /\ Covers(ingest[i], n, purged', log)
    BY <1>10, <2>1 DEF InTurn
  <2> QED BY <1>2, <2>1, <2>2 DEF InTurn
<1> QED BY <1>2, <1>4, <1>8, <1>9, <1>11 DEF ObsInv

\* An ingest is started.
LEMMA StartKeeps ==
  ASSUME ObsInv, NEW i \in Ingests, NEW by \in {"call", "rebuild", "cron"}, Start(i, by),
         {cooling', locked'} \subseteq BOOLEAN
  PROVE  ObsInv'
<1> DEFINE g == [by |-> by, pc |-> "open", seen |-> [k \in Sources |-> 0], floor |-> 0, skip |-> 0,
                 high |-> [k \in Sources |-> 0]]
<1>1. /\ log \in Seq(Row) /\ Len(log) \in Nat /\ DOMAIN log = 1..Len(log) /\ InTime(log)
      /\ purged \in 0..Len(log) /\ purged \in Nat
      /\ counted \in [1..Len(log) -> 0..2] /\ mark \in [Sources -> Nat]
      /\ ingest \in [Ingests -> Running \union {Idling}]
  BY ObsFacts
<1>2. /\ ~ Runs(i) /\ starts < MaxStarts /\ starts' = starts + 1
      /\ ingest' = [ingest EXCEPT ![i] = g]
      /\ overlapped' = (overlapped \/ \E j \in Ingests : Runs(j))
      /\ UNCHANGED <<log, purged, mark, counted, cutOff, shifted>>
  BY DEF Start
<1>3. g \in Running
  <2>1. 0 \in 0..MaxPerIngest
    BY ObservationsAssumption
  <2> QED BY <2>1 DEF Running
<1>4. g # Idling /\ g.pc = "open" /\ g.skip = 0 /\ g.high = [k \in Sources |-> 0]
  BY <1>3, IdlingAssumption
<1> HIDE DEF g
<1>5. ingest'[i] = g /\ \A j \in Ingests : j # i => ingest'[j] = ingest[j]
  BY <1>1, <1>2
<1>6. ObservationsTypeOK'
  <2>1. ingest' \in [Ingests -> Running \union {Idling}]
    BY <1>1, <1>2, <1>3
  <2>2. starts' \in 0..MaxStarts
    BY <1>2, ObservationsAssumption DEF ObsInv, ObservationsTypeOK
  <2>3. overlapped' \in BOOLEAN
    BY <1>2 DEF ObsInv, ObservationsTypeOK
  <2> QED BY <1>2, <2>1, <2>2, <2>3 DEF ObsInv, ObservationsTypeOK
<1>7. Holds(g, log)
  BY <1>4 DEF Holds, Timed
<1>8. ASSUME NEW k \in Sources PROVE Taken(k, 0, purged, log, counted)
  <2>1. \A n \in (purged + 1)..Len(log) : ~ log[n].at <= 0
    BY <1>1, AllLater
  <2> QED BY <2>1 DEF Taken
<1>9. TakenFor(g, purged, log, counted)
  BY <1>4, <1>8 DEF TakenFor
<1>10. ASSUME ~ overlapped' PROVE ~ overlapped /\ \A j \in Ingests : ingest[j] = Idling
  BY <1>2, <1>10 DEF Runs
<1>11. ASSUME ~ overlapped', ~ cutOff' PROVE InTurn'
  <2>1. InTurn /\ \A j \in Ingests : ingest[j] = Idling
    BY <1>2, <1>10, <1>11 DEF ObsInv
  <2>2. \A n \in 1..Len(log) : counted[n] <= 1 /\ (counted[n] > 0 => log[n].at <= mark[log[n].of])
    BY <2>1 DEF InTurn
  <2>3. ASSUME NEW j \in Ingests, ingest'[j] # Idling
        PROVE  /\ ingest'[j].pc = "page" => ingest'[j].seen = mark
               /\ \A k \in Sources : ingest'[j].high[k] = 0 \/ ingest'[j].high[k] > mark[k]
    <3>1. j = i
      BY <1>5, <2>1, <2>3
    <3> QED BY <1>4, <1>5, <3>1
  <2> QED BY <1>2, <2>2, <2>3 DEF InTurn
<1>12. ASSUME ~ overlapped', NEW j \in Ingests, NEW h \in Ingests, ingest'[j] # Idling, ingest'[h] # Idling PROVE j = h
  BY <1>5, <1>10, <1>12
<1>13. ASSUME NEW j \in Ingests, ingest'[j] # Idling
       PROVE  Holds(ingest'[j], log) /\ (~ shifted => TakenFor(ingest'[j], purged, log, counted))
  <2>1. CASE j = i
    BY <1>5, <1>7, <1>9, <2>1
  <2>2. CASE j # i
    BY <1>5, <1>13, <2>2 DEF ObsInv
  <2> QED BY <2>1, <2>2
<1> QED BY <1>2, <1>6, <1>11, <1>12, <1>13 DEF ObsInv

\* The ingest reads the watermarks.
LEMMA OpenKeeps ==
  ASSUME ObsInv, NEW i \in Ingests, Open(i)
  PROVE  ObsInv'
<1> DEFINE g == [ingest[i] EXCEPT !.pc = "page", !.seen = mark, !.floor = Floor(mark)]
<1>1. /\ log \in Seq(Row) /\ Len(log) \in Nat /\ DOMAIN log = 1..Len(log) /\ InTime(log)
      /\ purged \in 0..Len(log) /\ purged \in Nat
      /\ counted \in [1..Len(log) -> 0..2] /\ mark \in [Sources -> Nat]
      /\ ingest \in [Ingests -> Running \union {Idling}]
  BY ObsFacts
<1>2. /\ ingest[i] # Idling /\ ingest[i].pc = "open" /\ ingest[i] \in Running
      /\ ingest' = [ingest EXCEPT ![i] = g]
      /\ UNCHANGED <<log, purged, mark, cooling, locked, starts, counted, overlapped, cutOff, shifted>>
  BY <1>1 DEF Open, At, Runs, keysVars, historyVars
<1>3. Floor(mark) \in Nat /\ \A k \in Sources : Floor(mark) <= mark[k]
  <2>1. CASE Sources = {}
    BY <2>1 DEF Floor
  <2>2. CASE Sources # {}
    <3> DEFINE S == {mark[k] : k \in Sources}
    <3>1. S \in SUBSET Nat /\ S # {}
      BY <1>1, <2>2
    <3>2. Floor(mark) = CHOOSE n \in S : \A m \in S : n <= m
      BY <2>2 DEF Floor, Lowest
    <3>3. \A k \in Sources : mark[k] \in S
      OBVIOUS
    <3> HIDE DEF S
    <3>4. \E n \in S : \A m \in S : n <= m
      BY <3>1, LeastNatural
    <3>5. Floor(mark) \in S /\ \A m \in S : Floor(mark) <= m
      BY <3>2, <3>4
    <3> QED BY <3>1, <3>3, <3>5
  <2> QED BY <2>1, <2>2
<1>4. /\ g.pc = "page" /\ g.seen = mark /\ g.floor = Floor(mark) /\ g.skip = ingest[i].skip
      /\ g.high = ingest[i].high /\ g.by = ingest[i].by
      /\ g \in Running
  BY <1>1, <1>2, <1>3 DEF Running
<1>5. g # Idling
  BY <1>4, IdlingAssumption
<1> HIDE DEF g
<1>6. ingest'[i] = g /\ \A j \in Ingests : j # i => ingest'[j] = ingest[j]
  BY <1>1, <1>2
<1>7. ObservationsTypeOK'
  <2>1. ingest' \in [Ingests -> Running \union {Idling}]
    BY <1>1, <1>2, <1>4
  <2> QED BY <1>2, <2>1 DEF ObsInv, ObservationsTypeOK
<1>8. Holds(ingest[i], log) /\ ingest[i].skip = 0 /\ \A k \in Sources : ingest[i].high[k] = 0
  BY <1>2 DEF ObsInv, Holds
<1>9. Holds(g, log)
  BY <1>1, <1>3, <1>4, <1>8 DEF Holds, ObsInv
<1>10. ASSUME ~ shifted PROVE TakenFor(g, purged, log, counted)
  <2>1. TakenFor(ingest[i], purged, log, counted) /\ \A k \in Sources : Taken(k, mark[k], purged, log, counted)
    BY <1>2, <1>10 DEF ObsInv
  <2>2. \A k \in Sources : Taken(k, g.high[k], purged, log, counted)
    BY <1>4, <2>1 DEF TakenFor
  <2>3. \A k \in Sources : Taken(k, g.seen[k], purged, log, counted) /\ g.floor <= g.seen[k]
    BY <1>3, <1>4, <2>1
  <2>4. g.skip = 0 /\ g.floor \in Nat /\ g.seen \in [Sources -> Nat]
    BY <1>1, <1>3, <1>4, <1>8
  <2>5. Reads(g, purged, log, counted)
    BY <1>1, <2>3, <2>4, ReadsFresh
  <2> QED BY <2>2, <2>5 DEF TakenFor
<1>11. ASSUME ~ overlapped', ~ cutOff' PROVE InTurn'
  <2>1. InTurn
    BY <1>2, <1>11 DEF ObsInv
  <2>2. ASSUME NEW n \in 1..Len(log), NEW j \in Ingests, ingest[j] # Idling, Covers(ingest[j], n, purged, log)
        PROVE  ingest'[j] # Idling /\ Covers(ingest'[j], n, purged, log)
    <3>1. CASE j = i
      <4>1. log[n].at \in Nat /\ log[n].of \in Sources /\ log[n].at >= 1
        <5>1. log[n] \in Row
          BY <1>1, ElementOfSeq
        <5> QED BY <1>1, <5>1 DEF InTime, Row
      <4>2. log[n].at <= 0
        BY <1>8, <2>2, <3>1, <4>1 DEF Covers
      <4> QED BY <4>1, <4>2
    <3>2. CASE j # i
      BY <1>6, <2>2, <3>2
    <3> QED BY <3>1, <3>2
  <2>3. ASSUME NEW n \in 1..Len(log)
        PROVE  /\ counted[n] <= 1
               /\ counted[n] > 0 => \/ log[n].at <= mark[log[n].of]
                                    \/ \E j \in Ingests : ingest'[j] # Idling /\ Covers(ingest'[j], n, purged, log)
    BY <2>1, <2>2 DEF InTurn
  <2>4. ASSUME NEW j \in Ingests, ingest'[j] # Idling
        PROVE  /\ ingest'[j].pc = "page" => ingest'[j].seen = mark
               /\ \A k \in Sources : ingest'[j].high[k] = 0 \/ ingest'[j].high[k] > mark[k]
    <3>1. CASE j = i
      BY <1>4, <1>6, <1>8, <3>1
    <3>2. CASE j # i
      BY <1>6, <2>1, <2>4, <3>2 DEF InTurn
    <3> QED BY <3>1, <3>2
  <2> QED BY <1>2, <2>3, <2>4 DEF InTurn
<1>12. ASSUME ~ overlapped', NEW j \in Ingests, NEW h \in Ingests, ingest'[j] # Idling, ingest'[h] # Idling PROVE j = h
  <2>1. ingest[j] # Idling /\ ingest[h] # Idling
    BY <1>2, <1>6, <1>12
  <2> QED BY <1>2, <1>12, <2>1 DEF ObsInv
<1>13. ASSUME NEW j \in Ingests, ingest'[j] # Idling
       PROVE  Holds(ingest'[j], log) /\ (~ shifted => TakenFor(ingest'[j], purged, log, counted))
  <2>1. CASE j = i
    BY <1>6, <1>9, <1>10, <2>1
  <2>2. CASE j # i
    BY <1>6, <1>13, <2>2 DEF ObsInv
  <2> QED BY <2>1, <2>2
<1> QED BY <1>2, <1>7, <1>11, <1>12, <1>13 DEF ObsInv

\* The rows that the ingest g takes of a page of L.
Fresh(g, p, L, lg) ==
  {n \in (Passed(g, p, lg) + 1)..(Passed(g, p, lg) + L) : lg[n].named /\ lg[n].at > g.seen[lg[n].of]}

\* A page is read: the watermark to come covers no row that is left out.
LEMMA PageTakes ==
  ASSUME NEW lg \in Seq(Row), InTime(lg), NEW p \in 0..Len(lg), NEW cnt, NEW cnt2,
         NEW g, g.seen \in [Sources -> Nat], Passed(g, p, lg) \in Nat, Reads(g, p, lg, cnt),
         NEW L \in Nat, L > 0 => Passed(g, p, lg) + L <= Len(lg),
         \A n \in 1..Len(lg) : cnt[n] > 0 => cnt2[n] > 0,
         \A n \in Fresh(g, p, L, lg) : cnt2[n] > 0,
         NEW k \in Sources, NEW t \in Nat, Taken(k, g.high[k], p, lg, cnt),
         t = g.high[k] \/ \E m \in Fresh(g, p, L, lg) : lg[m].of = k /\ lg[m].at = t
  PROVE  Taken(k, t, p, lg, cnt2)
<1> DEFINE q == Passed(g, p, lg)
           r == q + L
           new == Fresh(g, p, L, lg)
<1>0. /\ q \in Nat /\ r \in Nat /\ q <= r /\ (r <= Len(lg) \/ r = q)
      /\ new = {n \in (q + 1)..r : lg[n].named /\ lg[n].at > g.seen[lg[n].of]}
  BY DEF Fresh
<1>q. q = Passed(g, p, lg) /\ \A n \in new : cnt2[n] > 0
  OBVIOUS
<1>t. t = g.high[k] \/ \E m \in new : lg[m].of = k /\ lg[m].at = t
  OBVIOUS
<1> HIDE DEF q, r, new
<1>1. Len(lg) \in Nat /\ p \in Nat /\ p <= p
  BY LenProperties
<1>2. CASE t = g.high[k]
  <2>1. Taken(k, t, p, lg, cnt)
    BY <1>2
  <2> HIDE DEF q
  <2> QED BY <1>1, <2>1, TakenGrows
<1>3. CASE \E m \in new : lg[m].of = k /\ lg[m].at = t
  <2>0. q \in Nat /\ r \in Nat
    BY <1>0
  <2>1. PICK m \in new : lg[m].of = k /\ lg[m].at = t
    BY <1>3
  <2>2. m \in (q + 1)..r /\ q < r
    <3>1. m \in (q + 1)..r
      BY <1>0, <2>1
    <3> QED BY <2>0, <3>1
  <2>3. r <= Len(lg)
    BY <1>0, <2>2
  <2>4. ASSUME NEW n \in (p + 1)..Len(lg), lg[n].of = k, lg[n].named, lg[n].at <= t
        PROVE  cnt2[n] > 0 \/ \E x \in 1..(n - 1) : lg[x].of = lg[n].of /\ lg[x].at = lg[n].at
    <3>1. n \in 1..Len(lg) /\ n \in Nat
      BY <1>1
    <3>2. lg[n].at \in Nat /\ g.seen[k] \in Nat
      <4>1. lg[n] \in Row
        BY <3>1, ElementOfSeq
      <4> QED BY <4>1 DEF Row
    <3>3. CASE lg[n].at <= g.seen[k]
      <4>1. Taken(k, g.seen[k], p, lg, cnt)
        BY DEF Reads
      <4>2. Taken(k, g.seen[k], p, lg, cnt2)
        BY <1>1, <4>1, TakenGrows
      <4> QED BY <2>4, <3>3, <4>2 DEF Taken
    <3>4. CASE lg[n].at > g.seen[k] /\ n <= q
      <4>1. n \in (p + 1)..Passed(g, p, lg)
        BY <1>0, <1>1, <1>q, <3>1, <3>4
      <4>2. cnt[n] > 0
        BY <2>4, <3>4, <4>1 DEF Reads
      <4> QED BY <3>1, <4>2
    <3>5. CASE lg[n].at > g.seen[k] /\ n > q /\ n <= r
      <4>1. n \in new
        <5>1. n \in (q + 1)..r
          BY <2>0, <3>1, <3>5
        <5> QED BY <1>0, <2>4, <3>5, <5>1
      <4> QED BY <1>q, <4>1
    <3>6. CASE n > r
      <4>1. m \in 1..(n - 1) /\ m <= n /\ m \in 1..Len(lg)
        BY <1>1, <2>0, <2>2, <2>3, <3>1, <3>6
      <4>2. lg[m].at <= lg[n].at
        BY <3>1, <4>1, LenProperties DEF InTime
      <4>3. lg[m].at = lg[n].at
        BY <2>1, <2>4, <3>2, <4>2
      <4> QED BY <2>1, <2>4, <4>1, <4>3
    <3> QED BY <2>0, <3>1, <3>2, <3>3, <3>4, <3>5, <3>6
  <2> QED BY <2>4 DEF Taken
<1> QED BY <1>2, <1>3, <1>t

\* How far an ingest has read is a natural.
LEMMA PassedNat ==
  ASSUME NEW lg \in Seq(Row), NEW p \in 0..Len(lg), InTime(lg), NEW g, g.floor \in Nat, g.skip \in Nat
  PROVE  Ahead(g.floor, p, lg) \in Nat /\ Passed(g, p, lg) \in Nat
<1>1. Ahead(g.floor, p, lg) \in p..Len(lg) /\ Len(lg) \in Nat
  BY AheadIs
<1>2. Ahead(g.floor, p, lg) \in Nat
  BY <1>1
<1> QED BY <1>2 DEF Passed

\* The time to come of every connector is a natural.
LEMMA HighestTyped ==
  ASSUME ObservationsTypeOK, InTime(log), NEW high \in [Sources -> Nat], NEW page, NEW new \in SUBSET DOMAIN log
  PROVE  Highest(high, page, new) \in [Sources -> Nat]
<1> DEFINE e(k) == LET of == {log[n].at : n \in {m \in new : log[m].of = k}} \union {high[k]}
                   IN CHOOSE t \in of : \A u \in of : u <= t
<1>1. Highest(high, page, new) = [k \in Sources |-> e(k)]
  BY DEF Highest
<1>2. \A k \in Sources : Highest(high, page, new)[k] \in Nat
  BY HighestIs
<1> HIDE DEF e
<1> QED BY <1>1, <1>2

\* A page of an ingest is read.
LEMMA PageKeeps ==
  ASSUME ObsInv, NEW i \in Ingests, Page(i)
  PROVE  ObsInv'
<1> DEFINE g == ingest[i]
           page == PageRows(i)
           new == NewRows(i, page)
           skip == g.skip + Len(page)
           hi == Highest(g.high, page, new)
           over == Len(page) < Chunk \/ skip >= MaxPerIngest
           w == IF over THEN [ReadThrough(i) EXCEPT !.high = hi]
                ELSE [g EXCEPT !.skip = skip, !.high = hi]
           q == Passed(g, purged, log)
<1>1. /\ log \in Seq(Row) /\ Len(log) \in Nat /\ DOMAIN log = 1..Len(log) /\ InTime(log)
      /\ purged \in 0..Len(log) /\ purged \in Nat
      /\ counted \in [1..Len(log) -> 0..2] /\ mark \in [Sources -> Nat]
      /\ ingest \in [Ingests -> Running \union {Idling}]
  BY ObsFacts
<1>2. /\ g # Idling /\ g.pc = "page" /\ g \in Running
      /\ UNCHANGED <<log, purged, mark, cooling, locked, starts, overlapped, cutOff, shifted>>
      /\ counted' = [n \in DOMAIN counted |-> IF n \in new THEN Smaller(counted[n] + 1, 2) ELSE counted[n]]
  BY <1>1 DEF Page, At, Runs, keysVars, historyVars
<1>3. ingest' = [ingest EXCEPT ![i] = w]
  BY DEF Page
<1>4. /\ g.floor \in Nat /\ g.skip \in 0..MaxPerIngest /\ g.skip \in Nat
      /\ g.seen \in [Sources -> Nat] /\ g.high \in [Sources -> Nat] /\ g.by \in {"call", "rebuild", "cron"}
      /\ Holds(g, log)
  BY <1>2, RunningFacts DEF ObsInv
<1>5. q \in Nat
  BY <1>1, <1>4, PassedNat
<1>6. PICK L \in Nat :
           /\ Len(page) = L /\ g.skip + L \in 0..MaxPerIngest
           /\ L > 0 => q + L <= Len(log)
           /\ new = {n \in (q + 1)..(q + L) : log[n].named /\ log[n].at > g.seen[log[n].of]}
  BY <1>1, <1>2, PageIs DEF ObsInv, At, Runs
<1>7. new \in SUBSET (1..Len(log))
  <2>1. \A n \in new : n \in (q + 1)..(q + L)
    BY <1>6
  <2>2. \A n \in (q + 1)..(q + L) : n \in 1..Len(log)
    BY <1>1, <1>5, <1>6
  <2> QED BY <2>1, <2>2
<1>8. ASSUME NEW k \in Sources
      PROVE  /\ hi[k] \in Nat /\ hi[k] >= g.high[k]
             /\ \A m \in new : log[m].of = k => log[m].at <= hi[k]
             /\ hi[k] = g.high[k] \/ \E m \in new : log[m].of = k /\ log[m].at = hi[k]
  <2>1. ObservationsTypeOK /\ new \in SUBSET DOMAIN log
    BY <1>1, <1>7 DEF ObsInv
  <2> HIDE DEF new, page
  <2>2. hi = Highest(g.high, page, new)
    OBVIOUS
  <2> HIDE DEF hi, g
  <2>3. /\ Highest(g.high, page, new)[k] \in Nat /\ Highest(g.high, page, new)[k] >= g.high[k]
        /\ \A m \in new : log[m].of = k => log[m].at <= Highest(g.high, page, new)[k]
        /\ \/ Highest(g.high, page, new)[k] = g.high[k]
           \/ \E m \in new : log[m].of = k /\ log[m].at = Highest(g.high, page, new)[k]
    <3>1. g.high \in [Sources -> Nat] /\ InTime(log)
      BY <1>1, <1>4
    <3> QED BY <2>1, <3>1, HighestIs
  <2> QED BY <2>2, <2>3
<1>9. hi \in [Sources -> Nat]
  <2>1. ObservationsTypeOK /\ new \in SUBSET DOMAIN log
    BY <1>1, <1>7 DEF ObsInv
  <2> HIDE DEF new, page
  <2> QED BY <1>1, <1>4, <2>1, HighestTyped
<1>10. /\ w.pc = IF over THEN "advance" ELSE "page"
       /\ w.high = hi
       /\ ~ over => w.seen = g.seen /\ w.floor = g.floor /\ w.skip = g.skip + L
       /\ w \in Running
  <2> HIDE DEF hi, over, page
  <2>1. skip = g.skip + L /\ 0 \in 0..MaxPerIngest
    BY <1>4, <1>6, ObservationsAssumption
  <2>2. CASE over
    <3>1. w = [ReadThrough(i) EXCEPT !.high = hi]
      BY <2>2
    <3> DEFINE zero == [k \in Sources |-> 0]
    <3>2. ReadThrough(i) = [g EXCEPT !.pc = "advance", !.seen = zero, !.floor = 0, !.skip = 0]
      BY DEF ReadThrough
    <3>3. zero \in [Sources -> Nat]
      OBVIOUS
    <3> HIDE DEF zero
    <3>4. ReadThrough(i) \in Running /\ ReadThrough(i).pc = "advance"
      <4> DEFINE x == [g EXCEPT !.pc = "advance", !.seen = zero, !.floor = 0, !.skip = 0]
      <4> HIDE DEF g
      <4>1. g \in [by : {"call", "rebuild", "cron"}, pc : {"open", "page", "advance"},
                   seen : [Sources -> Nat], floor : Nat, skip : 0..MaxPerIngest,
                   high : [Sources -> Nat]]
        BY <1>2 DEF Running
      <4>2. x \in [by : {"call", "rebuild", "cron"}, pc : {"open", "page", "advance"},
                   seen : [Sources -> Nat], floor : Nat, skip : 0..MaxPerIngest,
                   high : [Sources -> Nat]] /\ x.pc = "advance"
        BY <2>1, <3>3, <4>1
      <4> QED BY <3>2, <4>2 DEF Running, g
    <3>5. w \in Running /\ w.pc = "advance" /\ w.high = hi
      BY <1>9, <3>1, <3>4 DEF Running
    <3> QED BY <2>2, <3>5
  <2>3. CASE ~ over
    <3>1. w = [g EXCEPT !.skip = skip, !.high = hi]
      BY <2>3
    <3> QED BY <1>2, <1>6, <1>9, <2>1, <2>3, <3>1 DEF Running
  <2> QED BY <2>2, <2>3
<1>11. w # Idling
  BY <1>10, IdlingAssumption
<1>12. ingest'[i] = w /\ \A j \in Ingests : j # i => ingest'[j] = ingest[j]
  BY <1>1, <1>3
<1>13. counted' \in [1..Len(log) -> 0..2] /\ \A n \in 1..Len(log) :
         /\ counted[n] > 0 => counted'[n] > 0
         /\ n \in new => counted'[n] > 0
         /\ n \in new /\ counted[n] = 0 => counted'[n] = 1
         /\ n \notin new => counted'[n] = counted[n]
  <2> HIDE DEF new
  <2>1. \A n \in 1..Len(log) : counted'[n] = IF n \in new THEN Smaller(counted[n] + 1, 2) ELSE counted[n]
    BY <1>1, <1>2
  <2>2. \A n \in 1..Len(log) : counted[n] \in 0..2
    BY <1>1
  <2>3. \A n \in 1..Len(log) : counted'[n] \in 0..2
    BY <2>1, <2>2 DEF Smaller
  <2>4. counted' = [n \in 1..Len(log) |-> counted'[n]]
    BY <1>1, <1>2
  <2>5. counted' \in [1..Len(log) -> 0..2]
    BY <2>3, <2>4
  <2>6. ASSUME NEW n \in 1..Len(log)
        PROVE  /\ counted[n] > 0 => counted'[n] > 0
               /\ n \in new => counted'[n] > 0
               /\ n \in new /\ counted[n] = 0 => counted'[n] = 1
               /\ n \notin new => counted'[n] = counted[n]
    BY <2>1, <2>2 DEF Smaller
  <2> QED BY <2>5, <2>6
<1>r. q + L \in Nat /\ q <= q + L /\ (q + L <= Len(log) \/ q + L = q)
  BY <1>1, <1>5, <1>6
<1> HIDE DEF w, hi, over, skip, q, page, new
<1>14. ObservationsTypeOK'
  <2>1. ingest' \in [Ingests -> Running \union {Idling}]
    BY <1>1, <1>3, <1>10
  <2> QED BY <1>1, <1>2, <1>13, <2>1 DEF ObsInv, ObservationsTypeOK
<1>15. Holds(w, log)
  <2>1. ASSUME NEW k \in Sources PROVE Timed(k, hi[k], log)
    <3>1. Timed(k, g.high[k], log)
      BY <1>4 DEF Holds
    <3>2. \A m \in new : m \in DOMAIN log
      BY <1>1, <1>7
    <3> QED BY <1>8, <3>1, <3>2 DEF Timed
  <2>2. w.pc = "page" => \A k \in Sources : Timed(k, w.seen[k], log) /\ w.floor <= w.seen[k]
    BY <1>2, <1>4, <1>10 DEF Holds
  <2> QED BY <1>10, <2>1, <2>2 DEF Holds
<1>16. ASSUME ~ shifted PROVE TakenFor(w, purged, log, counted')
  <2>1. TakenFor(g, purged, log, counted) /\ Reads(g, purged, log, counted)
    BY <1>2, <1>16 DEF ObsInv, TakenFor
  <2>2. ASSUME NEW k \in Sources PROVE Taken(k, hi[k], purged, log, counted')
    <3>1. Taken(k, g.high[k], purged, log, counted)
      BY <2>1 DEF TakenFor
    <3>2. \A n \in new : counted'[n] > 0
      BY <1>7, <1>13
    <3>3. new = Fresh(g, purged, L, log)
      BY <1>6 DEF Fresh, q
    <3>5. Passed(g, purged, log) \in Nat /\ (L > 0 => Passed(g, purged, log) + L <= Len(log))
      BY <1>5, <1>6 DEF q
    <3>6. hi[k] \in Nat /\ (hi[k] = g.high[k] \/ \E m \in new : log[m].of = k /\ log[m].at = hi[k])
      BY <1>8
    <3>4. \A n \in 1..Len(log) : counted[n] > 0 => counted'[n] > 0
      BY <1>13
    <3> HIDE DEF g
    <3> QED BY <1>1, <1>4, <2>1, <3>1, <3>2, <3>3, <3>4, <3>5, <3>6, PageTakes
  <2>3. ASSUME w.pc = "page" PROVE Reads(w, purged, log, counted')
    <3>1. w.seen = g.seen /\ w.floor = g.floor /\ w.skip = g.skip + L
      BY <1>10, <2>3
    <3>2. Reads(g, purged, log, counted')
      BY <1>1, <1>4, <1>13, <2>1, ReadsGrows
    <3>3. Passed(w, purged, log) = q + L
      <4>1. Ahead(g.floor, purged, log) \in Nat
        BY <1>1, <1>4, PassedNat
      <4>2. Passed(w, purged, log) = Ahead(g.floor, purged, log) + (g.skip + L) /\ q = Ahead(g.floor, purged, log) + g.skip
        BY <3>1 DEF Passed, q
      <4> QED BY <1>4, <4>1, <4>2
    <3>4. q <= Len(log)
      BY <2>1 DEF Reads, q
    <3>5. Passed(w, purged, log) <= Len(log)
      BY <1>1, <1>5, <1>r, <3>3, <3>4
    <3>6. ASSUME NEW n \in (purged + 1)..(q + L), log[n].named, log[n].at > g.seen[log[n].of]
          PROVE  counted'[n] > 0
      <4>1. CASE n <= q
        <5>1. n \in (purged + 1)..Passed(g, purged, log)
          BY <1>1, <1>5, <4>1 DEF q
        <5> QED BY <3>2, <3>6, <5>1 DEF Reads
      <4>2. CASE n > q
        <5>1. n \in (q + 1)..(q + L)
          BY <1>1, <1>5, <4>2
        <5>2. n \in new
          BY <1>6, <3>6, <5>1
        <5> QED BY <1>7, <1>13, <5>2
      <4> QED BY <1>1, <1>5, <4>1, <4>2
    <3>7. \A k \in Sources : Taken(k, w.seen[k], purged, log, counted')
      BY <3>1, <3>2 DEF Reads
    <3> QED BY <3>1, <3>3, <3>5, <3>6, <3>7 DEF Reads
  <2> QED BY <1>10, <2>2, <2>3 DEF TakenFor
<1>17. ASSUME ~ shifted, NEW j \in Ingests, j # i, ingest[j] # Idling
       PROVE  TakenFor(ingest[j], purged, log, counted')
  <2> DEFINE h == ingest[j]
  <2>1. TakenFor(h, purged, log, counted) /\ h \in Running
    BY <1>1, <1>17 DEF ObsInv
  <2> HIDE DEF h
  <2>2. \A n \in 1..Len(log) : counted[n] > 0 => counted'[n] > 0
    BY <1>13
  <2>3. \A k \in Sources : Taken(k, h.high[k], purged, log, counted')
    <3>1. purged <= purged
      BY <1>1
    <3> QED BY <1>1, <2>1, <2>2, <3>1, TakenGrows DEF TakenFor
  <2>4. ASSUME h.pc = "page" PROVE Reads(h, purged, log, counted')
    BY <1>1, <2>1, <2>2, <2>4, RunningFacts, ReadsGrows DEF TakenFor
  <2>5. TakenFor(h, purged, log, counted')
    BY <2>3, <2>4 DEF TakenFor
  <2> QED BY <2>5 DEF h
<1>18. ASSUME ~ shifted, NEW k \in Sources PROVE Taken(k, mark[k], purged, log, counted')
  <2>1. Taken(k, mark[k], purged, log, counted)
    BY <1>18 DEF ObsInv
  <2>2. \A n \in 1..Len(log) : counted[n] > 0 => counted'[n] > 0
    BY <1>13
  <2>3. purged <= purged
    BY <1>1
  <2> QED BY <1>1, <2>1, <2>2, <2>3, TakenGrows
<1>19. ASSUME ~ overlapped', NEW j \in Ingests, NEW h \in Ingests, ingest'[j] # Idling, ingest'[h] # Idling PROVE j = h
  <2>1. ingest[j] # Idling /\ ingest[h] # Idling
    BY <1>2, <1>12, <1>19
  <2> QED BY <1>2, <1>19, <2>1 DEF ObsInv
<1>20. ASSUME ~ overlapped', ~ cutOff' PROVE InTurn'
  <2>1. InTurn /\ g.seen = mark /\ \A j \in Ingests : ingest[j] # Idling => j = i
    BY <1>2, <1>20 DEF ObsInv, InTurn
  <2>2. ASSUME NEW n \in 1..Len(log), Covers(g, n, purged, log) PROVE Covers(w, n, purged, log)
    <3>1. log[n].at <= g.high[log[n].of] /\ n <= q
      BY <1>2, <2>2 DEF Covers, q
    <3>2. log[n].of \in Sources /\ log[n].at \in Nat
      <4>1. log[n] \in Row
        BY <1>1, ElementOfSeq
      <4> QED BY <4>1 DEF Row
    <3>3. log[n].at <= hi[log[n].of]
      BY <1>4, <1>8, <3>1, <3>2
    <3>4. w.pc = "page" => n <= Passed(w, purged, log)
      <4>1. ASSUME w.pc = "page" PROVE n <= Passed(w, purged, log)
        <5>1. w.floor = g.floor /\ w.skip = g.skip + L
          BY <1>10, <4>1
        <5>2. Ahead(g.floor, purged, log) \in Nat
          BY <1>1, <1>4, PassedNat
        <5>3. Passed(w, purged, log) = Ahead(g.floor, purged, log) + (g.skip + L) /\ q = Ahead(g.floor, purged, log) + g.skip
          BY <5>1 DEF Passed, q
        <5> QED BY <1>4, <3>1, <5>2, <5>3
      <4> QED BY <4>1
    <3> QED BY <1>10, <3>3, <3>4 DEF Covers
  <2>3. ASSUME NEW n \in new PROVE counted[n] = 0 /\ Covers(w, n, purged, log)
    <3>1. n \in (q + 1)..(q + L) /\ log[n].named /\ log[n].at > g.seen[log[n].of] /\ n \in 1..Len(log)
      BY <1>6, <1>7
    <3>2. log[n].of \in Sources /\ log[n].at \in Nat /\ mark[log[n].of] \in Nat
      <4>1. log[n] \in Row
        BY <1>1, <3>1, ElementOfSeq
      <4> QED BY <1>1, <4>1 DEF Row
    <3>3. ~ Covers(g, n, purged, log)
      BY <1>2, <1>5, <3>1 DEF Covers, q
    <3>4. ~ counted[n] > 0
      BY <2>1, <3>1, <3>2, <3>3 DEF InTurn
    <3>5. counted[n] = 0
      BY <1>1, <3>1, <3>4
    <3>6. log[n].at <= hi[log[n].of]
      BY <1>8, <3>2
    <3>7. w.pc = "page" => n <= Passed(w, purged, log)
      <4>1. ASSUME w.pc = "page" PROVE n <= Passed(w, purged, log)
        <5>1. w.floor = g.floor /\ w.skip = g.skip + L
          BY <1>10, <4>1
        <5>2. Ahead(g.floor, purged, log) \in Nat
          BY <1>1, <1>4, PassedNat
        <5>3. Passed(w, purged, log) = Ahead(g.floor, purged, log) + (g.skip + L) /\ q = Ahead(g.floor, purged, log) + g.skip
          BY <5>1 DEF Passed, q
        <5> QED BY <1>4, <1>5, <3>1, <5>2, <5>3
      <4> QED BY <4>1
    <3> QED BY <1>10, <3>5, <3>6, <3>7 DEF Covers
  <2>4. ASSUME NEW n \in 1..Len(log)
        PROVE  /\ counted'[n] <= 1
               /\ counted'[n] > 0 => \/ log[n].at <= mark[log[n].of]
                                     \/ \E j \in Ingests : ingest'[j] # Idling /\ Covers(ingest'[j], n, purged, log)
    <3>1. CASE n \in new
      <4>1. counted'[n] = 1 /\ Covers(w, n, purged, log)
        BY <1>13, <2>3, <3>1
      <4>2. ingest'[i] # Idling /\ Covers(ingest'[i], n, purged, log)
        BY <1>11, <1>12, <4>1
      <4> QED BY <4>1, <4>2
    <3>2. CASE n \notin new
      <4>1. counted'[n] = counted[n]
        BY <1>13, <3>2
      <4>2. /\ counted[n] <= 1
            /\ counted[n] > 0 => \/ log[n].at <= mark[log[n].of]
                                 \/ \E j \in Ingests : ingest[j] # Idling /\ Covers(ingest[j], n, purged, log)
        BY <2>1 DEF InTurn
      <4>3. ASSUME NEW j \in Ingests, ingest[j] # Idling, Covers(ingest[j], n, purged, log)
            PROVE  ingest'[i] # Idling /\ Covers(ingest'[i], n, purged, log)
        <5>1. j = i
          BY <2>1, <4>3
        <5>2. Covers(g, n, purged, log)
          BY <4>3, <5>1
        <5>3. Covers(w, n, purged, log)
          BY <2>2, <5>2
        <5> QED BY <1>11, <1>12, <5>3
      <4> QED BY <4>1, <4>2, <4>3
    <3> QED BY <3>1, <3>2
  <2>5. ASSUME NEW j \in Ingests, ingest'[j] # Idling
        PROVE  /\ ingest'[j].pc = "page" => ingest'[j].seen = mark
               /\ \A k \in Sources : ingest'[j].high[k] = 0 \/ ingest'[j].high[k] > mark[k]
    <3>1. j = i
      BY <1>12, <2>1, <2>5
    <3>2. w.pc = "page" => w.seen = mark
      BY <1>10, <2>1
    <3>3. ASSUME NEW k \in Sources PROVE hi[k] = 0 \/ hi[k] > mark[k]
      <4>1. g.high[k] = 0 \/ g.high[k] > mark[k]
        BY <1>2, <2>1 DEF InTurn
      <4>2. ASSUME NEW m \in new, log[m].of = k, log[m].at = hi[k] PROVE hi[k] > mark[k]
        BY <1>6, <2>1, <4>2
      <4> QED BY <1>8, <4>1, <4>2
    <3> QED BY <1>10, <1>12, <3>1, <3>2, <3>3
  <2> QED BY <1>2, <2>4, <2>5 DEF InTurn
<1>21. ASSUME NEW j \in Ingests, ingest'[j] # Idling
       PROVE  Holds(ingest'[j], log) /\ (~ shifted => TakenFor(ingest'[j], purged, log, counted'))
  <2>1. CASE j = i
    BY <1>12, <1>15, <1>16, <2>1
  <2>2. CASE j # i
    BY <1>12, <1>17, <1>21, <2>2 DEF ObsInv
  <2> QED BY <2>1, <2>2
<1> QED BY <1>1, <1>2, <1>14, <1>18, <1>19, <1>20, <1>21 DEF ObsInv

\* The watermark of a connector is set to the time the ingest has reached for it.
LEMMA AdvanceKeeps ==
  ASSUME ObsInv, NEW i \in Ingests, NEW s \in Sources, Advance(i, s)
  PROVE  ObsInv'
<1> DEFINE g == ingest[i]
           w == [g EXCEPT !.high = [g.high EXCEPT ![s] = 0]]
<1>1. /\ log \in Seq(Row) /\ Len(log) \in Nat /\ DOMAIN log = 1..Len(log) /\ InTime(log)
      /\ purged \in 0..Len(log) /\ purged \in Nat
      /\ counted \in [1..Len(log) -> 0..2] /\ mark \in [Sources -> Nat]
      /\ ingest \in [Ingests -> Running \union {Idling}]
  BY ObsFacts
<1>2. /\ g # Idling /\ g.pc = "advance" /\ g \in Running /\ g.high[s] # 0
      /\ UNCHANGED <<log, purged, cooling, locked, starts, counted, overlapped, cutOff, shifted>>
      /\ mark' = [mark EXCEPT ![s] = g.high[s]]
  BY <1>1 DEF Advance, At, Runs, keysVars, historyVars
<1>3. ingest' = [ingest EXCEPT ![i].high[s] = 0]
  BY DEF Advance
<1>4. g.high \in [Sources -> Nat] /\ Holds(g, log)
  BY <1>2, RunningFacts DEF ObsInv
<1>5. ingest' = [ingest EXCEPT ![i] = w]
  BY <1>3
<1>6. w.pc = "advance" /\ w.high = [g.high EXCEPT ![s] = 0] /\ w \in Running
  <2> DEFINE hi == [g.high EXCEPT ![s] = 0]
  <2>1. hi \in [Sources -> Nat]
    BY <1>4
  <2> HIDE DEF hi
  <2> QED BY <1>2, <2>1 DEF Running
<1>7. w # Idling
  BY <1>6, IdlingAssumption
<1>8. \A k \in Sources : w.high[k] = IF k = s THEN 0 ELSE g.high[k]
  BY <1>4, <1>6
<1> HIDE DEF w
<1>9. ingest'[i] = w /\ \A j \in Ingests : j # i => ingest'[j] = ingest[j]
  BY <1>1, <1>5
<1>10. mark' \in [Sources -> Nat] /\ \A k \in Sources : mark'[k] = IF k = s THEN g.high[s] ELSE mark[k]
  BY <1>1, <1>2, <1>4
<1> HIDE DEF g
<1>11. ObservationsTypeOK'
  <2>1. ingest' \in [Ingests -> Running \union {Idling}]
    BY <1>1, <1>5, <1>6
  <2> QED BY <1>2, <1>10, <2>1 DEF ObsInv, ObservationsTypeOK
<1>12. \A k \in Sources : Timed(k, mark'[k], log)
  BY <1>4, <1>10 DEF ObsInv, Holds
<1>13. Holds(w, log)
  BY <1>4, <1>6, <1>8 DEF Holds, Timed
<1>14. ASSUME NEW k \in Sources PROVE Taken(k, 0, purged, log, counted)
  <2>1. \A n \in (purged + 1)..Len(log) : ~ log[n].at <= 0
    BY <1>1, AllLater
  <2> QED BY <2>1 DEF Taken
<1>15. ASSUME ~ shifted PROVE TakenFor(w, purged, log, counted) /\ \A k \in Sources : Taken(k, mark'[k], purged, log, counted)
  <2>1. TakenFor(g, purged, log, counted) /\ \A k \in Sources : Taken(k, mark[k], purged, log, counted)
    BY <1>2, <1>15 DEF ObsInv, g
  <2>2. \A k \in Sources : Taken(k, w.high[k], purged, log, counted)
    BY <1>8, <1>14, <2>1 DEF TakenFor
  <2>3. \A k \in Sources : Taken(k, mark'[k], purged, log, counted)
    BY <1>10, <2>1 DEF TakenFor
  <2> QED BY <1>6, <2>2, <2>3 DEF TakenFor
<1>16. ASSUME ~ overlapped', NEW j \in Ingests, NEW h \in Ingests, ingest'[j] # Idling, ingest'[h] # Idling PROVE j = h
  <2>1. ingest[j] # Idling /\ ingest[h] # Idling
    BY <1>2, <1>9, <1>16 DEF g
  <2> QED BY <1>2, <1>16, <2>1 DEF ObsInv
<1>17. ASSUME ~ overlapped', ~ cutOff' PROVE InTurn'
  <2>1. InTurn /\ \A j \in Ingests : ingest[j] # Idling => j = i
    BY <1>2, <1>17 DEF ObsInv, g
  <2>2. \A k \in Sources : g.high[k] = 0 \/ g.high[k] > mark[k]
    BY <1>2, <2>1 DEF InTurn, g
  <2>3. ASSUME NEW n \in 1..Len(log)
        PROVE  /\ counted[n] <= 1
               /\ counted[n] > 0 => \/ log[n].at <= mark'[log[n].of]
                                    \/ \E j \in Ingests : ingest'[j] # Idling /\ Covers(ingest'[j], n, purged, log)
    <3>1. log[n].of \in Sources /\ log[n].at \in Nat
      <4>1. log[n] \in Row
        BY <1>1, ElementOfSeq
      <4> QED BY <4>1 DEF Row
    <3>2. counted[n] <= 1
      BY <2>1 DEF InTurn
    <3>3. CASE log[n].of # s
      <4>1. mark'[log[n].of] = mark[log[n].of] /\ w.high[log[n].of] = g.high[log[n].of]
        BY <1>8, <1>10, <3>1, <3>3
      <4>2. Covers(g, n, purged, log) => ingest'[i] # Idling /\ Covers(ingest'[i], n, purged, log)
        BY <1>2, <1>6, <1>7, <1>9, <4>1 DEF Covers
      <4>3. counted[n] > 0 => log[n].at <= mark[log[n].of] \/ Covers(g, n, purged, log)
        <5>1. counted[n] > 0 => \/ log[n].at <= mark[log[n].of]
                                \/ \E j \in Ingests : ingest[j] # Idling /\ Covers(ingest[j], n, purged, log)
          BY <2>1 DEF InTurn
        <5>2. \A j \in Ingests : ingest[j] # Idling => ingest[j] = g
          BY <2>1 DEF g
        <5> QED BY <5>1, <5>2
      <4> QED BY <3>2, <4>1, <4>2, <4>3
    <3>4. CASE log[n].of = s
      <4>1. g.high[s] > mark[s] /\ mark'[s] = g.high[s] /\ mark[s] \in Nat /\ g.high[s] \in Nat
        BY <1>1, <1>2, <1>4, <1>10, <2>2
      <4>2. counted[n] > 0 => log[n].at <= mark[s] \/ log[n].at <= g.high[s]
        <5>1. counted[n] > 0 => \/ log[n].at <= mark[log[n].of]
                                \/ \E j \in Ingests : ingest[j] # Idling /\ Covers(ingest[j], n, purged, log)
          BY <2>1 DEF InTurn
        <5>2. \A j \in Ingests : ingest[j] # Idling /\ Covers(ingest[j], n, purged, log) => log[n].at <= g.high[s]
          BY <2>1, <3>4 DEF Covers, g
        <5> QED BY <3>4, <5>1, <5>2
      <4> QED BY <3>1, <3>2, <3>4, <4>1, <4>2
    <3> QED BY <3>3, <3>4
  <2>4. ASSUME NEW j \in Ingests, ingest'[j] # Idling
        PROVE  /\ ingest'[j].pc = "page" => ingest'[j].seen = mark'
               /\ \A k \in Sources : ingest'[j].high[k] = 0 \/ ingest'[j].high[k] > mark'[k]
    <3>1. ingest'[j] = w
      BY <1>9, <2>1, <2>4
    <3> QED BY <1>6, <1>8, <1>10, <2>2, <3>1
  <2> QED BY <1>2, <2>3, <2>4 DEF InTurn
<1>18. ASSUME NEW j \in Ingests, ingest'[j] # Idling
       PROVE  Holds(ingest'[j], log) /\ (~ shifted => TakenFor(ingest'[j], purged, log, counted))
  <2>1. CASE j = i
    BY <1>9, <1>13, <1>15, <2>1
  <2>2. CASE j # i
    BY <1>9, <1>18, <2>2 DEF ObsInv
  <2> QED BY <2>1, <2>2
<1> QED BY <1>1, <1>2, <1>11, <1>12, <1>15, <1>16, <1>17, <1>18 DEF ObsInv

\* Ingests end and nothing else changes: an ingest that is not at its end is cut off.
LEMMA IngestsEnd ==
  ASSUME ObsInv, UNCHANGED <<log, purged, mark, starts, counted, overlapped, shifted>>,
         {cooling', locked', cutOff'} \subseteq BOOLEAN,
         ingest' \in [Ingests -> Running \union {Idling}],
         \A j \in Ingests : ingest'[j] = ingest[j] \/ ingest'[j] = Idling,
         ~ cutOff' => ~ cutOff /\ \A j \in Ingests :
           \/ ingest'[j] = ingest[j]
           \/ ingest'[j] = Idling /\ \A k \in Sources : ingest[j].high[k] = 0
  PROVE  ObsInv'
<1>1. /\ log \in Seq(Row) /\ Len(log) \in Nat /\ DOMAIN log = 1..Len(log) /\ InTime(log)
      /\ mark \in [Sources -> Nat]
  BY ObsFacts
<1>2. ObservationsTypeOK'
  BY DEF ObsInv, ObservationsTypeOK
<1>3. ASSUME NEW j \in Ingests, ingest'[j] # Idling
      PROVE  /\ Holds(ingest'[j], log)
             /\ ~ shifted => TakenFor(ingest'[j], purged, log, counted)
  <2>1. ingest'[j] = ingest[j] /\ ingest[j] # Idling
    BY <1>3
  <2> QED BY <2>1 DEF ObsInv
<1>4. ASSUME ~ overlapped', NEW j \in Ingests, NEW h \in Ingests, ingest'[j] # Idling, ingest'[h] # Idling PROVE j = h
  <2>1. ingest[j] # Idling /\ ingest[h] # Idling
    BY <1>4
  <2> QED BY <1>4, <2>1 DEF ObsInv
<1>5. ASSUME ~ overlapped', ~ cutOff' PROVE InTurn'
  <2>1. InTurn
    BY <1>5 DEF ObsInv
  <2>2. ASSUME NEW n \in 1..Len(log), NEW j \in Ingests, ingest[j] # Idling, Covers(ingest[j], n, purged, log)
        PROVE  ingest'[j] # Idling /\ Covers(ingest'[j], n, purged, log)
    <3>1. log[n].of \in Sources /\ log[n].at \in Nat /\ log[n].at >= 1
      <4>1. log[n] \in Row
        BY <1>1, ElementOfSeq
      <4> QED BY <1>1, <4>1 DEF InTime, Row
    <3>2. log[n].at <= ingest[j].high[log[n].of]
      BY <2>2 DEF Covers
    <3>3. ingest[j].high[log[n].of] # 0
      BY <3>1, <3>2
    <3> QED BY <1>5, <2>2, <3>1, <3>3
  <2>3. ASSUME NEW n \in 1..Len(log)
        PROVE  /\ counted[n] <= 1
               /\ counted[n] > 0 => \/ log[n].at <= mark[log[n].of]
                                    \/ \E j \in Ingests : ingest'[j] # Idling /\ Covers(ingest'[j], n, purged, log)
    BY <2>1, <2>2 DEF InTurn
  <2>4. ASSUME NEW j \in Ingests, ingest'[j] # Idling
        PROVE  /\ ingest'[j].pc = "page" => ingest'[j].seen = mark
               /\ \A k \in Sources : ingest'[j].high[k] = 0 \/ ingest'[j].high[k] > mark[k]
    <3>1. ingest'[j] = ingest[j] /\ ingest[j] # Idling
      BY <2>4
    <3> QED BY <2>1, <3>1 DEF InTurn
  <2> QED BY <2>3, <2>4 DEF InTurn
<1> QED BY <1>2, <1>3, <1>4, <1>5 DEF ObsInv

\* The key of a rebuild is a key still.
LEMMA ReleasedTyped ==
  ASSUME ObsInv, NEW i \in Ingests, Released(i)
  PROVE  {cooling', locked'} \subseteq BOOLEAN
<1>1. cooling \in BOOLEAN /\ locked \in BOOLEAN
  BY DEF ObsInv, ObservationsTypeOK
<1>2. cooling' = cooling /\ locked' \in BOOLEAN
  BY DEF Released
<1> QED BY <1>1, <1>2

\* The ingest has come to its end.
LEMMA FinishKeeps == ASSUME ObsInv, NEW i \in Ingests, Finish(i) PROVE ObsInv'
<1>1. ingest \in [Ingests -> Running \union {Idling}] /\ cutOff \in BOOLEAN
  BY DEF ObsInv, ObservationsTypeOK
<1>2. /\ ingest' = [ingest EXCEPT ![i] = Idling] /\ \A k \in Sources : ingest[i].high[k] = 0
      /\ UNCHANGED <<log, purged, mark, starts, counted, overlapped, cutOff, shifted>>
  BY DEF Finish, historyVars
<1>3. ingest' \in [Ingests -> Running \union {Idling}] /\ \A j \in Ingests : ingest'[j] = IF j = i THEN Idling ELSE ingest[j]
  BY <1>1, <1>2
<1>4. {cooling', locked', cutOff'} \subseteq BOOLEAN
  BY <1>1, <1>2, ReleasedTyped DEF Finish
<1> QED BY <1>2, <1>3, <1>4, IngestsEnd

\* A query of the ingest throws.
LEMMA ThrowsKeeps == ASSUME ObsInv, NEW i \in Ingests, Throws(i) PROVE ObsInv'
<1>1. ingest \in [Ingests -> Running \union {Idling}]
  BY DEF ObsInv, ObservationsTypeOK
<1>2. /\ ingest' = [ingest EXCEPT ![i] = Idling] /\ cutOff'
      /\ UNCHANGED <<log, purged, mark, starts, counted, overlapped, shifted>>
  BY DEF Throws
<1>3. ingest' \in [Ingests -> Running \union {Idling}] /\ \A j \in Ingests : ingest'[j] = IF j = i THEN Idling ELSE ingest[j]
  BY <1>1, <1>2
<1>4. {cooling', locked', cutOff'} \subseteq BOOLEAN
  <2>1. cutOff' \in BOOLEAN
    BY DEF Throws
  <2> QED BY <2>1, ReleasedTyped DEF Throws
<1> QED BY <1>2, <1>3, <1>4, IngestsEnd

\* The process stops.
LEMMA ObservationsCrashKeeps == ASSUME ObsInv, ObservationsCrash PROVE ObsInv'
<1>1. ingest' \in [Ingests -> Running \union {Idling}] /\ \A j \in Ingests : ingest'[j] = Idling
  BY DEF ObservationsCrash
<1>2. /\ cutOff' /\ UNCHANGED <<log, purged, mark, cooling, locked, starts, counted, overlapped, shifted>>
  BY DEF ObservationsCrash, keysVars
<1>3. {cooling', locked', cutOff'} \subseteq BOOLEAN
  <2>1. cutOff' \in BOOLEAN
    BY DEF ObservationsCrash
  <2> QED BY <1>2, <2>1 DEF ObsInv, ObservationsTypeOK
<1> QED BY <1>1, <1>2, <1>3, IngestsEnd

\* Only the keys change.
LEMMA KeysKeep ==
  ASSUME ObsInv, UNCHANGED <<log, purged, mark, ingest, starts, counted, historyVars>>,
         {cooling', locked'} \subseteq BOOLEAN
  PROVE  ObsInv'
<1>1. UNCHANGED <<log, purged, mark, ingest, starts, counted, overlapped, cutOff, shifted>>
  BY DEF historyVars
<1>2. ObservationsTypeOK'
  BY <1>1 DEF ObsInv, ObservationsTypeOK
<1>3. ingest' \in [Ingests -> Running \union {Idling}]
  BY <1>2 DEF ObservationsTypeOK
<1>4. {cooling', locked', cutOff'} \subseteq BOOLEAN
  BY <1>2 DEF ObservationsTypeOK
<1> QED BY <1>1, <1>3, <1>4, IngestsEnd

\* There are no rows at first.
LEMMA ObsInvInit == ASSUME ObservationsInit PROVE ObsInv
<1>1. /\ log = <<>> /\ purged = 0 /\ counted = <<>> /\ mark = [k \in Sources |-> 0]
      /\ ingest = [i \in Ingests |-> Idling]
      /\ cooling = FALSE /\ locked = FALSE /\ starts = 0 /\ overlapped = FALSE /\ cutOff = FALSE /\ shifted = FALSE
  BY DEF ObservationsInit
<1>2. log \in Seq(Row) /\ Len(log) = 0 /\ DOMAIN log = {}
  <2>1. <<>> \in Seq(Row) /\ Len(<<>>) = 0
    BY EmptySeq
  <2>2. DOMAIN log = 1..0
    BY <1>1, <2>1, LenProperties
  <2> QED BY <1>1, <2>1, <2>2
<1>3. counted \in [{} -> 0..2]
  <2>1. counted \in Seq(0..2) /\ Len(counted) = 0
    BY <1>1, EmptySeq
  <2>2. DOMAIN counted = 1..0
    BY <2>1, LenProperties
  <2>3. PICK m \in Nat : counted \in [1..m -> 0..2]
    BY <2>1, SeqDef
  <2>4. DOMAIN counted = {}
    BY <2>2
  <2> QED BY <2>3, <2>4
<1>4. ObservationsTypeOK
  <2>1. starts \in 0..MaxStarts /\ purged \in 0..Len(log)
    BY <1>1, <1>2, ObservationsAssumption
  <2>2. counted \in [DOMAIN log -> 0..2]
    BY <1>2, <1>3
  <2> QED BY <1>1, <1>2, <2>1, <2>2 DEF ObservationsTypeOK, Row
<1>5. InTime(log) /\ \A k \in Sources : Timed(k, mark[k], log)
  BY <1>1, <1>2 DEF InTime, Timed
<1>6. \A n \in Nat : ~ n \in (purged + 1)..Len(log)
  BY <1>1, <1>2
<1>7. (purged + 1)..Len(log) = {} /\ 1..Len(log) = {}
  BY <1>1, <1>2
<1>8. \A k \in Sources : Taken(k, mark[k], purged, log, counted)
  BY <1>7 DEF Taken
<1>9. \A i \in Ingests : ingest[i] = Idling
  BY <1>1
<1>10. InTurn
  BY <1>7, <1>9 DEF InTurn
<1> QED BY <1>4, <1>5, <1>8, <1>9, <1>10 DEF ObsInv

\* Every step keeps the invariant.
LEMMA ObsInvStep ==
  ASSUME ObsInv, [ObservationsNext]_observationsVars
  PROVE  ObsInv'
<1>1. cooling \in BOOLEAN /\ locked \in BOOLEAN
  BY DEF ObsInv, ObservationsTypeOK
<1>2. CASE UNCHANGED observationsVars
  <2>1. UNCHANGED <<log, purged, mark, ingest, starts, counted, historyVars>> /\ UNCHANGED <<cooling, locked>>
    BY <1>2 DEF observationsVars, keysVars
  <2> QED BY <1>1, <2>1, KeysKeep
<1>3. ASSUME NEW k \in Sources, NEW named \in BOOLEAN, Log(k, named) PROVE ObsInv'
  BY <1>3, LogKeeps
<1>4. CASE Retention
  BY <1>4, RetentionKeeps
<1>5. CASE CooldownEnds
  <2>1. {cooling', locked'} \subseteq BOOLEAN
    BY <1>1, <1>5 DEF CooldownEnds
  <2> QED BY <1>5, <2>1, KeysKeep DEF CooldownEnds
<1>6. CASE LockExpires
  <2>1. {cooling', locked'} \subseteq BOOLEAN
    BY <1>1, <1>6 DEF LockExpires
  <2> QED BY <1>6, <2>1, KeysKeep DEF LockExpires
<1>7. CASE ObservationsCrash
  BY <1>7, ObservationsCrashKeeps
<1>8. ASSUME NEW i \in Ingests,
             \/ scheduleObservationalIngest(i) \/ rebuild(i) \/ CronIngest(i)
             \/ Open(i) \/ Page(i) \/ Finish(i) \/ Throws(i)
             \/ \E k \in Sources : Advance(i, k)
      PROVE  ObsInv'
  <2>0. /\ "call" \in {"call", "rebuild", "cron"} /\ "rebuild" \in {"call", "rebuild", "cron"}
        /\ "cron" \in {"call", "rebuild", "cron"}
    OBVIOUS
  <2>1. CASE scheduleObservationalIngest(i)
    <3>1. {cooling', locked'} \subseteq BOOLEAN /\ Start(i, "call")
      BY <1>1, <2>1 DEF scheduleObservationalIngest
    <3> QED BY <2>0, <3>1, StartKeeps
  <2>2. CASE rebuild(i)
    <3>1. {cooling', locked'} \subseteq BOOLEAN /\ Start(i, "rebuild")
      BY <1>1, <2>2 DEF rebuild
    <3> QED BY <2>0, <3>1, StartKeeps
  <2>3. CASE CronIngest(i)
    <3>1. {cooling', locked'} \subseteq BOOLEAN /\ Start(i, "cron")
      BY <1>1, <2>3 DEF CronIngest, keysVars
    <3> QED BY <2>0, <3>1, StartKeeps
  <2>4. CASE Open(i)
    BY <2>4, OpenKeeps
  <2>5. CASE Page(i)
    BY <2>5, PageKeeps
  <2>6. CASE Finish(i)
    BY <2>6, FinishKeeps
  <2>7. CASE Throws(i)
    BY <2>7, ThrowsKeeps
  <2>8. ASSUME NEW k \in Sources, Advance(i, k) PROVE ObsInv'
    BY <2>8, AdvanceKeeps
  <2> QED BY <1>8, <2>1, <2>2, <2>3, <2>4, <2>5, <2>6, <2>7, <2>8
<1> QED BY <1>2, <1>3, <1>4, <1>5, <1>6, <1>7, <1>8 DEF ObservationsNext

-----------------------------------------------------------------------------
(* The composition.                                                        *)

\* The invariants of the three parts.
RunInv == CallsInv /\ ObsInv /\ EngineInv

\* Every part starts as it does alone, and takes a step of its own or none.
LEMMA RunInvInit == RunInit => RunInv
BY CallsInvInit, ObsInvInit, EngineInvInit DEF RunInit, RunInv

\* A step of the composition is one of each part, or none.
LEMMA RunParts ==
  [RunNext]_runVars =>
    [CallsNext]_callsVars /\ [ObservationsNext]_observationsVars /\ [EngineNext]_engineVars
BY DEF RunNext, runVars

\* Every step keeps the invariant.
LEMMA RunInvStep == RunInv /\ [RunNext]_runVars => RunInv'
BY RunParts, CallsInvStep, ObsInvStep, EngineInvStep DEF RunInv

\* The three invariants hold in every reachable state of the composition.
THEOREM RunInvHolds == RunSpec => []RunInv
BY RunInvInit, RunInvStep, PTL DEF RunSpec

\* Every variable of the three parts has its type.
THEOREM RunTyped == RunSpec => []RunTypeOK
<1>1. RunInv => RunTypeOK
  BY CallsFromInv DEF RunInv, RunTypeOK, ObsInv, EngineInv
<1> QED BY <1>1, RunInvHolds, PTL

\* The one row of a call says SUCCESS when the engine returned and ERROR when it threw,
\* unless a row or an answer of the cache was lost on the way; the caller is told the
\* same but for an isError of a remote tool; and SUCCESS is told of nothing the origin
\* did not execute but such an isError and a static response.
THEOREM CallsTold == RunSpec => []RowsTellCalls
<1>1. RunInv => RowsTellCalls
  BY CallsFromInv DEF RunInv
<1> QED BY <1>1, RunInvHolds, PTL

\* A call over the URL of an MCP server is executed by a tool of the organization of its
\* client, however many connectors are reloaded meanwhile.
THEOREM CallsStayInOrg == RunSpec => []ServerCallStaysInOrg
<1>1. RunInv => ServerCallStaysInOrg
  BY CallsFromInv DEF RunInv
<1> QED BY <1>1, RunInvHolds, PTL

\* A request is executed once by the origin, but after a timeout or a reset; and the
\* requests an engine sends for a call are one act of the origin, where it can know.
THEOREM CallsOnce == RunSpec => []CallsActOnce
<1>1. RunInv => CallsActOnce
  BY CallsFromInv DEF RunInv, EngineInv, CallsActOnce
<1> QED BY <1>1, RunInvHolds, PTL

\* A counter that counts has an end, is about to be given one, or lost it with a call that
\* was cut off between the two writes.
THEOREM CountersReset == RunSpec => []CountersEnd
<1>1. RunInv => CountersEnd
  BY CallsFromInv DEF RunInv
<1> QED BY <1>1, RunInvHolds, PTL

\* The watermark of a connector tells which rows the knowledge graph has taken, and a row
\* is taken twice only after ingests overlapped or one was cut off.
THEOREM RowsCounted == RunSpec => []RowsCountedOnce
<1>1. RunInv => RowsCountedOnce
  BY CountedFromInv DEF RunInv
<1> QED BY <1>1, RunInvHolds, PTL
=============================================================================
