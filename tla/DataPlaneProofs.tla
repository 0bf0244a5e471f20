---------------------------- MODULE DataPlaneProofs ----------------------------
(***************************************************************************)
(* Theorems about DataPlane, for any credentials shown, any errors portal  *)
(* may return and any events of a stream: who gets past the middleware,    *)
(* what is told of an error event, and what of the error of a call.        *)
(*                                                                         *)
(* The last is about the walk over the layers of an error.  Its values are *)
(* looked at layer by layer (FoldSteps), and at the first layer, if any,   *)
(* at which they were not as claimed: the status is that of the last layer *)
(* that had one (ExtractStatus), the type and the code are taken where     *)
(* they are found and are found if they are there (Gathers).               *)
(*                                                                         *)
(* And about Collector, the counter that the same middleware feeds, for    *)
(* any requests and any length of the ring: the inductive invariant RInv   *)
(* says that what is counted and was not lost lies no later than the       *)
(* second the ring stands at, which makes a cleared slot one that holds    *)
(* nothing of the window.                                                  *)
(***************************************************************************)
EXTENDS DataPlane, Collector, FiniteSetTheorems, TLAPS

\* What the middleware leaves behind: a request it admitted, with the provider it
\* resolved, or one it answered itself.
Passed ==
  /\ provider = Provider(route, ask)
  /\ Admits(route, ask, required)

TurnedAway == stage = "answered" /\ reply.status = 401

IInv ==
  /\ route \in Routes /\ ask \in Asks /\ required \in BOOLEAN
  /\ stage \in Stages
  /\ stage # "arrived" => Passed \/ TurnedAway

\* The path names the protocol of every native route but the lists of /v1 and the
\* calls of Gemini, and what is resolved for those is one of the three providers.
LEMMA Resolved ==
  ASSUME NEW r \in Routes, NEW a \in Asks
  PROVE  /\ ResolveProvider(r.op, a) \in {"openai", "anthropic", "gemini"}
         /\ r.op \in {"chat", "responses"} => ResolveProvider(r.op, a) = "openai"
         /\ r.op = "messages" => ResolveProvider(r.op, a) = "anthropic"
         /\ r.op = "geminiModels" => ResolveProvider(r.op, a) = "gemini"
<1>1. a.provider \in {None, "openai", "anthropic", "gemini"}
  BY DEF Asks
<1>2. None \notin {"openai", "anthropic", "gemini"}
  BY DEF None
<1> QED
  BY <1>1, <1>2 DEF ResolveProvider, ProviderFromPath, None

\* A strategy admits nothing but the token in the place of its own.
LEMMA RightCredential ==
  ASSUME NEW p \in {"openai", "anthropic", "gemini"}, NEW a \in Asks, Validate(p, a)
  PROVE  \/ p = "openai" /\ a.bearer = "right"
         \/ p = "anthropic" /\ a.xkey = "right"
         \/ p = "gemini" /\ "right" \in {a.goog, a.key}
BY DEF Validate, OpenAICredential, AnthropicCredential, GeminiCredential

\* The middleware (Authenticate) establishes what follows it relies on.
LEMMA AuthenticateKeeps ==
  ASSUME IInv, Authenticate
  PROVE  IInv'
<1>1. /\ route' = route /\ ask' = ask /\ required' = required
      /\ provider' = Provider(route, ask)
  BY DEF Authenticate, request
<1>2. CASE Admits(route, ask, required)
  <2>1. Passed' /\ stage' = "admitted"
    BY <1>1, <1>2 DEF Authenticate, Passed
  <2> QED
    BY <2>1, <1>1 DEF IInv, Stages
<1>3. CASE ~Admits(route, ask, required)
  <2>1. stage' = "answered" /\ reply' = Denied(provider')
    BY <1>3 DEF Authenticate, Answer
  <2>2. Denied(provider').status = 401
    BY DEF Denied
  <2>3. TurnedAway'
    BY <2>1, <2>2 DEF TurnedAway
  <2> QED
    BY <2>1, <2>3, <1>1 DEF IInv, Stages
<1> QED
  BY <1>2, <1>3

\* Nothing after the middleware changes the request or its provider.
LEMMA LaterKeeps ==
  ASSUME IInv, stage \notin {"arrived", "answered"},
         UNCHANGED <<request, provider>>, stage' \in Stages
  PROVE  IInv'
<1>1. Passed
  BY DEF IInv, TurnedAway
<1>2. Passed'
  BY <1>1 DEF Passed, request
<1> QED
  BY <1>2 DEF IInv, request

LEMMA NextKeeps ==
  ASSUME IInv, [Next]_vars
  PROVE  IInv'
<1>1. CASE Authenticate
  BY <1>1, AuthenticateKeeps
<1>2. CASE Refuse
  <2>1. stage = "admitted" /\ stage' = "answered" /\ UNCHANGED <<request, provider>>
    BY <1>2 DEF Refuse, Answer
  <2> QED  BY <2>1, LaterKeeps DEF Stages
<1>3. CASE Dispatch
  <2>1. /\ stage = "admitted" /\ UNCHANGED <<request, provider>>
        /\ stage' \in {"listing", "opening", "calling"}
    BY <1>3 DEF Dispatch
  <2> QED  BY <2>1, LaterKeeps DEF Stages
<1>4. CASE CallReturns
  <2>1. stage = "calling" /\ stage' = "answered" /\ UNCHANGED <<request, provider>>
    BY <1>4 DEF CallReturns, Answer
  <2> QED  BY <2>1, LaterKeeps DEF Stages
<1>5. CASE ListReturns
  <2>1. stage = "listing" /\ stage' = "answered" /\ UNCHANGED <<request, provider>>
    BY <1>5 DEF ListReturns, Answer
  <2> QED  BY <2>1, LaterKeeps DEF Stages
<1>6. CASE StreamStaysEmpty \/ StreamFails \/ StreamStarts
  <2>1. /\ stage = "opening" /\ stage' \in {"answered", "flowing"}
        /\ UNCHANGED <<request, provider>>
    BY <1>6 DEF StreamStaysEmpty, StreamFails, StreamStarts, Answer
  <2> QED  BY <2>1, LaterKeeps DEF Stages
<1>7. CASE StreamBreaks \/ StreamEnds
  <2>1. stage = "flowing" /\ stage' = "answered" /\ UNCHANGED <<request, provider>>
    BY <1>7 DEF StreamBreaks, StreamEnds
  <2> QED  BY <2>1, LaterKeeps DEF Stages
<1>8. CASE UNCHANGED vars
  BY <1>8 DEF vars, request, IInv, Passed, TurnedAway
<1> QED
  BY <1>1, <1>2, <1>3, <1>4, <1>5, <1>6, <1>7, <1>8 DEF Next

\* What was admitted showed the token where the route's protocol has it.
LEMMA PassedShowsToken ==
  ASSUME IInv
  PROVE  NativeNeedsToken
<1> SUFFICES ASSUME stage # "arrived", route.plane = "native", required,
                    reply.status # 401
             PROVE  LET named == CASE route.op \in {"chat", "responses"} -> "openai"
                                   [] route.op = "messages" -> "anthropic"
                                   [] route.op = "geminiModels" -> "gemini"
                                   [] OTHER -> provider
                    IN  \/ named = "openai" /\ ask.bearer = "right"
                        \/ named = "anthropic" /\ ask.xkey = "right"
                        \/ named = "gemini" /\ "right" \in {ask.goog, ask.key}
  BY DEF NativeNeedsToken
<1> DEFINE p == ResolveProvider(route.op, ask)
<1>1. Passed
  BY DEF IInv, TurnedAway
<1>2. provider = p /\ Validate(p, ask)
  BY <1>1 DEF Passed, Provider, Admits, Checked
<1>3. /\ p \in {"openai", "anthropic", "gemini"}
      /\ route.op \in {"chat", "responses"} => p = "openai"
      /\ route.op = "messages" => p = "anthropic"
      /\ route.op = "geminiModels" => p = "gemini"
  BY Resolved DEF IInv
<1> HIDE DEF p
<1>4. \/ p = "openai" /\ ask.bearer = "right"
      \/ p = "anthropic" /\ ask.xkey = "right"
      \/ p = "gemini" /\ "right" \in {ask.goog, ask.key}
  BY <1>2, <1>3, RightCredential DEF IInv
<1>5. CASE route.op \in {"chat", "responses"}
  BY <1>3, <1>4, <1>5
<1>6. CASE route.op = "messages"
  BY <1>3, <1>4, <1>6
<1>7. CASE route.op = "geminiModels"
  BY <1>3, <1>4, <1>7
<1>8. CASE route.op \notin {"chat", "responses", "messages", "geminiModels"}
  BY <1>2, <1>4, <1>8
<1> QED
  BY <1>5, <1>6, <1>7, <1>8

(* Whatever a request to a native route shows, it gets past the middleware *)
(* only with the token where the protocol of its route, or of the provider *)
(* it was taken for, has it (auth/middleware.go, provider.go, strategy.go). *)
THEOREM NativeRoutesNeedTheToken == Spec => []NativeNeedsToken
<1>1. Init => IInv
  BY ShownAssumption DEF Init, IInv, Stages
<1>2. IInv /\ [Next]_vars => IInv'
  BY NextKeeps
<1>3. IInv => NativeNeedsToken
  BY PassedShowsToken
<1> QED
  BY <1>1, <1>2, <1>3, PTL DEF Spec

-----------------------------------------------------------------------------
(* The ring of Collector. *)

\* Nonempty sets of naturals have a least element.
LEMMA Least ==
  ASSUME NEW T \in SUBSET Nat, T # {} PROVE \E x \in T : \A y \in T : x <= y
<1>1. PICK x \in T : \A y \in T : ~(<<y, x>> \in OpToRel(<, Nat))
  BY NatLessThanWellFounded, WFMin
<1>2. \A y \in T : ~(y < x)
  BY <1>1 DEF OpToRel
<1> QED
  BY <1>2

LEMMA Multiples ==
  ASSUME NEW d \in Int
  PROVE  /\ d >= 1 => Window * d >= Window
         /\ d <= -1 => Window * d <= -Window
BY WindowAssumption

LEMMA SlotIs ==
  ASSUME NEW a \in Int, NEW q \in Int, NEW r \in 0..(Window - 1), a = Window * q + r
  PROVE  Slot(a) = r
<1> DEFINE p == a \div Window
           m == a % Window
<1>1. p \in Int /\ m \in 0..(Window - 1) /\ a = Window * p + m
  BY WindowAssumption
<1>2. PICK d \in Int : d = q - p
  BY <1>1
<1> HIDE DEF p, m
<1>3. Window * d = Window * q - Window * p
  BY <1>1, <1>2, WindowAssumption
<1>4. Window * d = m - r
  BY <1>1, <1>3, WindowAssumption
<1>5. d = 0
  BY <1>1, <1>4, Multiples, WindowAssumption
<1> QED
  BY <1>1, <1>4, <1>5, WindowAssumption DEF m, Slot

\* The ring: a second and the one a window later share a slot, seconds that are
\* closer do not, and the slots of a window are all of them.
LEMMA Slots ==
  /\ \A a \in Int : Slot(a) \in 0..(Window - 1) /\ Slot(a + Window) = Slot(a)
  /\ \A a, b \in Int : a < b /\ b < a + Window => Slot(a) # Slot(b)
  /\ \A k \in Int : \A i \in 0..(Window - 1) : \E j \in 0..(Window - 1) : Slot(k - j) = i
<1> DEFINE Q(a) == a \div Window
<1>1. \A a \in Int : Q(a) \in Int /\ Slot(a) \in 0..(Window - 1) /\ a = Window * Q(a) + Slot(a)
  BY WindowAssumption DEF Slot
<1> HIDE DEF Q
<1>2. \A a \in Int : Slot(a + Window) = Slot(a)
  <2> TAKE a \in Int
  <2>1. PICK q \in Int : a = Window * q + Slot(a)
    BY <1>1
  <2>2. Slot(a) \in 0..(Window - 1)
    BY <1>1
  <2>3. PICK b \in Int, p \in Int : b = a + Window /\ p = q + 1
    BY WindowAssumption
  <2>4. Window * p = Window * q + Window
    BY <2>1, <2>3, WindowAssumption
  <2>5. b = Window * p + Slot(a)
    BY <2>1, <2>2, <2>3, <2>4, WindowAssumption
  <2>6. Slot(b) = Slot(a)
    BY <2>2, <2>5, SlotIs
  <2> QED
    BY <2>3, <2>6
<1>3. \A a, b \in Int : a < b /\ b < a + Window => Slot(a) # Slot(b)
  <2> SUFFICES ASSUME NEW a \in Int, NEW b \in Int, a < b, b < a + Window, Slot(a) = Slot(b)
               PROVE FALSE
    OBVIOUS
  <2>1. PICK d \in Int : d = Q(b) - Q(a)
    BY <1>1
  <2>2. Window * d = Window * Q(b) - Window * Q(a)
    BY <1>1, <2>1, WindowAssumption
  <2>3. Window * d = b - a
    BY <1>1, <2>2, WindowAssumption
  <2>4. d = 0
    BY <2>3, Multiples, WindowAssumption
  <2> QED
    BY <2>3, <2>4, WindowAssumption
<1>4. \A k \in Int : \A i \in 0..(Window - 1) : \E j \in 0..(Window - 1) : Slot(k - j) = i
  <2> TAKE k \in Int
  <2> TAKE i \in 0..(Window - 1)
  <2>0. k - i \in Int
    BY WindowAssumption
  <2>1. PICK j \in 0..(Window - 1), q \in Int : k - i = Window * q + j
    BY <1>1, <2>0
  <2>2. k - j = Window * q + i /\ k - j \in Int
    BY <2>1, WindowAssumption
  <2>3. Slot(k - j) = i
    BY <2>2, SlotIs
  <2> QED
    BY <2>3
<1> QED
  BY <1>1, <1>2, <1>3, <1>4

\* total is what its definition says: the recursion has a solution.
TurnOf(n) == Slot(clock + Window - (n - 1))

LEMMA TurnIsSlot == ASSUME RingTypeOK, NEW n \in 1..Window PROVE TurnOf(n) \in 0..(Window - 1)
<1>1. clock + Window - (n - 1) \in Int
  BY WindowAssumption, TimeAssumption DEF RingTypeOK, Seconds
<1> QED
  BY <1>1, Slots DEF TurnOf

LEMMA TotalIs ==
  ASSUME RingTypeOK
  PROVE  /\ total[0] = 0
         /\ \A n \in 1..Window : total[n] = total[n - 1] + requestCounts[TurnOf(n)]
         /\ \A n \in 0..Window : total[n] \in Nat
<1> DEFINE Sums(m, f) == /\ f \in [0..m -> Nat]
                         /\ f[0] = 0
                         /\ \A n \in 1..m : f[n] = f[n - 1] + requestCounts[TurnOf(n)]
           Bad == {m \in 0..Window : ~ \E f : Sums(m, f)}
<1>0. \A n \in 1..Window : requestCounts[TurnOf(n)] \in Nat
  BY TurnIsSlot DEF RingTypeOK
<1>1. ASSUME NEW m \in 1..Window, NEW g, Sums(m - 1, g) PROVE \E f : Sums(m, f)
  <2> DEFINE f == [n \in 0..m |-> IF n = m THEN g[m - 1] + requestCounts[TurnOf(m)] ELSE g[n]]
  <2>1. f \in [0..m -> Nat] /\ f[0] = 0
    BY <1>0, <1>1, WindowAssumption
  <2>2. \A n \in 1..m : f[n] = f[n - 1] + requestCounts[TurnOf(n)]
    <3> TAKE n \in 1..m
    <3>1. CASE n = m
      BY <3>1, WindowAssumption
    <3>2. CASE n # m
      BY <1>1, <3>2, WindowAssumption
    <3> QED
      BY <3>1, <3>2
  <2> QED
    BY <2>1, <2>2
<1>2. Sums(0, [n \in 0..0 |-> 0])
  OBVIOUS
<1>3. Bad = {}
  <2> HIDE DEF Sums
  <2> SUFFICES ASSUME Bad # {} PROVE FALSE
    OBVIOUS
  <2>0. Bad \in SUBSET Nat
    BY WindowAssumption
  <2>1. PICK m \in Bad : \A y \in Bad : m <= y
    BY <2>0, Least
  <2>2. m \in 1..Window
    BY <1>2, <2>1, WindowAssumption
  <2>3. m - 1 \in 0..Window /\ m - 1 \notin Bad
    <3> HIDE DEF Bad
    <3>1. m - 1 \in 0..Window /\ ~(m <= m - 1)
      BY <2>2, WindowAssumption
    <3> QED
      BY <2>1, <3>1
  <2>4. PICK g : Sums(m - 1, g)
    BY <2>3
  <2> QED
    BY <1>1, <2>1, <2>2, <2>4
<1>4. PICK f : Sums(Window, f)
  <2> HIDE DEF Sums
  <2>1. Window \in 0..Window
    BY WindowAssumption
  <2> QED
    BY <1>3, <2>1
<1> DEFINE Body(g) == [n \in 0..Window |->
             IF n = 0 THEN 0 ELSE g[n - 1] + requestCounts[Slot(clock + Window - (n - 1))]]
<1>5. f = Body(f)
  <2>1. f = [n \in 0..Window |-> f[n]]
    BY <1>4
  <2>2. \A n \in 0..Window : f[n] = IF n = 0 THEN 0 ELSE f[n - 1] + requestCounts[TurnOf(n)]
    BY <1>4, WindowAssumption
  <2> QED
    BY <2>1, <2>2, Zenon DEF TurnOf
<1>6. total = CHOOSE g : g = Body(g)
  BY DEF total
<1>7. total = Body(total)
  <2> HIDE DEF Body
  <2> QED
    BY <1>5, <1>6
<1>8. total[0] = 0 /\ \A n \in 1..Window : total[n] = total[n - 1] + requestCounts[TurnOf(n)]
  <2>1. \A n \in 0..Window : total[n] =
            IF n = 0 THEN 0 ELSE total[n - 1] + requestCounts[Slot(clock + Window - (n - 1))]
    <3> DEFINE e(n) == IF n = 0 THEN 0 ELSE total[n - 1] + requestCounts[Slot(clock + Window - (n - 1))]
    <3>1. total = [n \in 0..Window |-> e(n)]
      BY <1>7
    <3> HIDE DEF e
    <3>2. \A n \in 0..Window : total[n] = e(n)
      BY <3>1
    <3> QED
      BY <3>2 DEF e
  <2> QED
    BY <2>1, WindowAssumption DEF TurnOf
<1>9. \A n \in 0..Window : total[n] \in Nat
  <2> DEFINE Wrong == {n \in 0..Window : total[n] \notin Nat}
  <2> SUFFICES ASSUME Wrong # {} PROVE FALSE
    OBVIOUS
  <2>0. Wrong \in SUBSET Nat
    BY WindowAssumption
  <2>1. PICK m \in Wrong : \A y \in Wrong : m <= y
    BY <2>0, Least
  <2>2. m \in 1..Window
    BY <1>8, <2>1, WindowAssumption
  <2>3. m - 1 \in 0..Window /\ m - 1 \notin Wrong
    BY <2>1, <2>2, WindowAssumption
  <2> QED
    BY <1>0, <1>8, <2>1, <2>2, <2>3
<1> QED
  BY <1>8, <1>9

\* What is counted in a slot, and what the first n turns of GetRPM's loop see.
AtSlot(S, i) == {r \in S : Slot(arrival[r]) = i}
Turned(S, n) == {r \in S : \E m \in 1..n : Slot(arrival[r]) = TurnOf(m)}

LEMMA TurnedGrows ==
  ASSUME RingTypeOK, NEW S \in SUBSET recorded, NEW n \in 1..Window
  PROVE  /\ Cardinality(Turned(S, n)) \in Nat /\ Cardinality(Turned(S, n - 1)) \in Nat
         /\ Cardinality(AtSlot(S, TurnOf(n))) \in Nat
         /\ Cardinality(Turned(S, n)) =
              Cardinality(Turned(S, n - 1)) + Cardinality(AtSlot(S, TurnOf(n)))
<1> DEFINE A == Turned(S, n - 1)
           B == AtSlot(S, TurnOf(n))
<1>1. IsFiniteSet(S)
  BY RequestsAssumption, FS_Subset DEF RingTypeOK
<1>2. IsFiniteSet(A) /\ IsFiniteSet(B)
  BY <1>1, FS_Subset DEF Turned, AtSlot
<1>3. Turned(S, n) = A \cup B
  BY WindowAssumption DEF Turned, AtSlot
<1>4. \A m \in 1..(n - 1) : TurnOf(m) # TurnOf(n)
  <2> TAKE m \in 1..(n - 1)
  <2> DEFINE a == clock + Window - (n - 1)
             b == clock + Window - (m - 1)
  <2>1. a \in Int /\ b \in Int /\ a < b /\ b < a + Window
    BY WindowAssumption, TimeAssumption DEF RingTypeOK, Seconds
  <2> HIDE DEF a, b
  <2>2. Slot(a) # Slot(b)
    BY <2>1, Slots
  <2> QED
    BY <2>2 DEF TurnOf, a, b
<1>5. A \cap B = {}
  BY <1>4 DEF Turned, AtSlot
<1> HIDE DEF A, B
<1>6. Cardinality(A \cup B) = Cardinality(A) + Cardinality(B) - Cardinality({})
  BY <1>2, <1>5, FS_Union
<1>7. Cardinality({}) = 0
  BY FS_EmptySet
<1>8. Cardinality(A) \in Nat /\ Cardinality(B) \in Nat
  BY <1>2, FS_CardinalityType
<1> QED
  BY <1>3, <1>6, <1>7, <1>8 DEF A, B

LEMMA TurnedEnds ==
  ASSUME RingTypeOK, NEW S \in SUBSET recorded
  PROVE  Turned(S, Window) = S /\ Cardinality(Turned(S, 0)) = 0
<1>1. ASSUME NEW r \in S PROVE \E m \in 1..Window : Slot(arrival[r]) = TurnOf(m)
  <2>1. Slot(arrival[r]) \in 0..(Window - 1)
    <3>1. arrival[r] \in Int
      BY TimeAssumption DEF RingTypeOK, Seconds, NotYet
    <3> QED
      BY <3>1, Slots
  <2>2. PICK k \in Int : k = clock + Window
    BY WindowAssumption, TimeAssumption DEF RingTypeOK, Seconds
  <2>3. PICK j \in 0..(Window - 1) : Slot(k - j) = Slot(arrival[r])
    BY <2>1, Slots
  <2>4. j + 1 \in 1..Window /\ (j + 1) - 1 = j
    BY WindowAssumption
  <2>5. clock + Window - ((j + 1) - 1) = k - j
    BY <2>2, TimeAssumption, WindowAssumption DEF RingTypeOK, Seconds
  <2>6. TurnOf(j + 1) = Slot(k - j)
    BY <2>5 DEF TurnOf
  <2> QED
    BY <2>3, <2>4, <2>6
<1>2. Turned(S, Window) = S
  BY <1>1 DEF Turned
<1>3. Turned(S, 0) = {}
  BY DEF Turned
<1> QED
  BY <1>2, <1>3, FS_EmptySet

\* What bounds every slot bounds the rate.
LEMMA RateIsAtMost ==
  ASSUME RingTypeOK, NEW S \in SUBSET recorded,
         \A i \in 0..(Window - 1) : requestCounts[i] <= Cardinality(AtSlot(S, i))
  PROVE  GetRPM <= Cardinality(S)
<1> DEFINE Wrong == {n \in 0..Window : ~(total[n] <= Cardinality(Turned(S, n)))}
<1>1. Wrong = {}
  <2> SUFFICES ASSUME Wrong # {} PROVE FALSE
    OBVIOUS
  <2>0. Wrong \in SUBSET Nat
    BY WindowAssumption
  <2>1. PICK m \in Wrong : \A y \in Wrong : m <= y
    BY <2>0, Least
  <2>2. m # 0
    <3>1. total[0] = 0 /\ Cardinality(Turned(S, 0)) = 0
      BY TotalIs, TurnedEnds
    <3> QED
      BY <2>1, <3>1
  <2>3. m \in 1..Window /\ m - 1 \in 0..Window /\ ~(m <= m - 1)
    BY <2>1, <2>2, WindowAssumption
  <2>4. total[m - 1] <= Cardinality(Turned(S, m - 1))
    BY <2>1, <2>3
  <2>5. TurnOf(m) \in 0..(Window - 1)
    BY <2>3, TurnIsSlot
  <2>6. requestCounts[TurnOf(m)] \in Nat /\ requestCounts[TurnOf(m)] <= Cardinality(AtSlot(S, TurnOf(m)))
    BY <2>5 DEF RingTypeOK
  <2>7. total[m] = total[m - 1] + requestCounts[TurnOf(m)] /\ total[m - 1] \in Nat
    BY <2>3, TotalIs
  <2>8. /\ Cardinality(Turned(S, m - 1)) \in Nat /\ Cardinality(AtSlot(S, TurnOf(m))) \in Nat
        /\ Cardinality(Turned(S, m)) =
              Cardinality(Turned(S, m - 1)) + Cardinality(AtSlot(S, TurnOf(m)))
    BY <2>3, TurnedGrows
  <2>9. total[m] <= Cardinality(Turned(S, m))
    BY <2>4, <2>6, <2>7, <2>8
  <2> QED
    BY <2>1, <2>9
<1>2. Window \in 0..Window
  BY WindowAssumption
<1> QED
  BY <1>1, <1>2, TurnedEnds DEF GetRPM

LEMMA RateIsAtLeast ==
  ASSUME RingTypeOK, NEW S \in SUBSET recorded,
         \A i \in 0..(Window - 1) : requestCounts[i] >= Cardinality(AtSlot(S, i))
  PROVE  GetRPM >= Cardinality(S)
<1> DEFINE Wrong == {n \in 0..Window : ~(total[n] >= Cardinality(Turned(S, n)))}
<1>1. Wrong = {}
  <2> SUFFICES ASSUME Wrong # {} PROVE FALSE
    OBVIOUS
  <2>0. Wrong \in SUBSET Nat
    BY WindowAssumption
  <2>1. PICK m \in Wrong : \A y \in Wrong : m <= y
    BY <2>0, Least
  <2>2. m # 0
    <3>1. total[0] = 0 /\ Cardinality(Turned(S, 0)) = 0
      BY TotalIs, TurnedEnds
    <3> QED
      BY <2>1, <3>1
  <2>3. m \in 1..Window /\ m - 1 \in 0..Window /\ ~(m <= m - 1)
    BY <2>1, <2>2, WindowAssumption
  <2>4. total[m - 1] >= Cardinality(Turned(S, m - 1))
    BY <2>1, <2>3
  <2>5. TurnOf(m) \in 0..(Window - 1)
    BY <2>3, TurnIsSlot
  <2>6. requestCounts[TurnOf(m)] \in Nat /\ requestCounts[TurnOf(m)] >= Cardinality(AtSlot(S, TurnOf(m)))
    BY <2>5 DEF RingTypeOK
  <2>7. total[m] = total[m - 1] + requestCounts[TurnOf(m)] /\ total[m - 1] \in Nat
    BY <2>3, TotalIs
  <2>8. /\ Cardinality(Turned(S, m - 1)) \in Nat /\ Cardinality(AtSlot(S, TurnOf(m))) \in Nat
        /\ Cardinality(Turned(S, m)) =
              Cardinality(Turned(S, m - 1)) + Cardinality(AtSlot(S, TurnOf(m)))
    BY <2>3, TurnedGrows
  <2>9. total[m] >= Cardinality(Turned(S, m))
    BY <2>4, <2>6, <2>7, <2>8
  <2> QED
    BY <2>1, <2>9
<1>2. Window \in 0..Window
  BY WindowAssumption
<1> QED
  BY <1>1, <1>2, TurnedEnds DEF GetRPM

LEMMA SlotsGiveRate == RingTypeOK /\ SlotsHoldOneSecond => RateIsBracketed
<1> SUFFICES ASSUME RingTypeOK, SlotsHoldOneSecond PROVE RateIsBracketed
  OBVIOUS
<1> DEFINE S == CountedSince(currentSecond)
           T == S \ endangered
<1>1. S \in SUBSET recorded /\ T \in SUBSET recorded
  BY DEF CountedSince
<1>2. \A i \in 0..(Window - 1) : /\ requestCounts[i] <= Cardinality(AtSlot(S, i))
                                 /\ requestCounts[i] >= Cardinality(AtSlot(T, i))
  <2> TAKE i \in 0..(Window - 1)
  <2>1. AtSlot(T, i) = AtSlot(S, i) \ endangered
    BY DEF AtSlot
  <2> QED
    BY <2>1 DEF SlotsHoldOneSecond, AtSlot
<1> HIDE DEF S, T
<1>3. GetRPM <= Cardinality(S) /\ GetRPM >= Cardinality(T)
  BY <1>1, <1>2, RateIsAtMost, RateIsAtLeast
<1> QED
  BY <1>3 DEF S, T, RateIsBracketed

\* What is counted and was not lost is not of a second ahead of the ring.
NotAhead == \A r \in recorded \ endangered : arrival[r] <= currentSecond

RInv == RingTypeOK /\ SlotsHoldOneSecond /\ NotAhead

\* Advancing the ring to second a, forwards or back, for whatever E is lost.
LEMMA AdvancedHolds ==
  ASSUME RInv, NEW a \in Seconds, NEW E \in SUBSET recorded, endangered \subseteq E,
         a < currentSecond =>
           \A q \in recorded \ E : arrival[q] <= a /\ arrival[q] > currentSecond - Window,
         NEW i \in 0..(Window - 1)
  PROVE  /\ Advanced(a)[i] \in Nat
         /\ Advanced(a)[i] <= Cardinality(AtSlot(CountedSince(a), i))
         /\ Advanced(a)[i] >= Cardinality(AtSlot(CountedSince(a), i) \ E)
<1> DEFINE Old == AtSlot(CountedSince(currentSecond), i)
           New == AtSlot(CountedSince(a), i)
<1>0. /\ currentSecond \in Int /\ a \in Int /\ requestCounts[i] \in Nat
      /\ \A r \in recorded : arrival[r] \in Int
  BY TimeAssumption DEF RInv, RingTypeOK, Seconds, NotYet
<1>1. IsFiniteSet(recorded)
  BY RequestsAssumption, FS_Subset DEF RInv, RingTypeOK
<1>2. /\ Old \in SUBSET recorded /\ New \in SUBSET recorded
      /\ Old \ endangered \in SUBSET recorded /\ New \ E \in SUBSET recorded
  BY DEF AtSlot, CountedSince
<1>3. \A S \in SUBSET recorded : IsFiniteSet(S) /\ Cardinality(S) \in Nat
  <2> TAKE S \in SUBSET recorded
  <2>1. IsFiniteSet(S)
    BY <1>1, FS_Subset
  <2> QED
    BY <2>1, FS_CardinalityType
<1>4. \A S, T \in SUBSET recorded : S \subseteq T => Cardinality(S) <= Cardinality(T)
  <2> SUFFICES ASSUME NEW S \in SUBSET recorded, NEW T \in SUBSET recorded, S \subseteq T
               PROVE Cardinality(S) <= Cardinality(T)
    OBVIOUS
  <2> QED
    BY <1>3, FS_Subset
<1>5. /\ requestCounts[i] <= Cardinality(Old)
      /\ requestCounts[i] >= Cardinality(Old \ endangered)
  BY DEF RInv, SlotsHoldOneSecond, AtSlot
<1>6. Advanced(a)[i] = IF \E s \in (currentSecond + 1)..a : Slot(s) = i
                       THEN 0 ELSE requestCounts[i]
  BY DEF Advanced
<1>7. CASE \E s \in (currentSecond + 1)..a : Slot(s) = i
  <2>1. New \ E = {}
    <3> SUFFICES ASSUME NEW r \in New \ E PROVE FALSE
      OBVIOUS
    <3>1. r \in recorded \ endangered /\ arrival[r] > a - Window /\ Slot(arrival[r]) = i
      BY DEF AtSlot, CountedSince
    <3>2. PICK s \in (currentSecond + 1)..a : Slot(s) = i
      BY <1>7
    <3>3. arrival[r] \in Int /\ arrival[r] <= currentSecond /\ s \in Int
      BY <1>0, <3>1, <3>2 DEF RInv, NotAhead
    <3>4. arrival[r] < s /\ s < arrival[r] + Window
      BY <1>0, <3>1, <3>2, <3>3, WindowAssumption
    <3> QED
      BY <3>1, <3>2, <3>3, <3>4, Slots
  <2>2. Cardinality(New \ E) = 0
    BY <2>1, FS_EmptySet
  <2>3. Cardinality(New) \in Nat
    BY <1>2, <1>3
  <2> HIDE DEF New
  <2> QED
    BY <1>6, <1>7, <2>2, <2>3 DEF New
<1>8. CASE ~ \E s \in (currentSecond + 1)..a : Slot(s) = i
  <2>1. Old \subseteq New
    <3> SUFFICES ASSUME NEW r \in Old, arrival[r] <= a - Window PROVE FALSE
      BY <1>0, WindowAssumption DEF AtSlot, CountedSince
    <3>1. arrival[r] \in Int /\ arrival[r] > currentSecond - Window /\ Slot(arrival[r]) = i
      BY <1>0 DEF AtSlot, CountedSince
    <3>2. arrival[r] + Window \in (currentSecond + 1)..a
      BY <1>0, <3>1, WindowAssumption
    <3>3. Slot(arrival[r] + Window) = i
      BY <3>1, Slots
    <3> QED
      BY <1>8, <3>2, <3>3
  <2>2. New \ E \subseteq Old \ endangered
    <3> SUFFICES ASSUME NEW r \in New \ E PROVE r \in Old \ endangered
      OBVIOUS
    <3>1. /\ r \in recorded \ E /\ arrival[r] > a - Window /\ Slot(arrival[r]) = i
          /\ r \notin endangered
      BY DEF AtSlot, CountedSince
    <3>2. arrival[r] > currentSecond - Window
      BY <1>0, <3>1, WindowAssumption
    <3> QED
      BY <3>1, <3>2 DEF AtSlot, CountedSince
  <2>3. Cardinality(Old) <= Cardinality(New) /\ Cardinality(New \ E) <= Cardinality(Old \ endangered)
    BY <1>2, <1>4, <2>1, <2>2
  <2>4. /\ Cardinality(Old) \in Nat /\ Cardinality(New) \in Nat
        /\ Cardinality(Old \ endangered) \in Nat /\ Cardinality(New \ E) \in Nat
    BY <1>2, <1>3
  <2>5. Advanced(a)[i] = requestCounts[i]
    BY <1>6, <1>8
  <2> HIDE DEF Old, New
  <2>6. /\ Advanced(a)[i] \in Nat
        /\ Advanced(a)[i] <= Cardinality(New)
        /\ Advanced(a)[i] >= Cardinality(New \ E)
    BY <1>0, <1>5, <2>3, <2>4, <2>5
  <2> QED
    BY <2>6 DEF New
<1> QED
  BY <1>7, <1>8

LEMMA RingStarts == RingInit => RInv
<1> SUFFICES ASSUME RingInit PROVE RInv
  OBVIOUS
<1>1. RingTypeOK
  BY WindowAssumption, TimeAssumption, BackAssumption DEF RingInit, RingTypeOK, Seconds
<1>2. NotAhead
  BY DEF RingInit, NotAhead
<1>3. SlotsHoldOneSecond
  <2>1. Cardinality({}) = 0
    BY FS_EmptySet
  <2> SUFFICES ASSUME NEW i \in 0..(Window - 1)
               PROVE LET here == {r \in CountedSince(currentSecond) : Slot(arrival[r]) = i}
                     IN  /\ requestCounts[i] <= Cardinality(here)
                         /\ requestCounts[i] >= Cardinality(here \ endangered)
    BY DEF SlotsHoldOneSecond
  <2>2. CountedSince(currentSecond) = {} /\ requestCounts[i] = 0
    BY DEF RingInit, CountedSince
  <2> QED
    BY <2>1, <2>2
<1> QED
  BY <1>1, <1>2, <1>3 DEF RInv

LEMMA RingTypeStep == RingTypeOK /\ (\A a \in Seconds : \A i \in 0..(Window - 1) : Advanced(a)[i] \in Nat)
                      /\ [RingNext]_ringVars => RingTypeOK'
<1> SUFFICES ASSUME RingTypeOK, \A a \in Seconds : \A i \in 0..(Window - 1) : Advanced(a)[i] \in Nat,
                    [RingNext]_ringVars
             PROVE  RingTypeOK'
  OBVIOUS
<1>0. \A a \in Seconds : Advanced(a) \in [0..(Window - 1) -> Nat]
  BY DEF Advanced
<1>1. ASSUME NEW r \in Requests, Arrive(r) PROVE RingTypeOK'
  BY <1>1 DEF Arrive, RingTypeOK, Seconds, NotYet
<1>2. ASSUME NEW r \in Requests, Record(r) PROVE RingTypeOK'
  <2>1. arrival[r] \in Seconds
    BY <1>2 DEF Record, RingTypeOK
  <2>2. requestCounts' \in [0..(Window - 1) -> Nat]
    <3>1. Advanced(arrival[r]) \in [0..(Window - 1) -> Nat]
      BY <1>0, <2>1
    <3>2. requestCounts' = [Advanced(arrival[r]) EXCEPT ![Slot(arrival[r])] = @ + 1]
      BY <1>2 DEF Record
    <3>3. Slot(arrival[r]) \in 0..(Window - 1)
      BY <2>1, TimeAssumption, Slots DEF Seconds
    <3> DEFINE A == Advanced(arrival[r])
               i == Slot(arrival[r])
    <3> HIDE DEF A, i
    <3>4. A \in [0..(Window - 1) -> Nat] /\ i \in 0..(Window - 1) /\ requestCounts' = [A EXCEPT ![i] = @ + 1]
      BY <3>1, <3>2, <3>3 DEF A, i
    <3>5. A[i] + 1 \in Nat
      BY <3>4
    <3> QED
      BY <3>4, <3>5
  <2>3. /\ recorded' = recorded \cup {r} /\ currentSecond' = arrival[r]
        /\ UNCHANGED <<clock, arrival, backs>>
        /\ endangered' \subseteq recorded
    BY <1>2 DEF Record, RingTypeOK
  <2>4. arrival[r] # NotYet
    BY <1>2 DEF Record
  <2> QED
    BY <2>1, <2>2, <2>3, <2>4 DEF RingTypeOK
<1>3. CASE Cleanup
  BY <1>0, <1>3 DEF Cleanup, RingTypeOK
<1>4. CASE Tick
  BY <1>4, TimeAssumption DEF Tick, RingTypeOK, Seconds
<1>5. CASE StepBack
  BY <1>5, TimeAssumption, BackAssumption DEF StepBack, RingTypeOK, Seconds
<1>6. CASE UNCHANGED ringVars
  BY <1>6 DEF ringVars, RingTypeOK
<1> QED
  BY <1>1, <1>2, <1>3, <1>4, <1>5, <1>6 DEF RingNext

LEMMA RingStep == RInv /\ [RingNext]_ringVars => RInv'
<1> SUFFICES ASSUME RInv, [RingNext]_ringVars PROVE RInv'
  OBVIOUS
<1>0. \A a \in Seconds : \A i \in 0..(Window - 1) : Advanced(a)[i] \in Nat
  BY DEF Advanced, RInv, RingTypeOK
<1>t. RingTypeOK'
  BY <1>0, RingTypeStep DEF RInv
<1>u. \A S \in SUBSET recorded : IsFiniteSet(S) /\ Cardinality(S) \in Nat
  <2> TAKE S \in SUBSET recorded
  <2>1. IsFiniteSet(recorded)
    BY RequestsAssumption, FS_Subset DEF RInv, RingTypeOK
  <2>2. IsFiniteSet(S)
    BY <2>1, FS_Subset
  <2> QED
    BY <2>2, FS_CardinalityType
<1>1. ASSUME NEW r \in Requests, Arrive(r) PROVE RInv'
  <2>1. r \notin recorded
    BY <1>1 DEF Arrive, RInv, RingTypeOK
  <2>2. /\ \A q \in recorded : arrival'[q] = arrival[q]
        /\ UNCHANGED <<requestCounts, currentSecond, recorded, endangered>>
    BY <1>1, <2>1 DEF Arrive, RInv, RingTypeOK
  <2>3. NotAhead'
    BY <2>2 DEF NotAhead, RInv
  <2>4. ASSUME NEW i \in 0..(Window - 1)
        PROVE  {q \in CountedSince(currentSecond) : Slot(arrival[q]) = i}'
                  = {q \in CountedSince(currentSecond) : Slot(arrival[q]) = i}
    BY <2>2 DEF CountedSince
  <2>5. SlotsHoldOneSecond'
    BY <2>2, <2>4 DEF SlotsHoldOneSecond, RInv
  <2> QED
    BY <1>t, <2>3, <2>5 DEF RInv
<1>2. ASSUME NEW r \in Requests, Record(r) PROVE RInv'
  <2> DEFINE a == arrival[r]
             E == endangered'
  <2>1. /\ a \in Seconds /\ r \in Requests /\ r \notin recorded /\ currentSecond' = a
        /\ recorded' = recorded \cup {r} /\ UNCHANGED arrival
        /\ requestCounts' = [Advanced(a) EXCEPT ![Slot(a)] = @ + 1]
    BY <1>2 DEF Record, RInv, RingTypeOK
  <2>2. /\ E \in SUBSET recorded /\ endangered \subseteq E
        /\ a < currentSecond =>
             \A q \in recorded \ E : ~(arrival[q] > a) /\ ~(arrival[q] <= currentSecond - Window)
    BY <1>2 DEF Record, RInv, RingTypeOK
  <2>0. /\ currentSecond \in Int /\ a \in Int
        /\ \A q \in recorded : arrival[q] \in Int
    BY <2>1, TimeAssumption DEF RInv, RingTypeOK, Seconds, NotYet
  <2> HIDE DEF E
  <2>3. a < currentSecond =>
          \A q \in recorded \ E : arrival[q] <= a /\ arrival[q] > currentSecond - Window
    BY <2>0, <2>2, WindowAssumption
  <2>4. NotAhead'
    <3>1. \A q \in recorded \ E : arrival[q] <= a
      BY <2>0, <2>2, <2>3 DEF RInv, NotAhead
    <3> QED
      BY <2>0, <2>1, <3>1 DEF NotAhead, E
  <2>5. SlotsHoldOneSecond'
    <3> SUFFICES ASSUME NEW i \in 0..(Window - 1)
                 PROVE LET here == {q \in CountedSince(currentSecond)' : Slot(arrival[q])' = i}
                       IN  /\ requestCounts'[i] <= Cardinality(here)
                           /\ requestCounts'[i] >= Cardinality(here \ endangered')
      BY DEF SlotsHoldOneSecond
    <3> DEFINE here == {q \in CountedSince(currentSecond)' : Slot(arrival[q])' = i}
               S == AtSlot(CountedSince(a), i)
               x == Advanced(a)[i]
    <3>1. /\ x \in Nat /\ x <= Cardinality(S) /\ x >= Cardinality(S \ E)
      BY <2>1, <2>2, <2>3, AdvancedHolds
    <3>2. /\ S \in SUBSET recorded /\ r \notin S /\ r \notin S \ E
          /\ S \ E \in SUBSET recorded
      BY <2>1 DEF AtSlot, CountedSince
    <3>3. a > a - Window
      BY <2>0, WindowAssumption
    <3>4. CASE Slot(a) = i
      <4>1. here = S \cup {r} /\ here \ E = (S \ E) \cup {r}
        BY <2>1, <2>2, <3>3, <3>4 DEF AtSlot, CountedSince
      <4>2. requestCounts'[i] = x + 1
        <5>1. i \in DOMAIN Advanced(a)
          BY DEF Advanced
        <5> QED
          BY <2>1, <3>4, <5>1
      <4> HIDE DEF S, x, here
      <4>3. /\ Cardinality(S \cup {r}) = Cardinality(S) + 1
            /\ Cardinality((S \ E) \cup {r}) = Cardinality(S \ E) + 1
        BY <1>u, <3>2, FS_AddElement
      <4>4. Cardinality(S) \in Nat /\ Cardinality(S \ E) \in Nat
        BY <1>u, <3>2
      <4>5. /\ requestCounts'[i] <= Cardinality(here)
            /\ requestCounts'[i] >= Cardinality(here \ E)
        <5>1. Cardinality(here) = Cardinality(S) + 1 /\ Cardinality(here \ E) = Cardinality(S \ E) + 1
          BY <4>1, <4>3
        <5> QED
          BY <3>1, <4>2, <4>4, <5>1
      <4> QED
        BY <4>5 DEF here, E
    <3>5. CASE Slot(a) # i
      <4>1. here = S
        BY <2>1, <2>2, <3>3, <3>5 DEF AtSlot, CountedSince
      <4>2. requestCounts'[i] = x
        <5>1. i \in DOMAIN Advanced(a)
          BY DEF Advanced
        <5> QED
          BY <2>1, <3>5, <5>1
      <4> QED
        BY <3>1, <4>1, <4>2 DEF E
    <3> QED
      BY <3>4, <3>5
  <2> QED
    BY <1>t, <2>4, <2>5 DEF RInv
<1>3. CASE Cleanup
  <2>1. /\ currentSecond' = clock /\ clock > currentSecond /\ requestCounts' = Advanced(clock)
        /\ UNCHANGED <<arrival, recorded, endangered>>
        /\ clock \in Seconds
    BY <1>3 DEF Cleanup, RInv, RingTypeOK
  <2>2. /\ clock \in Int /\ currentSecond \in Int /\ ~(clock < currentSecond)
        /\ \A q \in recorded : arrival[q] \in Int
    BY <2>1, TimeAssumption DEF RInv, RingTypeOK, Seconds, NotYet
  <2>3. NotAhead'
    BY <2>1, <2>2 DEF RInv, NotAhead
  <2>4. endangered \in SUBSET recorded
    BY DEF RInv, RingTypeOK
  <2>5. ASSUME NEW i \in 0..(Window - 1)
        PROVE LET here == {q \in CountedSince(currentSecond)' : Slot(arrival[q])' = i}
              IN  /\ requestCounts'[i] <= Cardinality(here)
                  /\ requestCounts'[i] >= Cardinality(here \ endangered')
    <3>1. /\ Advanced(clock)[i] <= Cardinality(AtSlot(CountedSince(clock), i))
          /\ Advanced(clock)[i] >= Cardinality(AtSlot(CountedSince(clock), i) \ endangered)
      BY <2>1, <2>2, <2>4, AdvancedHolds
    <3>2. {q \in CountedSince(currentSecond)' : Slot(arrival[q])' = i} = AtSlot(CountedSince(clock), i)
      BY <2>1 DEF AtSlot, CountedSince
    <3> QED
      BY <2>1, <3>1, <3>2
  <2>6. SlotsHoldOneSecond'
    BY <2>5 DEF SlotsHoldOneSecond
  <2> QED
    BY <1>t, <2>3, <2>6 DEF RInv
<1>4. CASE Tick \/ StepBack \/ UNCHANGED ringVars
  <2>1. UNCHANGED <<requestCounts, currentSecond, arrival, recorded, endangered>>
    BY <1>4 DEF Tick, StepBack, ringVars
  <2>2. NotAhead' /\ SlotsHoldOneSecond'
    BY <2>1 DEF RInv, NotAhead, SlotsHoldOneSecond, CountedSince
  <2> QED
    BY <1>t, <2>2 DEF RInv
<1> QED
  BY <1>1, <1>2, <1>3, <1>4 DEF RingNext

\* However requests, the ticker and a clock set back interleave, for any number
\* of requests and any length of the ring, a slot holds requests of one second,
\* and the rate reported is the number of requests of the last Window seconds,
\* less at most those the ring was moved back past after they were counted.
THEOREM RateCountsTheWindow == RingSpec => []RingInv
<1>1. RInv => RingInv
  BY SlotsGiveRate DEF RInv, RingInv
<1> QED
  BY <1>1, RingStarts, RingStep, PTL DEF RingSpec

-----------------------------------------------------------------------------
(* The error events of a stream. *)

Streaming == {"chat", "responses", "messages", "streamGenerate"}

\* What the search of a switch over n cases finds: one of them, or none.
LEMMA Found ==
  ASSUME NEW n \in Nat, NEW I \in SUBSET (1..n), NEW f, f = IF I # {} THEN Min(I) ELSE 0
  PROVE  f \in 0..n
<1>1. CASE I = {}
  BY <1>1
<1>2. CASE I # {}
  <2>1. \E x \in I : \A y \in I : x =< y
    BY <1>2, Least
  <2>2. Min(I) \in I
    BY <2>1 DEF Min
  <2>3. f = Min(I)
    BY <1>2
  <2>4. f \in I
    BY <2>2, <2>3, Zenon
  <2> QED
    BY <2>4
<1> QED
  BY <1>1, <1>2

\* A status guessed from the text of an event is one of the switch's.
LEMMA GuessIsAnError ==
  ASSUME NEW code, NEW text
  PROVE  StatusFromCodeOrMessage(code, text) \in {400, 401, 403, 404, 429, 502, 504}
<1> DEFINE I == {i \in 1..Len(EventCases) : code \in EventCases[i].code \/ text \in EventCases[i].text}
           found == SelectInSeq(EventCases, LAMBDA c : code \in c.code \/ text \in c.text)
<1>1. Len(EventCases) = 6
  BY DEF EventCases
<1>2. found = IF I # {} THEN Min(I) ELSE 0
  BY DEF SelectInSeq
<1>3. found \in 0..6
  <2>1. I \in SUBSET (1..6)
    BY <1>1
  <2> HIDE DEF I, found
  <2> QED
    BY <1>2, <2>1, Found
<1>4. \A i \in 1..6 : EventCases[i].status \in {400, 401, 403, 404, 429, 504}
  BY DEF EventCases
<1>5. StatusFromCodeOrMessage(code, text) = IF found = 0 THEN 502 ELSE EventCases[found].status
  BY DEF StatusFromCodeOrMessage
<1> HIDE DEF found
<1> QED
  BY <1>3, <1>4, <1>5

\* What the bodies keep of a mapped error.
LEMMA BodiesKeep ==
  ASSUME NEW m, NEW words
  PROVE  /\ ErrorReply("openai", m, words) = [status |-> m.status, body |-> OpenAIBody(m, words)]
         /\ ErrorReply("anthropic", m, words) = [status |-> m.status, body |-> AnthropicBody(m, words)]
         /\ ErrorReply("gemini", m, words) = [status |-> m.status, body |-> GeminiBody(m, words)]
         /\ OpenAIBody(m, words).format = "openai" /\ OpenAIBody(m, words) # NoBody
         /\ AnthropicBody(m, words).format = "anthropic" /\ AnthropicBody(m, words) # NoBody
         /\ GeminiBody(m, words).format = "gemini" /\ GeminiBody(m, words) # NoBody
         /\ m.code # None => OpenAIBody(m, words).code = m.code
         /\ m.code # None => GeminiBody(m, words).type = m.code
<1>1. /\ ErrorReply("openai", m, words) = [status |-> m.status, body |-> OpenAIBody(m, words)]
      /\ ErrorReply("anthropic", m, words) = [status |-> m.status, body |-> AnthropicBody(m, words)]
      /\ ErrorReply("gemini", m, words) = [status |-> m.status, body |-> GeminiBody(m, words)]
  BY DEF ErrorReply
<1>2. /\ OpenAIBody(m, words).format = "openai"
      /\ AnthropicBody(m, words).format = "anthropic"
      /\ GeminiBody(m, words).format = "gemini"
  BY DEF OpenAIBody, AnthropicBody, GeminiBody
<1>3. NoBody.format \notin {"openai", "anthropic", "gemini"}
  BY DEF NoBody, None
<1>4. m.code # None => OpenAIBody(m, words).code = m.code
  BY DEF OpenAIBody
<1>5. m.code # None => GeminiBody(m, words).type = m.code
  BY DEF GeminiBody, IfEmpty
<1> QED
  BY <1>1, <1>2, <1>3, <1>4, <1>5

LEMMA RejectionIs ==
  ASSUME NEW op \in Streaming, NEW e, NEW s, NEW m, NEW ty, NEW c,
         EventError(op, e) = ProtocolError(s, m, ty, c)
  PROVE  LET r == StreamRejected(op, e)
         IN  /\ r.status = s
             /\ op \in {"chat", "responses"} /\ c # None => r.body.code = c
             /\ op = "streamGenerate" /\ c # None => r.body.type = c
             /\ r.body.format = ProtocolOf(op)
             /\ r.body # NoBody
<1> DEFINE f == EventError(op, e)
<1>1. f.status = s /\ f.code = c
  BY DEF ProtocolError
<1> HIDE DEF f
<1>2. StreamRejected(op, e) = ErrorReply(ProtocolOf(op), f, {})
  BY DEF StreamRejected, f
<1>3. CASE op \in {"chat", "responses"}
  <2>1. ProtocolOf(op) = "openai"
    BY <1>3 DEF ProtocolOf
  <2>2. StreamRejected(op, e) = [status |-> f.status, body |-> OpenAIBody(f, {})]
    BY <1>2, <2>1, BodiesKeep
  <2>3. /\ OpenAIBody(f, {}).format = "openai" /\ OpenAIBody(f, {}) # NoBody
        /\ f.code # None => OpenAIBody(f, {}).code = f.code
    BY BodiesKeep
  <2> QED
    BY <1>1, <1>3, <2>1, <2>2, <2>3
<1>4. CASE op = "messages"
  <2>1. ProtocolOf(op) = "anthropic"
    BY <1>4 DEF ProtocolOf
  <2>2. StreamRejected(op, e) = [status |-> f.status, body |-> AnthropicBody(f, {})]
    BY <1>2, <2>1, BodiesKeep
  <2>3. AnthropicBody(f, {}).format = "anthropic" /\ AnthropicBody(f, {}) # NoBody
    BY BodiesKeep
  <2> QED
    BY <1>1, <1>4, <2>1, <2>2, <2>3
<1>5. CASE op = "streamGenerate"
  <2>1. ProtocolOf(op) = "gemini"
    BY <1>5 DEF ProtocolOf
  <2>2. StreamRejected(op, e) = [status |-> f.status, body |-> GeminiBody(f, {})]
    BY <1>2, <2>1, BodiesKeep
  <2>3. /\ GeminiBody(f, {}).format = "gemini" /\ GeminiBody(f, {}) # NoBody
        /\ f.code # None => GeminiBody(f, {}).type = f.code
    BY BodiesKeep
  <2> QED
    BY <1>1, <1>5, <2>1, <2>2, <2>3
<1> QED
  BY <1>3, <1>4, <1>5 DEF Streaming

\* The reply made of an error event.
NamesStatus(op, e) == op = "chat" /\ ~e.bare /\ Valid(e.status) /\ e.status # 502

LEMMA RejectionTells ==
  ASSUME NEW op \in Streaming, NEW e, op = "streamGenerate" => e.code # None
  PROVE  LET r == StreamRejected(op, e)
         IN  /\ IF NamesStatus(op, e) THEN r.status = e.status ELSE r.status >= 400
             /\ op \in {"chat", "responses"} /\ ~e.bare /\ e.code # None => r.body.code = e.code
             /\ op = "streamGenerate" => r.body.type = e.code
             /\ r.body.format = ProtocolOf(op)
             /\ r.body # NoBody
<1> DEFINE guess == StatusFromCodeOrMessage(e.code, e.text)
<1>0. guess >= 400
  BY GuessIsAnError
<1> HIDE DEF guess
<1>1. CASE op = "chat"
  <2>1. EventError(op, e) = ChatError(e)
    BY <1>1 DEF EventError
  <2>2. CASE e.bare
    <3>1. ChatError(e) = ProtocolError(502, "payload", "chat_error_event", None)
      BY <2>2 DEF ChatError
    <3> QED
      BY <1>1, <2>1, <2>2, <3>1, RejectionIs DEF NamesStatus
  <2>3. CASE ~e.bare
    <3>1. PICK s, ty : /\ ChatError(e) = ProtocolError(s, "upstream", ty, e.code)
                       /\ s = IF Valid(e.status) /\ e.status # 502 THEN e.status ELSE guess
      BY <2>3 DEF ChatError, guess
    <3> QED
      BY <1>0, <1>1, <2>1, <2>3, <3>1, RejectionIs DEF NamesStatus
  <2> QED
    BY <2>2, <2>3
<1>2. CASE op = "responses"
  <2>1. PICK s, m, ty : /\ EventError(op, e) = ProtocolError(s, m, ty, e.code)
                        /\ s >= 400
    BY <1>0, <1>2 DEF EventError, ResponsesError, guess
  <2> QED
    BY <1>2, <2>1, RejectionIs DEF NamesStatus
<1>3. CASE op = "messages"
  <2>1. PICK ty, c : EventError(op, e) = ProtocolError(502, "upstream", ty, c)
    BY <1>3 DEF EventError, AnthropicError
  <2> QED
    BY <1>3, <2>1, RejectionIs DEF NamesStatus
<1>4. CASE op = "streamGenerate"
  <2>1. PICK s, m, ty : /\ EventError(op, e) = ProtocolError(s, m, ty, e.code)
                        /\ s \in {400, 502}
    BY <1>4 DEF EventError, GeminiError
  <2> QED
    BY <1>4, <2>1, RejectionIs DEF NamesStatus
<1> QED
  BY <1>1, <1>2, <1>3, <1>4 DEF Streaming

\* Until an error event arrives nothing is told, and only streams have them.
Untold ==
  /\ stage \in Stages
  /\ stage # "answered" => event = NoEvent /\ told = NoBody
  /\ stage \in {"opening", "flowing"} => route.op \in Streaming
  /\ stage = "flowing" => reply.status = 200

LEMMA UntoldStep == Untold /\ EventErrorIsTold /\ [Next]_vars => Untold' /\ EventErrorIsTold'
<1> SUFFICES ASSUME Untold, EventErrorIsTold, [Next]_vars PROVE Untold' /\ EventErrorIsTold'
  OBVIOUS
<1>0. \A op, e : op = "streamGenerate" /\ e \in Events[op] => e.code # None
  BY EventsAssumption
\* A step that no error event causes.
<1>q. ASSUME UNCHANGED <<route, event, told>>, stage' \in Stages, stage # "answered",
             stage' \in {"opening", "flowing"} => route.op \in Streaming,
             stage' = "flowing" => reply'.status = 200
      PROVE  Untold' /\ EventErrorIsTold'
  BY <1>q DEF Untold, EventErrorIsTold
<1>1. CASE Authenticate
  BY <1>1, <1>q DEF Authenticate, Answer, request, Stages
<1>2. CASE Refuse \/ CallReturns \/ ListReturns \/ StreamStaysEmpty \/ StreamEnds
  <2>1. /\ UNCHANGED <<route, event, told>> /\ stage' = "answered" /\ stage # "answered"
    BY <1>2 DEF Refuse, CallReturns, ListReturns, StreamStaysEmpty, StreamEnds, Answer, request
  <2> QED
    BY <1>q, <2>1 DEF Stages
<1>3. CASE Dispatch
  <2>1. /\ UNCHANGED <<route, event, told>> /\ stage # "answered"
        /\ stage' \in {"listing", "opening", "calling"}
        /\ stage' = "opening" => route.op \in Streaming
    BY <1>3 DEF Dispatch, request, Streamed, Streaming
  <2> QED
    BY <1>q, <2>1 DEF Stages
<1>4. CASE StreamStarts
  BY <1>4, <1>q DEF StreamStarts, request, Ok, Stages, Untold
<1>5. CASE StreamFails
  <2>1. PICK e \in Events[route.op] : event' = e /\ reply' = StreamRejected(route.op, e)
    BY <1>5 DEF StreamFails, Answer
  <2>2. /\ UNCHANGED <<route, told>> /\ stage' = "answered" /\ told = NoBody
        /\ route.op \in Streaming
    BY <1>5 DEF StreamFails, Answer, request, Untold
  <2>3. Untold'
    BY <2>2 DEF Untold, Stages
  <2>4. LET r == StreamRejected(route.op, e)
        IN  /\ IF NamesStatus(route.op, e) THEN r.status = e.status ELSE r.status >= 400
            /\ route.op \in {"chat", "responses"} /\ ~e.bare /\ e.code # None => r.body.code = e.code
            /\ route.op = "streamGenerate" => r.body.type = e.code
            /\ r.body.format = ProtocolOf(route.op)
    BY <1>0, <2>1, <2>2, RejectionTells
  <2>5. EventErrorIsTold'
    BY <2>1, <2>2, <2>4 DEF EventErrorIsTold, NamesStatus
  <2> QED
    BY <2>3, <2>5
<1>6. CASE StreamBreaks
  <2>1. PICK e \in Events[route.op] : event' = e /\ told' = StreamRejected(route.op, e).body
    BY <1>6 DEF StreamBreaks
  <2>2. /\ UNCHANGED <<route, reply>> /\ stage' = "answered" /\ reply.status = 200
        /\ route.op \in Streaming
    BY <1>6 DEF StreamBreaks, request, Untold
  <2>3. Untold'
    BY <2>2 DEF Untold, Stages
  <2>4. LET r == StreamRejected(route.op, e)
        IN  /\ route.op \in {"chat", "responses"} /\ ~e.bare /\ e.code # None => r.body.code = e.code
            /\ route.op = "streamGenerate" => r.body.type = e.code
            /\ r.body.format = ProtocolOf(route.op)
            /\ r.body # NoBody
    BY <1>0, <2>1, <2>2, RejectionTells
  <2>5. EventErrorIsTold'
    BY <2>1, <2>2, <2>4 DEF EventErrorIsTold
  <2> QED
    BY <2>3, <2>5
<1>7. CASE UNCHANGED vars
  BY <1>7 DEF vars, Untold, EventErrorIsTold
<1> QED
  BY <1>1, <1>2, <1>3, <1>4, <1>5, <1>6, <1>7 DEF Next

\* Whatever events a provider sends, an error event is told once and in the
\* protocol of its route: by the status and the body of the reply while nothing
\* was sent, inside the stream and without touching its status afterwards.
THEOREM EventErrorsAreTold == Spec => []EventErrorIsTold
<1>1. Init => Untold /\ EventErrorIsTold
  BY DEF Init, Untold, EventErrorIsTold, Stages
<1> QED
  BY <1>1, UntoldStep, PTL DEF Spec
-----------------------------------------------------------------------------
(* What the mapper makes of the layers of an error. *)

LEMMA FirstOf ==
  ASSUME NEW n \in Nat, NEW I \in SUBSET (1..n), I # {}
  PROVE  Min(I) \in I /\ \A j \in I : Min(I) <= j
<1>1. \E x \in I : \A y \in I : x =< y
  BY Least
<1> QED
  BY <1>1 DEF Min

LEMMA LastOf ==
  ASSUME NEW n \in Nat, NEW I \in SUBSET (1..n), I # {}
  PROVE  Max(I) \in I /\ \A j \in I : Max(I) >= j
<1> DEFINE T == {n - i : i \in I}
<1>1. \A j \in I : j \in 1..n /\ n - j \in Nat
  OBVIOUS
<1>t. \A y \in T : y \in Nat
  BY <1>1
<1>e. PICK e \in I : TRUE
  OBVIOUS
<1>f. n - e \in T
  OBVIOUS
<1>2. PICK x \in T : \A y \in T : x <= y
  <2> HIDE DEF T
  <2> QED
    BY <1>t, <1>f, Least
<1>3. PICK i \in I : x = n - i
  OBVIOUS
<1>4. \A j \in I : i >= j
  <2> SUFFICES ASSUME NEW j \in I PROVE i >= j
    OBVIOUS
  <2>1. n - j \in T
    OBVIOUS
  <2>2. i \in 1..n /\ j \in 1..n
    BY <1>1
  <2>3. x <= n - j
    BY <1>2, <2>1
  <2> HIDE DEF T
  <2> QED
    BY <1>3, <2>2, <2>3
<1> QED
  BY <1>4 DEF Max

\* errors.As over a chain: the value of the first layer that has the method.
LEMMA CallIs ==
  ASSUME NEW L, NEW c \in Seq(L), NEW m, NEW absent
  PROVE  \/ /\ \A j \in 1..Len(c) : m \notin DOMAIN c[j].methods
            /\ Call(c, m, absent) = absent
         \/ \E j \in 1..Len(c) : /\ m \in DOMAIN c[j].methods
                                 /\ \A k \in 1..Len(c) : m \in DOMAIN c[k].methods => j <= k
                                 /\ Call(c, m, absent) = c[j].methods[m]
<1> DEFINE I == {j \in 1..Len(c) : m \in DOMAIN c[j].methods}
           i == SelectInSeq(c, LAMBDA layer : m \in DOMAIN layer.methods)
<1>1. i = IF I # {} THEN Min(I) ELSE 0
  BY DEF SelectInSeq
<1>2. Call(c, m, absent) = IF i = 0 THEN absent ELSE c[i].methods[m]
  BY DEF Call
<1>3. I \in SUBSET (1..Len(c)) /\ Len(c) \in Nat
  OBVIOUS
<1>4. CASE I = {}
  <2>1. Call(c, m, absent) = absent
    BY <1>1, <1>2, <1>4
  <2> QED
    BY <1>4, <2>1
<1>5. CASE I # {}
  <2> DEFINE j == Min(I)
  <2>1. j \in I /\ \A k \in I : j <= k
    <3> HIDE DEF I
    <3> QED
      BY <1>3, <1>5, FirstOf
  <2>2. i = j /\ j # 0
    BY <1>1, <1>3, <1>5, <2>1
  <2> HIDE DEF i, j
  <2>3. Call(c, m, absent) = c[j].methods[m]
    BY <1>2, <2>2
  <2> QED
    BY <2>1, <2>3
<1> QED
  BY <1>4, <1>5

LEMMA OwnCall ==
  ASSUME NEW layer, NEW m, NEW absent
  PROVE  Call(<<layer>>, m, absent) =
           IF m \in DOMAIN layer.methods THEN layer.methods[m] ELSE absent
<1> DEFINE c == <<layer>>
<1>1. c \in Seq({layer}) /\ Len(c) = 1 /\ c[1] = layer
  OBVIOUS
<1> HIDE DEF c
<1>2. \/ /\ \A j \in 1..Len(c) : m \notin DOMAIN c[j].methods
         /\ Call(c, m, absent) = absent
      \/ \E j \in 1..Len(c) : /\ m \in DOMAIN c[j].methods
                              /\ Call(c, m, absent) = c[j].methods[m]
  BY <1>1, CallIs
<1>3. Call(c, m, absent) = IF m \in DOMAIN layer.methods THEN layer.methods[m] ELSE absent
  BY <1>1, <1>2
<1> QED
  BY <1>3 DEF c

From(c, i) == SubSeq(c, i, Len(c))

\* The chain from a layer on: the layer's own value if it has one, else that
\* of a layer further in.
LEMMA CallOfFirst ==
  ASSUME NEW L, NEW d \in Seq(L), d # <<>>, NEW m, NEW absent
  PROVE  LET own(j) == Call(<<d[j]>>, m, absent)
         IN  /\ own(1) # absent => Call(d, m, absent) = own(1)
             /\ \/ Call(d, m, absent) = absent
                \/ \E j \in 1..Len(d) : Call(d, m, absent) = own(j)
<1> DEFINE own(j) == Call(<<d[j]>>, m, absent)
<1>1. \A j : own(j) = IF m \in DOMAIN d[j].methods THEN d[j].methods[m] ELSE absent
  BY OwnCall
<1>2. \/ /\ \A j \in 1..Len(d) : m \notin DOMAIN d[j].methods
         /\ Call(d, m, absent) = absent
      \/ \E j \in 1..Len(d) : /\ m \in DOMAIN d[j].methods
                              /\ \A k \in 1..Len(d) : m \in DOMAIN d[k].methods => j <= k
                              /\ Call(d, m, absent) = d[j].methods[m]
  BY CallIs
<1>3. 1 \in 1..Len(d)
  OBVIOUS
<1> HIDE DEF own
<1>4. CASE \A j \in 1..Len(d) : m \notin DOMAIN d[j].methods
  <2>1. Call(d, m, absent) = absent /\ own(1) = absent
    BY <1>1, <1>2, <1>3, <1>4
  <2> QED
    BY <2>1 DEF own
<1>5. ASSUME NEW j \in 1..Len(d), m \in DOMAIN d[j].methods,
             \A k \in 1..Len(d) : m \in DOMAIN d[k].methods => j <= k,
             Call(d, m, absent) = d[j].methods[m]
      PROVE  /\ own(1) # absent => Call(d, m, absent) = own(1)
             /\ Call(d, m, absent) = own(j)
  <2>1. Call(d, m, absent) = own(j)
    BY <1>1, <1>5
  <2>2. own(1) # absent => j = 1
    BY <1>1, <1>3, <1>5
  <2> QED
    BY <2>1, <2>2
<1> QED
  BY <1>2, <1>4, <1>5 DEF own

\* The chain from a layer on: the layer's own value if it has one, else that
\* of a layer further in.
LEMMA CallFrom ==
  ASSUME NEW L, NEW c \in Seq(L), NEW i \in 1..Len(c), NEW m, NEW absent
  PROVE  LET v == Call(From(c, i), m, absent)
             own(k) == Call(<<c[k]>>, m, absent)
         IN  /\ own(i) # absent => v = own(i)
             /\ v = absent \/ \E k \in i..Len(c) : v = own(k)
<1> DEFINE n == Len(c)
<1>1. n \in Nat /\ i \in 1..n
  OBVIOUS
<1>2. PICK d : d = From(c, i)
  OBVIOUS
<1>3. d \in Seq(L) /\ Len(d) = n - i + 1 /\ \A j \in 1..(n - i + 1) : d[j] = c[j + i - 1]
  BY <1>1, <1>2 DEF From
<1>4. d # <<>>
  BY <1>1, <1>3
<1>5. d \in Seq(L)
  BY <1>3
<1>6. /\ Call(<<d[1]>>, m, absent) # absent => Call(d, m, absent) = Call(<<d[1]>>, m, absent)
      /\ \/ Call(d, m, absent) = absent
         \/ \E j \in 1..Len(d) : Call(d, m, absent) = Call(<<d[j]>>, m, absent)
  BY <1>4, <1>5, CallOfFirst
<1>7. d[1] = c[i]
  <2>1. 1 \in 1..(n - i + 1) /\ 1 + i - 1 = i
    BY <1>1
  <2>2. d[1] = c[1 + i - 1]
    BY <1>3, <2>1
  <2> HIDE DEF n
  <2> QED
    BY <2>1, <2>2
<1>8. ASSUME NEW j \in 1..Len(d) PROVE \E k \in i..n : d[j] = c[k]
  <2>1. j + i - 1 \in i..n /\ d[j] = c[j + i - 1]
    BY <1>1, <1>3
  <2> QED
    BY <2>1
<1> QED
  BY <1>2, <1>6, <1>7, <1>8

\* One layer's step.
MapFields == {"status", "message", "type", "code", "retryable", "http"}

Step(layer, chainFrom, out) == ByReflection(layer, ByInterfaces(chainFrom, out))

LEMMA InterfacesAre ==
  ASSUME NEW c, NEW out, DOMAIN out = MapFields
  PROVE  LET r == ByInterfaces(c, out)
         IN  /\ DOMAIN r = MapFields
             /\ r.status = IfValid(Call(c, "HTTPStatusCode", 0),
                             IfValid(Call(c, "GetStatusCode", 0),
                               IfValid(Call(c, "StatusCode", 0), out.status)))
             /\ r.type = IfEmpty(out.type, Call(c, "Type", None))
             /\ r.code = IfEmpty(out.code, Call(c, "Code", None))
BY DEF ByInterfaces, MapFields

LEMMA FieldsAre ==
  ASSUME NEW fields, NEW out, DOMAIN out = MapFields
  PROVE  LET r == FromFields(fields, out)
         IN  /\ DOMAIN r = MapFields
             /\ r.status = IfValid(First(fields, StatusFields, 0), out.status)
             /\ r.type = IfEmpty(out.type, First(fields, TypeFields, None))
             /\ r.code = IfEmpty(out.code, First(fields, CodeFields, None))
BY DEF FromFields, MapFields

LEMMA StepIs ==
  ASSUME NEW layer, NEW c, NEW out, DOMAIN out = MapFields
  PROVE  LET r == Step(layer, c, out)
         IN  /\ DOMAIN r = MapFields
             /\ r.status = IfValid(First(layer.nested, StatusFields, 0),
                             IfValid(First(layer.fields, StatusFields, 0),
                               IfValid(Call(c, "HTTPStatusCode", 0),
                                 IfValid(Call(c, "GetStatusCode", 0),
                                   IfValid(Call(c, "StatusCode", 0), out.status)))))
             /\ r.type = IfEmpty(IfEmpty(IfEmpty(out.type, Call(c, "Type", None)),
                           First(layer.fields, TypeFields, None)),
                           First(layer.nested, TypeFields, None))
             /\ r.code = IfEmpty(IfEmpty(IfEmpty(out.code, Call(c, "Code", None)),
                           First(layer.fields, CodeFields, None)),
                           First(layer.nested, CodeFields, None))
<1> DEFINE a == ByInterfaces(c, out)
           b == FromFields(layer.fields, a)
           d == [b EXCEPT
                   !.retryable = First(layer.fields, <<"Retryable", "IsRetryable", "Temporary">>, @),
                   !.http = First(layer.fields, <<"ShouldProxyAsHTTPError", "ProxyAsHTTPError">>, @)]
           e == FromFields(layer.nested, d)
<1>1. Step(layer, c, out) = e
  BY DEF Step, ByReflection
<1>2. /\ DOMAIN a = MapFields
      /\ a.status = IfValid(Call(c, "HTTPStatusCode", 0),
                      IfValid(Call(c, "GetStatusCode", 0),
                        IfValid(Call(c, "StatusCode", 0), out.status)))
      /\ a.type = IfEmpty(out.type, Call(c, "Type", None))
      /\ a.code = IfEmpty(out.code, Call(c, "Code", None))
  BY InterfacesAre
<1> HIDE DEF a
<1>3. /\ DOMAIN b = MapFields
      /\ b.status = IfValid(First(layer.fields, StatusFields, 0), a.status)
      /\ b.type = IfEmpty(a.type, First(layer.fields, TypeFields, None))
      /\ b.code = IfEmpty(a.code, First(layer.fields, CodeFields, None))
  BY <1>2, FieldsAre
<1> HIDE DEF b
<1>4. DOMAIN d = MapFields /\ d.status = b.status /\ d.type = b.type /\ d.code = b.code
  BY <1>3 DEF MapFields
<1> HIDE DEF d
<1>5. /\ DOMAIN e = MapFields
      /\ e.status = IfValid(First(layer.nested, StatusFields, 0), d.status)
      /\ e.type = IfEmpty(d.type, First(layer.nested, TypeFields, None))
      /\ e.code = IfEmpty(d.code, First(layer.nested, CodeFields, None))
  BY <1>4, FieldsAre
<1> HIDE DEF e
<1> QED
  BY <1>1, <1>2, <1>3, <1>4, <1>5

\* What the layers make of it, one after the other.
Folds(c, e) ==
  e = [i \in 0..Len(c) |-> IF i = 0 THEN Unmapped ELSE Step(c[i], From(c, i), e[i - 1])]

LEMMA FoldExists ==
  ASSUME NEW L, NEW c \in Seq(L)
  PROVE  \E e : Folds(c, e)
<1> DEFINE n == Len(c)
           P(e, k) == e = [i \in 0..k |-> IF i = 0 THEN Unmapped
                                          ELSE Step(c[i], From(c, i), e[i - 1])]
           T == {k \in 0..n : ~\E e : P(e, k)}
<1>1. n \in Nat
  OBVIOUS
<1>2. CASE T = {}
  <2>1. \E e : P(e, n)
    BY <1>1, <1>2
  <2> QED
    BY <2>1 DEF Folds
<1>3. CASE T # {}
  <2>1. PICK k \in T : \A y \in T : k <= y
    <3>1. T \in SUBSET Nat
      BY <1>1
    <3> HIDE DEF T
    <3> QED
      BY <1>3, <3>1, Least
  <2>2. k \in 0..n /\ k \in Nat
    BY <1>1
  <2>3. CASE k = 0
    <3> DEFINE e == [i \in 0..0 |-> Unmapped]
    <3>1. e = [i \in 0..0 |-> IF i = 0 THEN Unmapped ELSE Step(c[i], From(c, i), e[i - 1])]
      OBVIOUS
    <3>2. P(e, k)
      BY <3>1, <2>3
    <3> QED
      BY <3>2
  <2>4. CASE k # 0
    <3>1. k - 1 \in 0..n /\ k - 1 \in Nat
      BY <1>1, <2>2, <2>4
    <3>2. k - 1 \notin T
      <4>1. ~(k <= k - 1)
        BY <2>2
      <4> HIDE DEF T
      <4> QED
        BY <2>1, <4>1
    <3>3. PICK e : P(e, k - 1)
      BY <3>1, <3>2
    <3> DEFINE f == [i \in 0..k |-> IF i = k THEN Step(c[k], From(c, k), e[k - 1]) ELSE e[i]]
    <3>4. \A i \in 0..(k - 1) : e[i] = IF i = 0 THEN Unmapped ELSE Step(c[i], From(c, i), e[i - 1])
      BY <3>3
    <3>5. \A i \in 0..(k - 1) : f[i] = e[i]
      BY <3>1
    <3>6. ASSUME NEW i \in 0..k
          PROVE  f[i] = IF i = 0 THEN Unmapped ELSE Step(c[i], From(c, i), f[i - 1])
      <4>1. CASE i = k
        <5>1. f[k] = Step(c[k], From(c, k), e[k - 1])
          BY <2>2
        <5>2. f[k - 1] = e[k - 1]
          BY <3>1, <3>5
        <5> HIDE DEF f
        <5> QED
          BY <2>4, <4>1, <5>1, <5>2
      <4>2. CASE i # k
        <5>1. i \in 0..(k - 1)
          BY <2>2, <4>2
        <5>2. i # 0 => i - 1 \in 0..(k - 1)
          BY <2>2, <5>1
        <5>3. f[i] = e[i] /\ (i # 0 => f[i - 1] = e[i - 1])
          BY <3>5, <5>1, <5>2
        <5> HIDE DEF f
        <5> QED
          BY <3>4, <5>1, <5>3
      <4> QED
        BY <4>1, <4>2
    <3>7. f = [i \in 0..k |-> f[i]]
      OBVIOUS
    <3> HIDE DEF f
    <3>8. P(f, k)
      BY <3>6, <3>7
    <3> QED
      BY <3>8
  <2> QED
    BY <2>3, <2>4
<1> QED
  BY <1>2, <1>3

LEMMA ExtractIs ==
  ASSUME NEW L, NEW c \in Seq(L)
  PROVE  \E e : /\ Folds(c, e)
                /\ Extract(c) = e[Len(c)]
<1> DEFINE e == CHOOSE f : Folds(c, f)
<1>1. Folds(c, e)
  BY FoldExists
<1>2. Extract(c) = e[Len(c)]
  BY DEF Extract, Folds, Step, From
<1> QED
  BY <1>1, <1>2

LEMMA UnmappedIs ==
  /\ DOMAIN Unmapped = MapFields
  /\ Unmapped.status = 500 /\ Unmapped.type = None /\ Unmapped.code = None
BY DEF Unmapped, MapFields

\* The steps of a fold.
LEMMA FoldSteps ==
  ASSUME NEW L, NEW c \in Seq(L), NEW e, Folds(c, e)
  PROVE  /\ e[0] = Unmapped
         /\ \A i \in 1..Len(c) : e[i] = Step(c[i], From(c, i), e[i - 1])
         /\ \A i \in 0..Len(c) : DOMAIN e[i] = MapFields
<1> DEFINE n == Len(c)
           T == {i \in 0..n : DOMAIN e[i] # MapFields}
<1>1. n \in Nat
  OBVIOUS
<1>2. e[0] = Unmapped
  BY <1>1 DEF Folds
<1>3. \A i \in 1..n : e[i] = Step(c[i], From(c, i), e[i - 1])
  BY <1>1 DEF Folds
<1>4. CASE T # {}
  <2>1. PICK k \in T : \A y \in T : k <= y
    <3>1. T \in SUBSET Nat
      BY <1>1
    <3> HIDE DEF T
    <3> QED
      BY <1>4, <3>1, Least
  <2>2. k \in 0..n /\ k \in Nat /\ DOMAIN e[k] # MapFields
    BY <1>1
  <2>3. k # 0
    BY <1>2, <2>2, UnmappedIs
  <2>4. k - 1 \in 0..n /\ k \in 1..n /\ ~(k <= k - 1)
    BY <1>1, <2>2, <2>3
  <2>5. k - 1 \notin T
    <3> HIDE DEF T
    <3> QED
      BY <2>1, <2>4
  <2>6. DOMAIN e[k - 1] = MapFields
    BY <2>4, <2>5
  <2>7. DOMAIN Step(c[k], From(c, k), e[k - 1]) = MapFields
    BY <2>6, StepIs
  <2> QED
    BY <1>3, <2>2, <2>4, <2>7
<1> QED
  BY <1>2, <1>3, <1>4
-----------------------------------------------------------------------------
(* The status. *)

LEMMA ValidOrNot == ~Valid(0) /\ Valid(500) /\ (\A s : Valid(s) => s \in Nat /\ s # 0)
BY DEF Valid

\* OwnStatus tries its sources in order.
LEMMA OwnStatusIs ==
  ASSUME NEW layer
  PROVE  OwnStatus(layer) =
           IfValid(First(layer.nested, StatusFields, 0),
             IfValid(First(layer.fields, StatusFields, 0),
               IfValid(Call(<<layer>>, "HTTPStatusCode", 0),
                 IfValid(Call(<<layer>>, "GetStatusCode", 0),
                   IfValid(Call(<<layer>>, "StatusCode", 0), 0)))))
<1>1. PICK a : a = First(layer.nested, StatusFields, 0)
  OBVIOUS
<1>2. PICK b : b = First(layer.fields, StatusFields, 0)
  OBVIOUS
<1>3. PICK h : h = Call(<<layer>>, "HTTPStatusCode", 0)
  OBVIOUS
<1>4. PICK g : g = Call(<<layer>>, "GetStatusCode", 0)
  OBVIOUS
<1>5. PICK s : s = Call(<<layer>>, "StatusCode", 0)
  OBVIOUS
<1> DEFINE v == <<a, b, h, g, s>>
           I == {j \in 1..Len(v) : Valid(v[j])}
           i == IF I # {} THEN Min(I) ELSE 0
<1>6. OwnStatus(layer) = IF i = 0 THEN 0 ELSE v[i]
  BY <1>1, <1>2, <1>3, <1>4, <1>5 DEF OwnStatus, SelectInSeq
<1>7. Len(v) = 5 /\ v[1] = a /\ v[2] = b /\ v[3] = h /\ v[4] = g /\ v[5] = s
  OBVIOUS
<1>8. I = {} \/ (Min(I) \in I /\ \A j \in I : Min(I) <= j)
  <2>1. I \in SUBSET (1..5) /\ 5 \in Nat
    BY <1>7
  <2> HIDE DEF I
  <2> QED
    BY <2>1, FirstOf
<1> HIDE DEF v
<1>9. IF I = {} THEN i = 0 ELSE i \in 1..5 /\ Valid(v[i]) /\ \A j \in 1..5 : Valid(v[j]) => i <= j
  BY <1>7, <1>8
<1>10. (IF i = 0 THEN 0 ELSE v[i]) =
         IfValid(a, IfValid(b, IfValid(h, IfValid(g, IfValid(s, 0)))))
  <2>1. CASE i = 0
    <3>1. \A j \in 1..5 : ~Valid(v[j])
      BY <1>7, <1>9, <2>1
    <3> HIDE DEF i, I
    <3>2. ~Valid(a) /\ ~Valid(b) /\ ~Valid(h) /\ ~Valid(g) /\ ~Valid(s)
      BY <1>7, <3>1
    <3> QED
      BY <2>1, <3>2 DEF IfValid
  <2>2. CASE i # 0
    <3>1. i \in 1..5 /\ Valid(v[i]) /\ \A j \in 1..5 : Valid(v[j]) => i <= j
      BY <1>9, <2>2
    <3> HIDE DEF i, I
    <3>2. /\ Valid(a) => i = 1
          /\ Valid(b) => i <= 2
          /\ Valid(h) => i <= 3
          /\ Valid(g) => i <= 4
      BY <1>7, <3>1
    <3>3. CASE i = 1
      BY <1>7, <3>1, <3>3 DEF IfValid
    <3>4. CASE i = 2
      BY <1>7, <3>1, <3>2, <3>4 DEF IfValid
    <3>5. CASE i = 3
      BY <1>7, <3>1, <3>2, <3>5 DEF IfValid
    <3>6. CASE i = 4
      BY <1>7, <3>1, <3>2, <3>6 DEF IfValid
    <3>7. CASE i = 5
      BY <1>7, <3>1, <3>2, <3>7 DEF IfValid
    <3> QED
      BY <3>1, <3>3, <3>4, <3>5, <3>6, <3>7
  <2> QED
    BY <2>1, <2>2
<1> HIDE DEF i
<1> QED
  BY <1>1, <1>2, <1>3, <1>4, <1>5, <1>6, <1>10

\* No source of a layer without a status of its own is valid.
LEMMA NoOwnStatus ==
  ASSUME NEW layer, ~Valid(OwnStatus(layer))
  PROVE  /\ ~Valid(First(layer.nested, StatusFields, 0))
         /\ ~Valid(First(layer.fields, StatusFields, 0))
         /\ \A m \in {"HTTPStatusCode", "GetStatusCode", "StatusCode"} :
               ~Valid(Call(<<layer>>, m, 0))
BY OwnStatusIs, ValidOrNot DEF IfValid

\* What a method says from a layer on, where no layer further in has a status.
LEMMA MethodFrom ==
  ASSUME NEW L, NEW c \in Seq(L), NEW i \in 1..Len(c),
         \A j \in (i + 1)..Len(c) : ~Valid(OwnStatus(c[j])),
         NEW m \in {"HTTPStatusCode", "GetStatusCode", "StatusCode"}
  PROVE  \/ Call(From(c, i), m, 0) = Call(<<c[i]>>, m, 0)
         \/ ~Valid(Call(From(c, i), m, 0)) /\ ~Valid(Call(<<c[i]>>, m, 0))
<1> DEFINE own(k) == Call(<<c[k]>>, m, 0)
<1>1. PICK v : v = Call(From(c, i), m, 0)
  OBVIOUS
<1>2. /\ own(i) # 0 => v = own(i)
      /\ v = 0 \/ \E k \in i..Len(c) : v = own(k)
  BY <1>1, CallFrom
<1>3. \A k \in (i + 1)..Len(c) : ~Valid(own(k))
  BY NoOwnStatus
<1> HIDE DEF own
<1>4. CASE own(i) = 0
  <2>1. ~Valid(own(i))
    BY <1>4, ValidOrNot
  <2>2. v = 0 \/ v = own(i) \/ \E k \in (i + 1)..Len(c) : v = own(k)
    BY <1>2
  <2>3. ~Valid(v)
    BY <1>3, <2>1, <2>2, ValidOrNot
  <2> QED
    BY <1>1, <2>1, <2>3 DEF own
<1> QED
  BY <1>1, <1>2, <1>4 DEF own

\* A layer replaces the status by its own if it has one, where no layer further
\* in has.
LEMMA StatusStep ==
  ASSUME NEW L, NEW c \in Seq(L), NEW i \in 1..Len(c), NEW out, DOMAIN out = MapFields,
         \A j \in (i + 1)..Len(c) : ~Valid(OwnStatus(c[j]))
  PROVE  Step(c[i], From(c, i), out).status = IfValid(OwnStatus(c[i]), out.status)
<1>1. PICK h, g, s : /\ h = Call(From(c, i), "HTTPStatusCode", 0)
                     /\ g = Call(From(c, i), "GetStatusCode", 0)
                     /\ s = Call(From(c, i), "StatusCode", 0)
  OBVIOUS
<1>2. PICK x, y, z : /\ x = Call(<<c[i]>>, "HTTPStatusCode", 0)
                     /\ y = Call(<<c[i]>>, "GetStatusCode", 0)
                     /\ z = Call(<<c[i]>>, "StatusCode", 0)
  OBVIOUS
<1>3. PICK a, b : a = First(c[i].nested, StatusFields, 0) /\ b = First(c[i].fields, StatusFields, 0)
  OBVIOUS
<1>4. Step(c[i], From(c, i), out).status =
        IfValid(a, IfValid(b, IfValid(h, IfValid(g, IfValid(s, out.status)))))
  BY <1>1, <1>3, StepIs
<1>5. OwnStatus(c[i]) = IfValid(a, IfValid(b, IfValid(x, IfValid(y, IfValid(z, 0)))))
  BY <1>2, <1>3, OwnStatusIs
<1>6. /\ h = x \/ (~Valid(h) /\ ~Valid(x))
      /\ g = y \/ (~Valid(g) /\ ~Valid(y))
      /\ s = z \/ (~Valid(s) /\ ~Valid(z))
  <2>1. \A m \in {"HTTPStatusCode", "GetStatusCode", "StatusCode"} :
           \/ Call(From(c, i), m, 0) = Call(<<c[i]>>, m, 0)
           \/ ~Valid(Call(From(c, i), m, 0)) /\ ~Valid(Call(<<c[i]>>, m, 0))
    BY MethodFrom
  <2>2. h = x \/ (~Valid(h) /\ ~Valid(x))
    <3>1. \/ Call(From(c, i), "HTTPStatusCode", 0) = Call(<<c[i]>>, "HTTPStatusCode", 0)
          \/ /\ ~Valid(Call(From(c, i), "HTTPStatusCode", 0))
             /\ ~Valid(Call(<<c[i]>>, "HTTPStatusCode", 0))
      BY <2>1
    <3> QED
      BY <1>1, <1>2, <3>1
  <2>3. g = y \/ (~Valid(g) /\ ~Valid(y))
    <3>1. \/ Call(From(c, i), "GetStatusCode", 0) = Call(<<c[i]>>, "GetStatusCode", 0)
          \/ /\ ~Valid(Call(From(c, i), "GetStatusCode", 0))
             /\ ~Valid(Call(<<c[i]>>, "GetStatusCode", 0))
      BY <2>1
    <3> QED
      BY <1>1, <1>2, <3>1
  <2>4. s = z \/ (~Valid(s) /\ ~Valid(z))
    <3>1. \/ Call(From(c, i), "StatusCode", 0) = Call(<<c[i]>>, "StatusCode", 0)
          \/ /\ ~Valid(Call(From(c, i), "StatusCode", 0))
             /\ ~Valid(Call(<<c[i]>>, "StatusCode", 0))
      BY <2>1
    <3> QED
      BY <1>1, <1>2, <3>1
  <2> QED
    BY <2>2, <2>3, <2>4
<1> QED
  BY <1>4, <1>5, <1>6, ValidOrNot DEF IfValid

\* The mapper's status is that of the innermost layer with a status of its own.
LEMMA ExtractStatus ==
  ASSUME NEW L, NEW c \in Seq(L)
  PROVE  LET i == SelectLastInSeq(c, LAMBDA layer : Valid(OwnStatus(layer)))
         IN  Extract(c).status = IF i = 0 THEN 500 ELSE OwnStatus(c[i])
<1> DEFINE n == Len(c)
           I == {j \in 1..n : Valid(OwnStatus(c[j]))}
           i == SelectLastInSeq(c, LAMBDA layer : Valid(OwnStatus(layer)))
           want == IF i = 0 THEN 500 ELSE OwnStatus(c[i])
<1>1. PICK e : Folds(c, e) /\ Extract(c) = e[n]
  BY ExtractIs
<1>2. /\ e[0] = Unmapped
      /\ \A k \in 1..n : e[k] = Step(c[k], From(c, k), e[k - 1])
      /\ \A k \in 0..n : DOMAIN e[k] = MapFields
  BY <1>1, FoldSteps
<1>3. n \in Nat
  OBVIOUS
<1>4. i = IF I # {} THEN Max(I) ELSE 0
  BY DEF SelectLastInSeq
<1>5. /\ i \in 0..n
      /\ i # 0 => Valid(OwnStatus(c[i]))
      /\ \A j \in (i + 1)..n : ~Valid(OwnStatus(c[j]))
  <2>1. CASE I = {}
    <3>1. i = 0
      BY <1>4, <2>1
    <3> HIDE DEF i
    <3> QED
      BY <1>3, <2>1, <3>1
  <2>2. CASE I # {}
    <3>1. i \in I /\ \A j \in I : i >= j
      <4>1. I \in SUBSET (1..n)
        OBVIOUS
      <4> HIDE DEF I, i, n
      <4> QED
        BY <1>3, <1>4, <2>2, <4>1, LastOf
    <3> HIDE DEF i
    <3> QED
      BY <1>3, <3>1
  <2> QED
    BY <2>1, <2>2
<1> HIDE DEF i
<1>6. \A k \in 1..n : k >= i => e[k].status = IfValid(OwnStatus(c[k]), e[k - 1].status)
  <2> SUFFICES ASSUME NEW k \in 1..n, k >= i
               PROVE  e[k].status = IfValid(OwnStatus(c[k]), e[k - 1].status)
    OBVIOUS
  <2>1. \A j \in (k + 1)..n : ~Valid(OwnStatus(c[j]))
    BY <1>3, <1>5
  <2>2. k - 1 \in 0..n
    BY <1>3
  <2>3. PICK out : out = e[k - 1]
    OBVIOUS
  <2>4. DOMAIN out = MapFields /\ e[k] = Step(c[k], From(c, k), out)
    BY <1>2, <2>2, <2>3
  <2>5. Step(c[k], From(c, k), out).status = IfValid(OwnStatus(c[k]), out.status)
    BY <2>1, <2>4, StatusStep
  <2> QED
    BY <2>3, <2>4, <2>5
<1>7. e[i].status = want
  <2>1. CASE i = 0
    BY <1>2, <2>1, UnmappedIs
  <2>2. CASE i # 0
    <3>1. i \in 1..n /\ i >= i
      BY <1>3, <1>5, <2>2
    <3>2. e[i].status = IfValid(OwnStatus(c[i]), e[i - 1].status)
      BY <1>6, <3>1
    <3> QED
      BY <1>5, <2>2, <3>2 DEF IfValid
  <2> QED
    BY <2>1, <2>2
<1> DEFINE T == {k \in i..n : e[k].status # want}
<1>8. CASE T # {}
  <2>1. PICK k \in T : \A y \in T : k <= y
    <3>1. T \in SUBSET Nat
      BY <1>3, <1>5
    <3> HIDE DEF T
    <3> QED
      BY <1>8, <3>1, Least
  <2>2. k \in i..n /\ e[k].status # want
    OBVIOUS
  <2>3. k # i
    BY <1>7, <2>2
  <2>4. k - 1 \in i..n /\ k \in 1..n /\ k \in (i + 1)..n /\ k >= i /\ ~(k <= k - 1)
    BY <1>3, <1>5, <2>2, <2>3
  <2>5. k - 1 \notin T
    <3> HIDE DEF T
    <3> QED
      BY <2>1, <2>4
  <2>6. e[k - 1].status = want
    BY <2>4, <2>5
  <2>7. ~Valid(OwnStatus(c[k]))
    BY <1>5, <2>4
  <2>8. e[k].status = e[k - 1].status
    BY <1>6, <2>4, <2>7 DEF IfValid
  <2> QED
    BY <2>2, <2>6, <2>8
<1>9. CASE T = {}
  <2>1. n \in i..n
    BY <1>3, <1>5
  <2>2. e[n].status = want
    BY <1>9, <2>1
  <2> QED
    BY <1>1, <2>2 DEF i
<1> QED
  BY <1>8, <1>9
-----------------------------------------------------------------------------
(* The type and the code. *)

\* What is taken where it is first found, and only of what there is: a value is
\* found if there is one.
Gathered(n, N, t, absent) ==
  /\ t[0] = absent
  /\ \A k \in 1..n :
        /\ absent \notin N[k]
        /\ IF t[k - 1] # absent THEN t[k] = t[k - 1]
           ELSE /\ t[k] = absent \/ \E j \in 1..n : t[k] \in N[j]
                /\ N[k] # {} => t[k] # absent

LEMMA Gathers ==
  ASSUME NEW n \in Nat, NEW N, NEW t, NEW absent, Gathered(n, N, t, absent)
  PROVE  /\ t[n] = absent \/ \E j \in 1..n : t[n] \in N[j]
         /\ (\E j \in 1..n : N[j] # {}) => t[n] # absent
<1> USE DEF Gathered
<1> DEFINE Good(k) == /\ t[k] = absent \/ \E j \in 1..n : t[k] \in N[j]
                      /\ (\E j \in 1..k : N[j] # {}) => t[k] # absent
           T == {k \in 0..n : ~Good(k)}
<1>1. CASE T = {}
  <2>1. n \in 0..n
    OBVIOUS
  <2> QED
    BY <1>1, <2>1
<1>2. CASE T # {}
  <2>1. PICK k \in T : \A y \in T : k <= y
    <3>1. T \in SUBSET Nat
      OBVIOUS
    <3> HIDE DEF T
    <3> QED
      BY <1>2, <3>1, Least
  <2>2. k \in 0..n /\ ~Good(k)
    OBVIOUS
  <2>3. Good(0)
    <3>1. ~(\E j \in 1..0 : N[j] # {})
      OBVIOUS
    <3> QED
      BY <3>1
  <2>4. k # 0
    BY <2>2, <2>3
  <2>5. k - 1 \in 0..n /\ k \in 1..n /\ ~(k <= k - 1)
    BY <2>2, <2>4
  <2>6. k - 1 \notin T
    <3> HIDE DEF T
    <3> QED
      BY <2>1, <2>5
  <2>7. Good(k - 1)
    BY <2>5, <2>6
  <2>8. \A j \in 1..k : j = k \/ j \in 1..(k - 1)
    BY <2>5
  <2>9. Good(k)
    BY <2>5, <2>7, <2>8
  <2> QED
    BY <2>2, <2>9
<1> QED
  BY <1>1, <1>2

\* What the mapper ends with where it takes at each layer what the chain says from
\* there on, then a field, then a field of the member Error.
LEMMA TakesNames ==
  ASSUME NEW L, NEW c \in Seq(L), NEW kind, NEW fields, NEW t,
         t[0] = None,
         \A k \in 1..Len(c) :
            t[k] = IfEmpty(IfEmpty(IfEmpty(t[k - 1], Call(From(c, k), kind, None)),
                     First(c[k].fields, fields, None)), First(c[k].nested, fields, None))
  PROVE  LET all == UNION {Names(c[i], kind, fields) : i \in DOMAIN c}
         IN  /\ t[Len(c)] = None \/ t[Len(c)] \in all
             /\ all # {} => t[Len(c)] # None
<1> DEFINE n == Len(c)
           N == [i \in 1..n |-> Names(c[i], kind, fields)]
           all == UNION {Names(c[i], kind, fields) : i \in DOMAIN c}
<1>1. n \in Nat /\ DOMAIN c = 1..n
  OBVIOUS
<1>2. \A k \in 1..n : N[k] = {First(c[k].fields, fields, None), First(c[k].nested, fields, None),
                              Call(<<c[k]>>, kind, None)} \ {None}
  BY DEF Names
<1>3. all = UNION {N[i] : i \in 1..n}
  BY <1>1
<1> HIDE DEF N
<1>4. ASSUME NEW k \in 1..n
      PROVE  IF t[k - 1] # None THEN t[k] = t[k - 1]
             ELSE /\ t[k] = None \/ \E j \in 1..n : t[k] \in N[j]
                  /\ N[k] # {} => t[k] # None
  <2>1. PICK v : v = Call(From(c, k), kind, None)
    OBVIOUS
  <2>2. PICK own : own = [j \in 1..n |-> Call(<<c[j]>>, kind, None)]
    OBVIOUS
  <2>3. /\ own[k] # None => v = own[k]
        /\ v = None \/ \E j \in k..n : v = own[j]
    <3>1. LET w == Call(From(c, k), kind, None)
              o(j) == Call(<<c[j]>>, kind, None)
          IN  /\ o(k) # None => w = o(k)
              /\ w = None \/ \E j \in k..n : w = o(j)
      BY CallFrom
    <3>2. \A j \in k..n : j \in 1..n
      BY <1>1
    <3> QED
      BY <2>1, <2>2, <3>1, <3>2
  <2>4. PICK a, b : a = First(c[k].fields, fields, None) /\ b = First(c[k].nested, fields, None)
    OBVIOUS
  <2>5. t[k] = IfEmpty(IfEmpty(IfEmpty(t[k - 1], v), a), b)
    BY <2>1, <2>4
  <2>6. N[k] = {a, b, own[k]} \ {None}
    BY <1>2, <2>2, <2>4
  <2>7. \A j \in 1..n : own[j] = None \/ own[j] \in N[j]
    BY <1>2, <2>2
  <2>8. v = None \/ \E j \in 1..n : v \in N[j]
    <3>1. \A j \in k..n : j \in 1..n
      BY <1>1
    <3> QED
      BY <2>3, <2>7, <3>1
  <2> QED
    BY <2>3, <2>5, <2>6, <2>8 DEF IfEmpty
<1>5. \A k \in 1..n : None \notin N[k]
  BY <1>2
<1>6. /\ t[n] = None \/ \E j \in 1..n : t[n] \in N[j]
      /\ (\E j \in 1..n : N[j] # {}) => t[n] # None
  <2>1. Gathered(n, N, t, None)
    BY <1>4, <1>5 DEF Gathered
  <2>2. n \in Nat
    BY <1>1
  <2> HIDE DEF n
  <2> QED
    BY <2>1, <2>2, Gathers
<1>7. /\ t[n] = None \/ t[n] \in UNION {N[i] : i \in 1..n}
      /\ UNION {N[i] : i \in 1..n} # {} => t[n] # None
  BY <1>6
<1> QED
  BY <1>3, <1>7

AllNames(c, kind, fields) == UNION {Names(c[i], kind, fields) : i \in DOMAIN c}

LEMMA ExtractNames ==
  ASSUME NEW L, NEW c \in Seq(L)
  PROVE  LET out == Extract(c)
             types == AllNames(c, "Type", TypeFields)
             codes == AllNames(c, "Code", CodeFields)
         IN  /\ DOMAIN out = MapFields
             /\ out.type = None \/ out.type \in types
             /\ types # {} => out.type # None
             /\ out.code = None \/ out.code \in codes
             /\ codes # {} => out.code # None
<1> DEFINE n == Len(c)
<1>1. PICK e : Folds(c, e) /\ Extract(c) = e[n]
  BY ExtractIs
<1>2. /\ e[0] = Unmapped
      /\ \A k \in 1..n : e[k] = Step(c[k], From(c, k), e[k - 1])
      /\ \A k \in 0..n : DOMAIN e[k] = MapFields
  BY <1>1, FoldSteps
<1>3. n \in Nat
  OBVIOUS
<1>4. \A k \in 1..n : k - 1 \in 0..n /\ k \in 0..n
  BY <1>3
<1>5. ASSUME NEW k \in 1..n
      PROVE  /\ e[k].type = IfEmpty(IfEmpty(IfEmpty(e[k - 1].type, Call(From(c, k), "Type", None)),
                              First(c[k].fields, TypeFields, None)),
                              First(c[k].nested, TypeFields, None))
             /\ e[k].code = IfEmpty(IfEmpty(IfEmpty(e[k - 1].code, Call(From(c, k), "Code", None)),
                              First(c[k].fields, CodeFields, None)),
                              First(c[k].nested, CodeFields, None))
  <2>1. PICK out : out = e[k - 1]
    OBVIOUS
  <2>2. DOMAIN out = MapFields /\ e[k] = Step(c[k], From(c, k), out)
    BY <1>2, <1>4, <2>1
  <2> HIDE DEF n
  <2> QED
    BY <2>1, <2>2, StepIs
<1>6. PICK t : t = [k \in 0..n |-> e[k].type]
  OBVIOUS
<1>7. PICK u : u = [k \in 0..n |-> e[k].code]
  OBVIOUS
<1>8. /\ t[0] = None /\ u[0] = None /\ t[n] = e[n].type /\ u[n] = e[n].code
  BY <1>2, <1>3, <1>6, <1>7, UnmappedIs
<1>9. \A k \in 1..n :
        t[k] = IfEmpty(IfEmpty(IfEmpty(t[k - 1], Call(From(c, k), "Type", None)),
                 First(c[k].fields, TypeFields, None)), First(c[k].nested, TypeFields, None))
  BY <1>4, <1>5, <1>6
<1>10. \A k \in 1..n :
        u[k] = IfEmpty(IfEmpty(IfEmpty(u[k - 1], Call(From(c, k), "Code", None)),
                 First(c[k].fields, CodeFields, None)), First(c[k].nested, CodeFields, None))
  BY <1>4, <1>5, <1>7
<1>11. /\ t[n] = None \/ t[n] \in AllNames(c, "Type", TypeFields)
       /\ AllNames(c, "Type", TypeFields) # {} => t[n] # None
  BY <1>8, <1>9, TakesNames DEF AllNames
<1>12. /\ u[n] = None \/ u[n] \in AllNames(c, "Code", CodeFields)
       /\ AllNames(c, "Code", CodeFields) # {} => u[n] # None
  BY <1>8, <1>10, TakesNames DEF AllNames
<1>13. DOMAIN e[n] = MapFields
  BY <1>2, <1>3
<1> QED
  BY <1>1, <1>8, <1>11, <1>12, <1>13
-----------------------------------------------------------------------------
(* The reply. *)

\* What the gateway adds to an error says nothing.
Blank == [methods |-> <<>>, fields |-> <<>>, nested |-> <<>>, words |-> {}, is |-> "none"]

LEMMA WrappedIs ==
  ASSUME NEW L, NEW c \in Seq(L)
  PROVE  /\ Wrapped(c) \in Seq(L \cup {Blank}) /\ Wrapped(c) # <<>>
         /\ Len(Wrapped(c)) = Len(c) + 1
         /\ Wrapped(c)[1] = Blank
         /\ \A i \in 1..Len(c) : Wrapped(c)[i + 1] = c[i]
<1>1. PICK b : b = Blank
  OBVIOUS
<1>2. Wrapped(c) = <<b>> \o c
  BY <1>1 DEF Wrapped, Blank
<1>3. <<b>> \in Seq(L \cup {b}) /\ c \in Seq(L \cup {b})
  OBVIOUS
<1> QED
  BY <1>1, <1>2, <1>3

LEMMA NothingThere ==
  ASSUME NEW names, NEW absent
  PROVE  First(<<>>, names, absent) = absent
<1>1. DOMAIN <<>> = {}
  OBVIOUS
<1>2. SelectInSeq(names, LAMBDA name : name \in DOMAIN <<>>) = 0
  BY <1>1 DEF SelectInSeq
<1> QED
  BY <1>2 DEF First

LEMMA BlankIs ==
  /\ OwnStatus(Blank) = 0
  /\ \A kind, fields : Names(Blank, kind, fields) = {}
<1>1. Blank.fields = <<>> /\ Blank.nested = <<>> /\ Blank.methods = <<>>
  BY DEF Blank
<1>2. \A m : m \notin DOMAIN Blank.methods
  BY <1>1
<1>3. \A m, absent : Call(<<Blank>>, m, absent) = absent
  BY <1>2, OwnCall
<1>4. \A names, absent : /\ First(Blank.fields, names, absent) = absent
                         /\ First(Blank.nested, names, absent) = absent
  BY <1>1, NothingThere
<1>5. OwnStatus(Blank) = 0
  BY <1>3, <1>4, OwnStatusIs, ValidOrNot DEF IfValid
<1> QED
  BY <1>3, <1>4, <1>5 DEF Names

\* s is what the innermost layer with a status of its own says.
Innermost(c, s) ==
  \/ s = 500 /\ \A i \in 1..Len(c) : ~Valid(OwnStatus(c[i]))
  \/ \E i \in 1..Len(c) : /\ Valid(OwnStatus(c[i])) /\ s = OwnStatus(c[i])
                          /\ \A j \in (i + 1)..Len(c) : ~Valid(OwnStatus(c[j]))

LEMMA InnermostIs ==
  ASSUME NEW L, NEW c \in Seq(L)
  PROVE  LET i == SelectLastInSeq(c, LAMBDA layer : Valid(OwnStatus(layer)))
             want == IF i = 0 THEN 500 ELSE OwnStatus(c[i])
         IN  \A s : Innermost(c, s) <=> s = want
<1> DEFINE n == Len(c)
           I == {j \in 1..n : Valid(OwnStatus(c[j]))}
           i == SelectLastInSeq(c, LAMBDA layer : Valid(OwnStatus(layer)))
<1>1. i = IF I # {} THEN Max(I) ELSE 0
  BY DEF SelectLastInSeq
<1>2. n \in Nat
  OBVIOUS
<1>3. CASE I = {}
  <2>1. i = 0
    BY <1>1, <1>3
  <2>2. \A s : Innermost(c, s) <=> s = 500
    BY <1>3 DEF Innermost
  <2> HIDE DEF i
  <2> QED
    BY <2>1, <2>2 DEF i
<1>4. CASE I # {}
  <2>1. i \in I /\ \A j \in I : i >= j
    <3>1. I \in SUBSET (1..n)
      OBVIOUS
    <3> HIDE DEF I, i, n
    <3> QED
      BY <1>1, <1>2, <1>4, <3>1, LastOf
  <2> HIDE DEF i
  <2>2. i \in 1..n /\ i # 0 /\ Valid(OwnStatus(c[i]))
    BY <1>2, <2>1
  <2>3. \A j \in 1..n : Valid(OwnStatus(c[j])) => i >= j
    BY <2>1
  <2>4. \A j \in (i + 1)..n : ~Valid(OwnStatus(c[j]))
    BY <1>2, <2>2, <2>3
  <2>5. ASSUME NEW j \in 1..n, Valid(OwnStatus(c[j])),
               \A k \in (j + 1)..n : ~Valid(OwnStatus(c[k]))
        PROVE  j = i
    <3>1. i >= j
      BY <2>3, <2>5
    <3>2. i \notin (j + 1)..n
      BY <2>2, <2>5
    <3> QED
      BY <1>2, <2>2, <3>1, <3>2
  <2>6. \A s : Innermost(c, s) <=> s = OwnStatus(c[i])
    BY <2>2, <2>4, <2>5 DEF Innermost
  <2> QED
    BY <2>2, <2>6 DEF i
<1> QED
  BY <1>3, <1>4

LEMMA WrappedStatus ==
  ASSUME NEW L, NEW c \in Seq(L)
  PROVE  Innermost(c, Extract(Wrapped(c)).status)
<1> DEFINE n == Len(c)
<1>1. PICK w : w = Wrapped(c)
  OBVIOUS
<1>2. /\ w \in Seq(L \cup {Blank}) /\ Len(w) = n + 1 /\ w[1] = Blank
      /\ \A i \in 1..n : w[i + 1] = c[i]
  BY <1>1, WrappedIs
<1>3. PICK s : s = Extract(w).status
  OBVIOUS
<1>4. Innermost(w, s)
  <2>1. w \in Seq(L \cup {Blank})
    BY <1>2
  <2>2. LET i == SelectLastInSeq(w, LAMBDA layer : Valid(OwnStatus(layer)))
        IN  s = IF i = 0 THEN 500 ELSE OwnStatus(w[i])
    BY <1>3, <2>1, ExtractStatus
  <2> QED
    BY <2>1, <2>2, InnermostIs
<1>5. n \in Nat
  OBVIOUS
<1> HIDE DEF n
<1>6. \A i \in 1..n : i + 1 \in 1..Len(w)
  BY <1>2, <1>5
<1>7. CASE s = 500 /\ \A i \in 1..Len(w) : ~Valid(OwnStatus(w[i]))
  <2>1. \A i \in 1..n : ~Valid(OwnStatus(c[i]))
    BY <1>2, <1>6, <1>7
  <2> QED
    BY <1>1, <1>3, <1>7, <2>1 DEF Innermost, n
<1>8. ASSUME NEW k \in 1..Len(w), Valid(OwnStatus(w[k])), s = OwnStatus(w[k]),
             \A j \in (k + 1)..Len(w) : ~Valid(OwnStatus(w[j]))
      PROVE  Innermost(c, s)
  <2>1. k # 1
    BY <1>2, <1>8, BlankIs, ValidOrNot
  <2>2. k - 1 \in 1..n /\ (k - 1) + 1 = k
    BY <1>2, <1>5, <2>1
  <2>3. PICK i \in 1..n : k = i + 1
    BY <2>2
  <2>4. w[k] = c[i]
    BY <1>2, <2>3
  <2>5. \A j \in (i + 1)..n : j \in 1..n /\ j + 1 \in (k + 1)..Len(w)
    BY <1>2, <1>5, <2>3
  <2>6. \A j \in (i + 1)..n : ~Valid(OwnStatus(c[j]))
    BY <1>2, <1>8, <2>5
  <2> QED
    BY <1>8, <2>4, <2>6 DEF Innermost, n
<1> QED
  BY <1>1, <1>3, <1>4, <1>7, <1>8 DEF Innermost

LEMMA WrappedNames ==
  ASSUME NEW L, NEW c \in Seq(L), NEW kind, NEW fields
  PROVE  AllNames(Wrapped(c), kind, fields) = AllNames(c, kind, fields)
<1> DEFINE n == Len(c)
<1>1. PICK w : w = Wrapped(c)
  OBVIOUS
<1>2. /\ w \in Seq(L \cup {Blank}) /\ Len(w) = n + 1 /\ w[1] = Blank
      /\ \A i \in 1..n : w[i + 1] = c[i]
  BY <1>1, WrappedIs
<1>3. n \in Nat /\ DOMAIN c = 1..n /\ DOMAIN w = 1..(n + 1)
  BY <1>2
<1> HIDE DEF n
<1>4. PICK N : N = [i \in 1..(n + 1) |-> Names(w[i], kind, fields)]
  OBVIOUS
<1>5. N[1] = {} /\ \A i \in 1..n : i + 1 \in 1..(n + 1) /\ N[i + 1] = Names(c[i], kind, fields)
  BY <1>2, <1>3, <1>4, BlankIs
<1>6. \A k \in 1..(n + 1) : k = 1 \/ \E i \in 1..n : k = i + 1
  <2>1. \A k \in 1..(n + 1) : k # 1 => k - 1 \in 1..n /\ k = (k - 1) + 1
    BY <1>3
  <2> QED
    BY <2>1
<1>7. \A x : (\E k \in 1..(n + 1) : x \in N[k]) <=> \E i \in 1..n : x \in Names(c[i], kind, fields)
  BY <1>5, <1>6
<1>8. AllNames(w, kind, fields) = UNION {N[k] : k \in 1..(n + 1)}
  BY <1>3, <1>4 DEF AllNames
<1>9. AllNames(c, kind, fields) = UNION {Names(c[i], kind, fields) : i \in 1..n}
  BY <1>3 DEF AllNames
<1> QED
  BY <1>1, <1>7, <1>8, <1>9

\* A guess replaces nothing that is there.
LEMMA GuessedKeeps ==
  ASSUME NEW c, NEW out, DOMAIN out = MapFields, Valid(out.status)
  PROVE  LET r == Guessed(c, out)
         IN  /\ DOMAIN r = MapFields
             /\ r.status = out.status
             /\ out.type # None => r.type = out.type
             /\ out.code # None => r.code = out.code
<1>1. CASE Guess(c) = 0
  BY <1>1 DEF Guessed, MapFields
<1>2. CASE Guess(c) # 0
  <2>1. PICK row : row = Cases[Guess(c)]
    OBVIOUS
  <2>2. Guessed(c, out) =
          [out EXCEPT !.status = IF Valid(@) THEN @ ELSE row.status,
                      !.type = IfEmpty(@, row.type),
                      !.code = IfEmpty(@, row.code),
                      !.retryable = @ \/ row.retryable]
    BY <1>2, <2>1 DEF Guessed
  <2> QED
    BY <2>2 DEF MapFields, IfEmpty
<1> QED
  BY <1>1, <1>2

LEMMA MappedKeeps ==
  ASSUME NEW L, NEW c \in Seq(L)
  PROVE  LET m == MapDataPlaneError(Wrapped(c))
             types == AllNames(c, "Type", TypeFields)
             codes == AllNames(c, "Code", CodeFields)
         IN  /\ Valid(m.status) /\ Innermost(c, m.status)
             /\ types # {} => m.type \in types /\ m.type # None
             /\ codes # {} => m.code \in codes /\ m.code # None
<1>1. PICK w : w = Wrapped(c)
  OBVIOUS
<1>2. w \in Seq(L \cup {Blank}) /\ w # <<>>
  BY <1>1, WrappedIs
<1>3. PICK x : x = Extract(w)
  OBVIOUS
<1>4. Innermost(c, x.status)
  BY <1>1, <1>3, WrappedStatus
<1>5. Valid(x.status)
  BY <1>4, ValidOrNot DEF Innermost
<1>6. /\ DOMAIN x = MapFields
      /\ AllNames(w, "Type", TypeFields) # {} => x.type \in AllNames(w, "Type", TypeFields) /\ x.type # None
      /\ AllNames(w, "Code", CodeFields) # {} => x.code \in AllNames(w, "Code", CodeFields) /\ x.code # None
  <2>1. w \in Seq(L \cup {Blank})
    BY <1>2
  <2> QED
    BY <1>3, <2>1, ExtractNames
<1>7. PICK g : g = Guessed(w, x)
  OBVIOUS
<1>8. /\ DOMAIN g = MapFields /\ g.status = x.status
      /\ x.type # None => g.type = x.type
      /\ x.code # None => g.code = x.code
  BY <1>5, <1>6, <1>7, GuessedKeeps
<1>9. MapDataPlaneError(w) = [g EXCEPT !.retryable = @ \/ RetryableByStatus(g.status),
                                       !.http = @ \/ Valid(g.status)]
  BY <1>2, <1>3, <1>7 DEF MapDataPlaneError
<1>10. PICK m : m = MapDataPlaneError(w)
  OBVIOUS
<1>11. m.status = g.status /\ m.type = g.type /\ m.code = g.code
  BY <1>8, <1>9, <1>10 DEF MapFields
<1>12. /\ AllNames(w, "Type", TypeFields) = AllNames(c, "Type", TypeFields)
       /\ AllNames(w, "Code", CodeFields) = AllNames(c, "Code", CodeFields)
  BY <1>1, WrappedNames
<1> QED
  BY <1>1, <1>4, <1>5, <1>6, <1>8, <1>10, <1>11, <1>12

LEMMA BodiesKeepTypes ==
  ASSUME NEW m, NEW words, m.type # None
  PROVE  OpenAIBody(m, words).type = m.type /\ AnthropicBody(m, words).type = m.type
BY DEF OpenAIBody, AnthropicBody, IfEmpty

Formats == {None, "text", "openai", "anthropic", "gemini"}

LEMMA ReplyIs ==
  ASSUME NEW f \in {"openai", "anthropic", "gemini"}, NEW m, NEW words
  PROVE  /\ ErrorReply(f, m, words).status = m.status
         /\ ErrorReply(f, m, words).body.format = f
BY BodiesKeep

\* Calls answered with one document.
Calling == {"chat", "responses", "messages", "generate"}

LEMMA ProtocolIs ==
  /\ \A op \in {"chat", "responses"} : ProtocolOf(op) = "openai"
  /\ ProtocolOf("messages") = "anthropic"
  /\ \A op \in {"generate", "streamGenerate"} \cup Refused \cup {"geminiModels"} :
        ProtocolOf(op) = "gemini"
BY DEF ProtocolOf, Refused

LEMMA CallTells ==
  ASSUME NEW op \in Calling, NEW L, NEW c \in Seq(L)
  PROVE  LET r == CallFailed(op, c)
             types == AllNames(c, "Type", TypeFields)
             codes == AllNames(c, "Code", CodeFields)
         IN  /\ Valid(r.status) /\ Innermost(c, r.status)
             /\ r.body.format \in Formats
             /\ IF ProtocolOf(op) = "gemini" THEN codes # {} => r.body.type \in codes
                ELSE types # {} => r.body.type \in types
<1>1. PICK m : m = MapDataPlaneError(Wrapped(c))
  OBVIOUS
<1>2. PICK ws : ws = Words(c)
  OBVIOUS
<1>3. PICK types, codes : /\ types = AllNames(c, "Type", TypeFields)
                          /\ codes = AllNames(c, "Code", CodeFields)
  OBVIOUS
<1>4. /\ Valid(m.status) /\ Innermost(c, m.status)
      /\ types # {} => m.type \in types /\ m.type # None
      /\ codes # {} => m.code \in codes /\ m.code # None
  BY <1>1, <1>3, MappedKeeps
<1>5. PICK r : r = CallFailed(op, c)
  OBVIOUS
<1>6. r = ErrorReply(ProtocolOf(op), m, ws)
  BY <1>1, <1>2, <1>5 DEF CallFailed
<1>7. CASE op \in {"chat", "responses"}
  <2>1. ProtocolOf(op) = "openai"
    BY <1>7, ProtocolIs
  <2>2. r = [status |-> m.status, body |-> OpenAIBody(m, ws)]
    BY <1>6, <2>1, BodiesKeep
  <2>3. OpenAIBody(m, ws).format = "openai" /\ (m.type # None => OpenAIBody(m, ws).type = m.type)
    BY BodiesKeep, BodiesKeepTypes
  <2> QED
    BY <1>3, <1>4, <1>5, <2>1, <2>2, <2>3 DEF Formats
<1>8. CASE op = "messages"
  <2>1. ProtocolOf(op) = "anthropic"
    BY <1>8, ProtocolIs
  <2>2. r = [status |-> m.status, body |-> AnthropicBody(m, ws)]
    BY <1>6, <2>1, BodiesKeep
  <2>3. /\ AnthropicBody(m, ws).format = "anthropic"
        /\ m.type # None => AnthropicBody(m, ws).type = m.type
    BY BodiesKeep, BodiesKeepTypes
  <2> QED
    BY <1>3, <1>4, <1>5, <2>1, <2>2, <2>3 DEF Formats
<1>9. CASE op = "generate"
  <2>1. ProtocolOf(op) = "gemini"
    BY <1>9, ProtocolIs
  <2>2. r = [status |-> m.status, body |-> GeminiBody(m, ws)]
    BY <1>6, <2>1, BodiesKeep
  <2>3. GeminiBody(m, ws).format = "gemini" /\ (m.code # None => GeminiBody(m, ws).type = m.code)
    BY BodiesKeep
  <2> QED
    BY <1>3, <1>4, <1>5, <2>1, <2>2, <2>3 DEF Formats
<1> QED
  BY <1>7, <1>8, <1>9 DEF Calling

\* Which operation is at which stage, and what a failed call was answered with.
Served ==
  /\ TypeOK
  /\ stage \in {"arrived", "admitted", "calling", "listing", "opening"} => reply = NoReply
  /\ stage = "calling" => route.op \in Calling
  /\ stage = "listing" => route.op \in Lists
  /\ stage \in {"opening", "flowing"} => route.op \in Streaming
  /\ IF stage = "answered" /\ chain # <<>>
     THEN /\ route.op \in Calling /\ chain \in Seq(Layers)
          /\ reply = CallFailed(route.op, chain)
     ELSE chain = <<>>

LEMMA RejectionIsValid ==
  ASSUME NEW op \in Streaming, NEW e
  PROVE  LET r == StreamRejected(op, e)
         IN  Valid(r.status) /\ r.body.format \in Formats
<1>1. ProtocolOf(op) \in {"openai", "anthropic", "gemini"}
  BY ProtocolIs DEF Streaming
<1>2. PICK f : f = ProtocolOf(op)
  OBVIOUS
<1>3. PICK m : m = EventError(op, e)
  OBVIOUS
<1>4. Valid(m.status)
  <2>1. Valid(StatusFromCodeOrMessage(e.code, e.text))
    <3>1. \A s \in {400, 401, 403, 404, 429, 502, 504} : Valid(s)
      BY DEF Valid
    <3> QED
      BY <3>1, GuessIsAnError
  <2>2. Valid(502) /\ Valid(400)
    BY DEF Valid
  <2>3. \A s, t, u, v : ProtocolError(s, t, u, v).status = s
    BY DEF ProtocolError
  <2>4. CASE op = "chat"
    BY <1>3, <2>1, <2>2, <2>3, <2>4 DEF EventError, ChatError
  <2>5. CASE op = "responses"
    BY <1>3, <2>1, <2>2, <2>3, <2>5 DEF EventError, ResponsesError
  <2>6. CASE op = "messages"
    BY <1>3, <2>1, <2>2, <2>3, <2>6 DEF EventError, AnthropicError
  <2>7. CASE op = "streamGenerate"
    BY <1>3, <2>1, <2>2, <2>3, <2>7 DEF EventError, GeminiError
  <2> QED
    BY <2>4, <2>5, <2>6, <2>7 DEF Streaming
<1>5. StreamRejected(op, e) = ErrorReply(f, m, {})
  BY <1>2, <1>3 DEF StreamRejected
<1> QED
  BY <1>1, <1>2, <1>4, <1>5, ReplyIs DEF Formats

LEMMA PlainIs ==
  ASSUME NEW f \in {"openai", "anthropic", "gemini"}, NEW s, NEW words
  PROVE  PlainReply(f, s, words).status = s /\ PlainReply(f, s, words).body.format = f
<1>1. PICK m : m = [Unmapped EXCEPT !.status = s]
  OBVIOUS
<1>2. m.status = s
  BY <1>1 DEF Unmapped
<1>3. PlainReply(f, s, words) = ErrorReply(f, m, words)
  BY <1>1 DEF PlainReply
<1> QED
  BY <1>2, <1>3, ReplyIs

LEMMA ServedStarts == Init => Served
<1> SUFFICES ASSUME Init PROVE Served
  OBVIOUS
<1> QED
  BY ShownAssumption DEF Init, Served, TypeOK, Stages, NoReply, NoBody

LEMMA ServedStep ==
  ASSUME Served, [Next]_vars
  PROVE  Served'
<1> USE DEF Served
<1>a. \A s \in {200, 400, 401, 404, 500} : Valid(s)
  BY DEF Valid
\* An answer without an error of a call.
<1>b. ASSUME UNCHANGED <<request, chain>>, stage # "answered", stage' = "answered",
             provider' \in {None, "openai", "anthropic", "gemini"},
             Valid(reply'.status), reply'.body.format \in Formats
      PROVE  Served'
  BY <1>b DEF TypeOK, Stages, request, Formats
<1>1. CASE Authenticate
  <2>1. Provider(route, ask) \in {None, "openai", "anthropic", "gemini"}
    <3>1. route \in Routes /\ ask \in Asks
      BY ShownAssumption DEF TypeOK
    <3> QED
      BY <3>1, Resolved DEF Provider
  <2>2. CASE Admits(route, ask, required)
    BY <1>1, <2>1, <2>2 DEF Authenticate, TypeOK, Stages, request
  <2>3. CASE ~Admits(route, ask, required)
    <3>1. Valid(Denied(provider').status) /\ Denied(provider').body.format \in Formats
      BY <1>a DEF Denied, NoBody, Formats, None
    <3> QED
      BY <1>1, <1>b, <2>1, <2>3, <3>1 DEF Authenticate, Answer
  <2> QED
    BY <2>2, <2>3
<1>2. CASE Refuse
  <2>1. Valid(Refusal(route.op).status) /\ Refusal(route.op).body.format \in Formats
    <3>1. route.op \in ModelCalls \cup Refused
      BY <1>2 DEF Refuse, Refuses, ModelCalls
    <3>2. ProtocolOf(route.op) \in {"openai", "anthropic", "gemini"}
      BY <3>1, ProtocolIs DEF ModelCalls
    <3>3. Valid(RefusalStatus(route.op))
      BY <1>a DEF RefusalStatus
    <3> QED
      BY <3>2, <3>3, PlainIs DEF Refusal, Formats
  <2> QED
    BY <1>2, <1>b, <2>1 DEF Refuse, Answer, TypeOK
<1>3. CASE Dispatch
  <2>1. PICK body \in Bodies :
           /\ ~Refuses(route.op, body)
           /\ stage' = CASE route.op \in Lists -> "listing"
                         [] Streamed(route.op, body) -> "opening"
                         [] OTHER -> "calling"
    BY <1>3 DEF Dispatch
  <2>2. route.op \in ModelCalls \cup Refused \cup Lists
    BY DEF TypeOK, Routes
  <2>3. \/ stage' = "listing" /\ route.op \in Lists
        \/ stage' = "opening" /\ route.op \in Streaming
        \/ stage' = "calling" /\ route.op \in Calling
    BY <2>1, <2>2 DEF Refuses, Streamed, Streaming, Calling, ModelCalls
  <2> QED
    BY <1>3, <2>3 DEF Dispatch, TypeOK, Stages, request
<1>4. CASE CallReturns
  <2>1. stage = "calling" /\ route.op \in Calling
    BY <1>4 DEF CallReturns
  <2>2. ProtocolOf(route.op) \in Formats
    BY <2>1, ProtocolIs DEF Calling, Formats
  <2>3. CASE Answer(Ok(ProtocolOf(route.op))) /\ UNCHANGED chain
    BY <1>4, <1>a, <1>b, <2>2, <2>3 DEF CallReturns, Answer, Ok, TypeOK
  <2>4. CASE \E c \in Chains : chain' = c /\ Answer(CallFailed(route.op, c))
    <3>1. PICK c \in Chains : chain' = c /\ Answer(CallFailed(route.op, c))
      BY <2>4
    <3>2. c \in Seq(Layers) /\ c # <<>>
      BY ChainsAssumption
    <3>3. PICK r : r = CallFailed(route.op, c)
      OBVIOUS
    <3>4. Valid(r.status) /\ r.body.format \in Formats
      BY <2>1, <3>2, <3>3, CallTells
    <3> QED
      BY <1>4, <2>1, <3>1, <3>2, <3>3, <3>4
      DEF CallReturns, Answer, TypeOK, Stages, request, Formats
  <2> QED
    BY <1>4, <2>3, <2>4 DEF CallReturns
<1>5. CASE ListReturns
  <2>1. PICK f : f = ListFormat(route.op, provider)
    OBVIOUS
  <2>2. f \in {"openai", "anthropic", "gemini"}
    BY <2>1 DEF ListFormat
  <2>3. Valid(reply'.status) /\ reply'.body.format \in Formats
    BY <1>5, <1>a, <2>1, <2>2, PlainIs DEF ListReturns, Answer, Ok, Formats
  <2> QED
    BY <1>5, <1>b, <2>3 DEF ListReturns, Answer, TypeOK
<1>6. CASE StreamStaysEmpty
  BY <1>6, <1>a, <1>b DEF StreamStaysEmpty, Answer, NoBody, Formats, TypeOK
<1>7. CASE StreamFails
  <2>1. PICK e : reply' = StreamRejected(route.op, e)
    BY <1>7 DEF StreamFails, Answer
  <2>2. Valid(reply'.status) /\ reply'.body.format \in Formats
    BY <1>7, <2>1, RejectionIsValid DEF StreamFails
  <2> QED
    BY <1>7, <1>b, <2>2 DEF StreamFails, Answer, TypeOK
<1>8. CASE StreamStarts
  <2>1. ProtocolOf(route.op) \in Formats
    BY <1>8, ProtocolIs DEF StreamStarts, Streaming, Formats
  <2> QED
    BY <1>8, <1>a, <2>1 DEF StreamStarts, Ok, TypeOK, Stages, request, Formats
<1>9. CASE StreamBreaks \/ StreamEnds
  <2>1. /\ UNCHANGED <<request, chain, provider, reply>> /\ stage = "flowing" /\ stage' = "answered"
    BY <1>9 DEF StreamBreaks, StreamEnds
  <2> QED
    BY <1>b, <2>1 DEF TypeOK, Formats
<1>10. CASE UNCHANGED vars
  BY <1>10 DEF vars, TypeOK
<1> QED
  BY <1>1, <1>2, <1>3, <1>4, <1>5, <1>6, <1>7, <1>8, <1>9, <1>10 DEF Next

\* Whatever errors portal returns, wrapped however often and offering a status, a
\* type and a code in whichever way, the client is told the innermost valid status
\* (error_mapper.go walks the layers) and a type or code that the error itself
\* names, if it names one.
THEOREM ErrorsSpeakForThemselves == Spec => []ErrorInv
<1>1. Served => ErrorInv
  <2> SUFFICES ASSUME Served PROVE ErrorInv
    OBVIOUS
  <2>1. CASE ~(stage = "answered" /\ chain # <<>>)
    BY <2>1 DEF Served, ErrorInv, InnermostStatusIsSent, NamedTypeSurvives
  <2>2. CASE stage = "answered" /\ chain # <<>>
    <3>1. route.op \in Calling /\ chain \in Seq(Layers) /\ reply = CallFailed(route.op, chain)
      BY <2>2 DEF Served
    <3>2. /\ Innermost(chain, reply.status)
          /\ IF ProtocolOf(route.op) = "gemini"
             THEN NamedCodes # {} => reply.body.type \in NamedCodes
             ELSE NamedTypes # {} => reply.body.type \in NamedTypes
      BY <3>1, CallTells DEF NamedCodes, NamedTypes, AllNames
    <3>3. InnermostStatusIsSent
      BY <3>1, <3>2, InnermostIs DEF InnermostStatusIsSent
    <3> QED
      BY <3>2, <3>3 DEF Served, ErrorInv, NamedTypeSurvives
  <2> QED
    BY <2>1, <2>2
<1> QED
  BY <1>1, ServedStarts, ServedStep, PTL DEF Spec
=============================================================================
