---- MODULE FrontendProofs ----
(***************************************************************************)
(* Proofs about the frontend's command handlers: the inductive invariant   *)
(* of Frontend and the safety properties it implies, for any number of     *)
(* requests and programs and whatever clients ask.                         *)
(***************************************************************************)
EXTENDS Frontend, TLAPS

\* The key tells /compile and /vet, the vet flag and the body apart.
LEMMA KeyTells ==
    ASSUME NEW a \in AllAsks, NEW b \in AllAsks,
           a.cmd # "health", b.cmd # "health", cacheKey(a) = cacheKey(b)
    PROVE  a = b
<1>1. Prefix(a) = Prefix(b) /\ a.body = b.body
      BY DEF cacheKey
<1>2. a.cmd \in {"compile", "vet"} /\ b.cmd \in {"compile", "vet"}
      BY DEF AllAsks
<1>3. a.vet \in BOOLEAN /\ b.vet \in BOOLEAN
      BY DEF AllAsks
<1>4. a.cmd = b.cmd
      BY <1>1, <1>2, <1>3 DEF Prefix
<1>5. a.vet = b.vet
      BY <1>1, <1>2, <1>3 DEF Prefix
<1> QED
    BY <1>1, <1>4, <1>5 DEF AllAsks

\* Every request has a key under which the cache holds something or nothing.
LEMMA KeyTyped ==
    ASSUME NEW a \in AllAsks PROVE cacheKey(a) \in Keys
  BY DEF cacheKey, Keys, Prefix, AllAsks

\* The frontend starts with an empty cache and idle handlers.
LEMMA InitIInv == Init => IInv
<1> SUFFICES ASSUME Init PROVE IInv
    OBVIOUS
<1>1. TypeOK
      BY DEF Init, TypeOK
<1>2. CacheInv /\ PlaceInv /\ RespInv
      BY DEF Init, CacheInv, PlaceInv, RespInv
<1>3. OwnAnswer /\ DirsKept
      BY DEF Init, OwnAnswer, DirsKept, Needs
<1> QED
    BY <1>1, <1>2, <1>3 DEF IInv

\* A step that leaves the cache alone leaves what is known of it true.
LEMMA CacheKept ==
    ASSUME IInv, UNCHANGED cache
    PROVE  /\ cache' \in [Keys -> Responses \union {None}]
           /\ CacheInv'
<1>1. cache' \in [Keys -> Responses \union {None}]
      BY DEF IInv, TypeOK
<1>2. CacheInv'
      BY DEF IInv, CacheInv
<1> QED
    BY <1>1, <1>2

\* What the invariant says of the variables' ranges, and of one request.
Ranges ==
    /\ pc \in [Requests -> {"idle", "get", "begin", "build", "vet", "run",
                            "judge", "set", "done"}]
    /\ ask \in [Requests -> Asks \union {None}]
    /\ gone \in [Requests -> BOOLEAN]
    /\ ctx \in [Requests -> {"live", "canceled", "deadline"}]
    /\ dirs \in [Requests -> SUBSET {"tmp", "gopath"}]
    /\ vetOut \in [Requests -> {"", "issues"}]
    /\ resp \in [Requests -> Responses \union {None}]
    /\ sent \in [Requests -> {"none", "200", "400", "500"}]

Typed(r) ==
    /\ pc[r] = "idle" \/ sent[r] = "400" <=> ask[r] = None
    /\ \/ pc[r] \in {"judge", "set"}
       \/ sent[r] = "200" /\ ask[r].cmd # "health"
       => resp[r] # None

Placed(r) ==
    /\ pc[r] \in {"get", "judge", "set"} => ask[r].cmd # "health"
    /\ pc[r] = "build" => ask[r].cmd # "vet"
    /\ pc[r] = "vet" => \/ ask[r].cmd = "vet"
                        \/ ask[r].cmd = "compile" /\ ask[r].vet
    /\ pc[r] = "run" => ask[r].cmd = "compile"
    /\ pc[r] # "run" => vetOut[r] = ""
    /\ vetOut[r] # "" => ask[r].vet
    /\ pc[r] # "done" => sent[r] = "none"

Responded(r) ==
    pc[r] \in {"judge", "set"} => WellMade(resp[r]) /\ resp[r].to = ask[r]

Answered200(r) ==
    sent[r] = "200" /\ ask[r].cmd # "health" => Answers(resp[r], ask[r])

Kept(r) == dirs[r] = Needs(pc[r], ask[r])

\* Of each request the invariant says the same.
LEMMA InvOf ==
    ASSUME IInv, NEW r \in Requests
    PROVE  Typed(r) /\ Placed(r) /\ Responded(r) /\ Answered200(r) /\ Kept(r)
<1>1. TypeOK /\ PlaceInv /\ RespInv /\ OwnAnswer /\ DirsKept
      BY DEF IInv
<1>2. Typed(r)
      BY <1>1 DEF TypeOK, Typed
<1>3. Placed(r)
      BY <1>1 DEF PlaceInv, Placed
<1>4. Responded(r)
      BY <1>1 DEF RespInv, Responded
<1>5. Answered200(r)
      BY <1>1 DEF OwnAnswer, Answered200
<1>6. Kept(r)
      BY <1>1 DEF DirsKept, Kept
<1> QED
    BY <1>2, <1>3, <1>4, <1>5, <1>6

\* The variables' ranges.
LEMMA RangesOf == IInv => Ranges
  BY DEF IInv, TypeOK, Ranges

\* A step of one request leaves the invariant true if it does so of the cache
\* and of this request: the others' part of the state does not change.
LEMMA OneRequest ==
    ASSUME IInv, NEW r \in Requests,
           cache' \in [Keys -> Responses \union {None}],
           CacheInv', Ranges',
           \A q \in Requests \ {r} :
              /\ pc'[q] = pc[q] /\ ask'[q] = ask[q] /\ dirs'[q] = dirs[q]
              /\ vetOut'[q] = vetOut[q] /\ resp'[q] = resp[q]
              /\ sent'[q] = sent[q],
           Typed(r)', Placed(r)', Responded(r)', Answered200(r)', Kept(r)'
    PROVE  IInv'
<1>1. ASSUME NEW q \in Requests
      PROVE  /\ Typed(q)' /\ Placed(q)' /\ Responded(q)'
             /\ Answered200(q)' /\ Kept(q)'
  <2>1. CASE q = r
        BY <2>1
  <2>2. CASE q # r
    <3>1. /\ pc'[q] = pc[q] /\ ask'[q] = ask[q] /\ dirs'[q] = dirs[q]
          /\ vetOut'[q] = vetOut[q] /\ resp'[q] = resp[q]
          /\ sent'[q] = sent[q]
          BY <2>2
    <3>2. Typed(q) /\ Placed(q) /\ Responded(q) /\ Answered200(q) /\ Kept(q)
          BY InvOf
    <3>3. Typed(q)' /\ Kept(q)'
          BY <3>1, <3>2 DEF Typed, Kept
    <3>4. Placed(q)'
          BY <3>1, <3>2 DEF Placed
    <3>5. Responded(q)' /\ Answered200(q)'
          BY <3>1, <3>2 DEF Responded, Answered200
    <3> QED
        BY <3>3, <3>4, <3>5
  <2> QED
      BY <2>1, <2>2
<1>2. TypeOK'
      BY <1>1 DEF TypeOK, Ranges, Typed
<1>3. PlaceInv'
      BY <1>1 DEF PlaceInv, Placed
<1>4. RespInv'
      BY <1>1 DEF RespInv, Responded
<1>5. OwnAnswer'
      BY <1>1 DEF OwnAnswer, Answered200
<1>6. DirsKept'
      BY <1>1 DEF DirsKept, Kept
<1> QED
    BY <1>2, <1>3, <1>4, <1>5, <1>6 DEF IInv

\* A step of a handler, a command or a client that neither answers nor returns
\* from cmdFunc: the handler goes on with the same request, and with nothing new
\* in the cache.
LEMMA MoveShape ==
    ASSUME IInv, NEW r \in Requests,
           NEW to \in {"begin", "build", "vet", "run", "set"},
           pc[r] \notin {"idle", "done"}, pc' = [pc EXCEPT ![r] = to],
           UNCHANGED <<cache, ask, resp, sent>>,
           gone' \in [Requests -> BOOLEAN],
           ctx' \in [Requests -> {"live", "canceled", "deadline"}],
           dirs' = [dirs EXCEPT ![r] = Needs(to, ask[r])],
           vetOut' \in [Requests -> {"", "issues"}],
           \A q \in Requests \ {r} : vetOut'[q] = vetOut[q],
           to = "build" => ask[r].cmd # "vet",
           to = "vet" => \/ ask[r].cmd = "vet"
                         \/ ask[r].cmd = "compile" /\ ask[r].vet,
           to = "run" => ask[r].cmd = "compile",
           to # "run" => vetOut'[r] = "",
           vetOut'[r] # "" => ask[r].vet,
           to = "set" => pc[r] = "judge"
    PROVE  IInv'
<1>1. Typed(r) /\ Placed(r) /\ Responded(r) /\ Ranges
      BY InvOf, RangesOf
<1>2. ask[r] # None /\ sent[r] = "none"
      BY <1>1 DEF Typed, Placed
<1>3. /\ pc'[r] = to /\ dirs'[r] = Needs(to, ask[r])
      /\ ask'[r] = ask[r] /\ resp'[r] = resp[r] /\ sent'[r] = sent[r]
      BY <1>1 DEF Ranges
<1>4. Ranges'
  <2>1. Needs(to, ask[r]) \in SUBSET {"tmp", "gopath"}
        BY DEF Needs
  <2> QED
      BY <1>1, <2>1 DEF Ranges
<1>5. \A q \in Requests \ {r} :
         /\ pc'[q] = pc[q] /\ ask'[q] = ask[q] /\ dirs'[q] = dirs[q]
         /\ vetOut'[q] = vetOut[q] /\ resp'[q] = resp[q]
         /\ sent'[q] = sent[q]
      BY <1>1 DEF Ranges
<1>6. Typed(r)' /\ Answered200(r)' /\ Kept(r)'
  <2>1. to = "set" => resp[r] # None
        BY <1>1 DEF Typed
  <2> QED
      BY <1>2, <1>3, <2>1 DEF Typed, Answered200, Kept
<1>7. Placed(r)'
  <2>1. to = "set" => ask[r].cmd # "health"
        BY <1>1 DEF Placed
  <2> QED
      BY <1>2, <1>3, <2>1 DEF Placed
<1>8. Responded(r)'
  <2>1. to = "set" => WellMade(resp[r]) /\ resp[r].to = ask[r]
        BY <1>1 DEF Responded
  <2> QED
      BY <1>3, <2>1 DEF Responded
<1> QED
    BY <1>4, <1>5, <1>6, <1>7, <1>8, CacheKept, OneRequest

\* A handler answers, of a request that did not decode, with an error, or with a
\* response that belongs to the request.
LEMMA AnswerShape ==
    ASSUME IInv, NEW r \in Requests, NEW from,
           NEW status \in {"200", "400", "500"},
           Answer(r, from, status), UNCHANGED ask,
           cache' \in [Keys -> Responses \union {None}],
           CacheInv',
           from # "done", status = "400" <=> from = "idle",
           NEW x \in Responses \union {None}, resp' = [resp EXCEPT ![r] = x],
           status = "200" /\ ask[r].cmd # "health"
             => x # None /\ Answers(x, ask[r])
    PROVE  IInv'
<1>1. Typed(r) /\ Placed(r) /\ Ranges
      BY InvOf, RangesOf
<1>2. /\ pc[r] = from /\ pc' = [pc EXCEPT ![r] = "done"]
      /\ sent' = [sent EXCEPT ![r] = status]
      /\ dirs' = [dirs EXCEPT ![r] = {}] /\ gone' = [gone EXCEPT ![r] = FALSE]
      /\ ctx' = [ctx EXCEPT ![r] = "live"]
      /\ vetOut' = [vetOut EXCEPT ![r] = ""]
      BY DEF Answer, Goto, Leaves
<1>3. /\ pc'[r] = "done" /\ sent'[r] = status /\ dirs'[r] = {}
      /\ vetOut'[r] = "" /\ resp'[r] = x /\ ask'[r] = ask[r]
      BY <1>1, <1>2 DEF Ranges
<1>4. Ranges'
      BY <1>1, <1>2 DEF Ranges
<1>5. \A q \in Requests \ {r} :
         /\ pc'[q] = pc[q] /\ ask'[q] = ask[q] /\ dirs'[q] = dirs[q]
         /\ vetOut'[q] = vetOut[q] /\ resp'[q] = resp[q]
         /\ sent'[q] = sent[q]
      BY <1>1, <1>2 DEF Ranges
<1>6. from = "idle" <=> ask[r] = None
      BY <1>1, <1>2 DEF Typed, Placed
<1>7. Typed(r)'
      BY <1>3, <1>6 DEF Typed
<1>8. Placed(r)' /\ Responded(r)' /\ Answered200(r)' /\ Kept(r)'
      BY <1>3 DEF Placed, Responded, Answered200, Kept, Needs
<1> QED
    BY <1>4, <1>5, <1>7, <1>8, OneRequest

\* cmdFunc returns a response made for its own request: it is judged next, or is
\* an error of the health check.
LEMMA ReturnShape ==
    ASSUME IInv, NEW r \in Requests, NEW from \in {"begin", "build", "vet", "run"},
           NEW x \in Responses, Returns(r, from, x), UNCHANGED <<cache, ask>>,
           x.to = ask[r], ask[r].cmd # "health" => WellMade(x)
    PROVE  IInv'
<1>1. CASE ask[r].cmd = "health"
  <2>1. resp' = [resp EXCEPT ![r] = resp[r]] /\ resp[r] \in Responses \union {None}
        BY <1>1 DEF Returns, IInv, TypeOK
  <2>2. Answer(r, from, "500")
        BY <1>1 DEF Returns
  <2> QED
      BY <2>1, <2>2, CacheKept, AnswerShape
<1>2. CASE ask[r].cmd # "health"
  <2>1. Typed(r) /\ Placed(r) /\ Ranges
        BY InvOf, RangesOf
  <2>2. /\ pc[r] = from /\ pc' = [pc EXCEPT ![r] = "judge"]
        /\ dirs' = [dirs EXCEPT ![r] = {}] /\ gone' = [gone EXCEPT ![r] = FALSE]
        /\ ctx' = [ctx EXCEPT ![r] = "live"]
        /\ vetOut' = [vetOut EXCEPT ![r] = ""]
        /\ resp' = [resp EXCEPT ![r] = x] /\ UNCHANGED sent
        BY <1>2 DEF Returns, Goto, Leaves
  <2>3. x # None /\ sent[r] = "none" /\ ask[r] # None
        BY <2>1, <2>2, FrontendAssumption DEF Typed, Placed
  <2>4. /\ pc'[r] = "judge" /\ sent'[r] = "none" /\ dirs'[r] = {}
        /\ vetOut'[r] = "" /\ resp'[r] = x /\ ask'[r] = ask[r]
        BY <2>1, <2>2, <2>3 DEF Ranges
  <2>5. Ranges'
        BY <2>1, <2>2 DEF Ranges
  <2>6. \A q \in Requests \ {r} :
           /\ pc'[q] = pc[q] /\ ask'[q] = ask[q] /\ dirs'[q] = dirs[q]
           /\ vetOut'[q] = vetOut[q] /\ resp'[q] = resp[q]
           /\ sent'[q] = sent[q]
        BY <2>1, <2>2 DEF Ranges
  <2>7. Typed(r)' /\ Answered200(r)' /\ Kept(r)'
        BY <2>3, <2>4 DEF Typed, Answered200, Kept, Needs
  <2>8. Placed(r)'
        BY <1>2, <2>4 DEF Placed
  <2>9. Responded(r)'
        BY <1>2, <2>4 DEF Responded
  <2> QED
      BY <2>5, <2>6, <2>7, <2>8, <2>9, CacheKept, OneRequest
<1> QED
    BY <1>1, <1>2

\* An error is a response to its request; one that reports no error tells
\* nothing about vet.
LEMMA ErrorMade ==
    ASSUME NEW a \in Asks, a.cmd # "health",
           NEW kind \in {"none", "user", "buildTimeout", "runTimeout", "internal"},
           kind = "none" => a.cmd = "vet"
    PROVE  WellMade(Error(kind, a))
  BY DEF WellMade, Answers, Error

LEMMA ErrorTyped ==
    ASSUME NEW a \in Asks,
           NEW kind \in {"none", "user", "buildTimeout", "runTimeout", "internal"}
    PROVE  Error(kind, a) \in Responses /\ Error(kind, a).to = a
  BY DEF Error, Responses

\* Setting the cache: what is kept was computed for a request that has this
\* key.
LEMMA SetKeeps ==
    ASSUME IInv, NEW r \in Requests, Set(r)
    PROVE  /\ cache' \in [Keys -> Responses \union {None}]
           /\ CacheInv'
<1> DEFINE k == cacheKey(ask[r])
           x == resp[r]
<1>1. pc[r] = "set" /\ cache' = [cache EXCEPT ![k] = x]
      BY DEF Set, Answer, Goto
<1>2. WellMade(x) /\ x.to = ask[r]
      BY <1>1 DEF IInv, RespInv
<1>3. x \in Responses
      BY <1>1 DEF IInv, TypeOK
<1>4. cache' \in [Keys -> Responses \union {None}]
      BY <1>1, <1>3 DEF IInv, TypeOK
<1> HIDE DEF x
<1>5. ASSUME NEW j \in Keys
      PROVE  cache'[j] = cache[j] \/ (cache'[j] = x /\ j = k)
      BY <1>1 DEF IInv, TypeOK
<1>6. cacheKey(x.to) = k
      BY <1>2
<1> HIDE DEF k
<1>7. CacheInv'
      BY <1>2, <1>5, <1>6 DEF IInv, CacheInv
<1> QED
    BY <1>4, <1>7

\* What is found in the cache was computed for the same request.
LEMMA HitAnswers ==
    ASSUME IInv, NEW r \in Requests, Hit(r)
    PROVE  /\ cache[cacheKey(ask[r])] \in Responses
           /\ Answers(cache[cacheKey(ask[r])], ask[r])
<1> DEFINE k == cacheKey(ask[r])
           x == cache[k]
<1>1. pc[r] = "get" /\ x # None
      BY DEF Hit
<1>2. ask[r] \in Asks /\ ask[r] \in AllAsks /\ ask[r].cmd # "health"
      <2>1. sent[r] = "none" /\ ask[r].cmd # "health"
            BY <1>1 DEF IInv, PlaceInv
      <2> QED
          BY <1>1, <2>1, FrontendAssumption DEF IInv, TypeOK
<1>3. k \in Keys
      BY <1>2, KeyTyped
<1> HIDE DEF k
<1>4. x \in Responses /\ WellMade(x) /\ cacheKey(x.to) = k
  <2>1. cache \in [Keys -> Responses \union {None}] /\ CacheInv
        BY DEF IInv, TypeOK
  <2>2. x \in Responses
        BY <1>1, <1>3, <2>1
  <2>3. WellMade(x) /\ cacheKey(x.to) = k
        BY <1>1, <1>3, <2>1 DEF CacheInv
  <2> QED
      BY <2>2, <2>3
<1>5. x.to \in AllAsks /\ x.to.cmd # "health"
      BY <1>4, FrontendAssumption DEF Responses, WellMade
<1> HIDE DEF x
<1>6. x.to = ask[r]
      BY <1>2, <1>4, <1>5, KeyTells DEF k
<1>7. Answers(x, ask[r])
      BY <1>4, <1>6 DEF WellMade
<1> QED
    BY <1>4, <1>7 DEF x, k

\* An arriving request has no answer yet and nothing of its own.
LEMMA ArrivesPreserves ==
    ASSUME IInv, NEW r \in Requests, Arrives(r) PROVE IInv'
<1> PICK a \in Asks :
      /\ Goto(r, "idle", IF a.cmd = "health" THEN "begin" ELSE "get")
      /\ ask' = [ask EXCEPT ![r] = a]
    BY DEF Arrives
<1> UNCHANGED <<cache, gone, ctx, dirs, vetOut, resp, sent>>
    BY DEF Arrives
<1> DEFINE to == IF a.cmd = "health" THEN "begin" ELSE "get"
<1>1. /\ pc[r] = "idle" /\ pc' = [pc EXCEPT ![r] = to] /\ a # None
      /\ to \in {"begin", "get"} /\ (to = "get" => a.cmd # "health")
      BY FrontendAssumption DEF Goto
<1> HIDE DEF to
<1>2. Placed(r) /\ Kept(r) /\ Ranges
      BY InvOf, RangesOf
<1>3. sent[r] = "none" /\ vetOut[r] = "" /\ dirs[r] = {}
      BY <1>1, <1>2 DEF Placed, Kept, Needs
<1>4. /\ pc'[r] = to /\ ask'[r] = a /\ sent'[r] = "none"
      /\ vetOut'[r] = "" /\ dirs'[r] = {}
      BY <1>1, <1>2, <1>3 DEF Ranges
<1>5. Ranges'
      BY <1>1, <1>2 DEF Ranges
<1>6. \A q \in Requests \ {r} :
         /\ pc'[q] = pc[q] /\ ask'[q] = ask[q] /\ dirs'[q] = dirs[q]
         /\ vetOut'[q] = vetOut[q] /\ resp'[q] = resp[q]
         /\ sent'[q] = sent[q]
      BY <1>1, <1>2 DEF Ranges
<1>7. Typed(r)' /\ Responded(r)' /\ Answered200(r)' /\ Kept(r)'
      BY <1>1, <1>4 DEF Typed, Responded, Answered200, Kept, Needs
<1>8. Placed(r)'
      BY <1>1, <1>4 DEF Placed
<1> QED
    BY <1>5, <1>6, <1>7, <1>8, CacheKept, OneRequest

\* The client's leaving and a deadline touch nothing but gone and ctx.
LEMMA CtxPreserves ==
    ASSUME IInv, NEW r \in Requests, ClientLeaves(r) \/ Deadline(r) PROVE IInv'
<1>1. UNCHANGED <<cache, pc, ask, dirs, vetOut, resp, sent>>
      BY DEF ClientLeaves, Deadline
<1>2. /\ gone' \in [Requests -> BOOLEAN]
      /\ ctx' \in [Requests -> {"live", "canceled", "deadline"}]
      BY DEF ClientLeaves, Deadline, IInv, TypeOK
<1>3. TypeOK'
      BY <1>1, <1>2 DEF IInv, TypeOK
<1>4. CacheInv'
      BY <1>1, CacheKept
<1>5. PlaceInv' /\ RespInv' /\ OwnAnswer' /\ DirsKept'
      BY <1>1 DEF IInv, PlaceInv, RespInv, OwnAnswer, DirsKept
<1> QED
    BY <1>3, <1>4, <1>5 DEF IInv

\* The connection forgets the request it has answered.
LEMMA DonePreserves ==
    ASSUME IInv, NEW r \in Requests, Done(r) PROVE IInv'
<1>1. Placed(r) /\ Kept(r) /\ Ranges
      BY InvOf, RangesOf
<1>2. /\ pc[r] = "done" /\ pc' = [pc EXCEPT ![r] = "idle"]
      /\ ask' = [ask EXCEPT ![r] = None] /\ resp' = [resp EXCEPT ![r] = None]
      /\ sent' = [sent EXCEPT ![r] = "none"]
      /\ UNCHANGED <<cache, gone, ctx, dirs, vetOut>>
      BY DEF Done, Goto
<1>3. vetOut[r] = "" /\ dirs[r] = {}
      BY <1>1, <1>2 DEF Placed, Kept, Needs
<1>4. /\ pc'[r] = "idle" /\ ask'[r] = None /\ sent'[r] = "none"
      /\ vetOut'[r] = "" /\ dirs'[r] = {}
      BY <1>1, <1>2, <1>3 DEF Ranges
<1>5. Ranges'
      BY <1>1, <1>2 DEF Ranges
<1>6. \A q \in Requests \ {r} :
         /\ pc'[q] = pc[q] /\ ask'[q] = ask[q] /\ dirs'[q] = dirs[q]
         /\ vetOut'[q] = vetOut[q] /\ resp'[q] = resp[q]
         /\ sent'[q] = sent[q]
      BY <1>1, <1>2 DEF Ranges
<1>7. /\ Typed(r)' /\ Placed(r)' /\ Responded(r)' /\ Answered200(r)'
      /\ Kept(r)'
      BY <1>4 DEF Typed, Placed, Responded, Answered200, Kept, Needs
<1> QED
    BY <1>2, <1>5, <1>6, <1>7, CacheKept, OneRequest

\* commandHandler's answers with status 200, and the health check's.
LEMMA OKPreserves ==
    ASSUME IInv, NEW r \in Requests,
           Hit(r) \/ SendsTimeout(r) \/ Set(r) \/ SetFails(r) \/ HealthOK(r)
    PROVE  IInv'
<1>1. CASE Hit(r)
      BY <1>1, HitAnswers, CacheKept, AnswerShape, FrontendAssumption DEF Hit
<1>2. CASE SendsTimeout(r) \/ SetFails(r) \/ Set(r)
  <2>1. pc[r] \in {"judge", "set"} /\ UNCHANGED <<ask, resp>>
        BY <1>2 DEF SendsTimeout, SetFails, Set, Answer, Goto
  <2>2. resp[r] \in Responses \union {None} /\ resp[r] # None
        BY <2>1 DEF IInv, TypeOK
  <2>3. Answers(resp[r], ask[r])
        BY <2>1 DEF IInv, RespInv, WellMade
  <2>4. resp' = [resp EXCEPT ![r] = resp[r]]
        BY <2>1 DEF IInv, TypeOK
  <2>5. Answer(r, "judge", "200") \/ Answer(r, "set", "200")
        BY <1>2 DEF SendsTimeout, SetFails, Set
  <2>6. /\ cache' \in [Keys -> Responses \union {None}]
        /\ CacheInv'
        BY <1>2, SetKeeps, CacheKept DEF SendsTimeout, SetFails
  <2> QED
      BY <2>1, <2>2, <2>3, <2>4, <2>5, <2>6, AnswerShape
<1>3. CASE HealthOK(r)
  <2>1. resp' = [resp EXCEPT ![r] = resp[r]] /\ resp[r] \in Responses \union {None}
        BY <1>3 DEF HealthOK, IInv, TypeOK
  <2> QED
      BY <1>3, <2>1, CacheKept, AnswerShape DEF HealthOK
<1> QED
    BY <1>1, <1>2, <1>3

\* A request that does not decode, and the answers with status 500.
LEMMA ErrPreserves ==
    ASSUME IInv, NEW r \in Requests,
           \/ BadRequest(r) \/ HidesInternal(r) \/ BeginFails(r)
           \/ BuildCanceled(r) \/ BuildBreaks(r) \/ VetBreaks(r)
           \/ RunCanceled(r) \/ RunBreaks(r)
    PROVE  IInv'
<1> USE DEF BadRequest, HidesInternal, BeginFails, BuildCanceled, BuildBreaks,
            VetBreaks, RunCanceled, RunBreaks
<1>1. UNCHANGED <<cache, ask, resp>>
      OBVIOUS
<1>2. \/ Answer(r, "idle", "400")
      \/ \E from \in {"judge", "begin", "build", "vet", "run"} :
           Answer(r, from, "500")
      OBVIOUS
<1>3. resp' = [resp EXCEPT ![r] = resp[r]] /\ resp[r] \in Responses \union {None}
      BY <1>1 DEF IInv, TypeOK
<1> QED
    BY <1>1, <1>2, <1>3, CacheKept, AnswerShape

\* A handler at work has a request, and was not answered yet.
LEMMA AtWork ==
    ASSUME IInv, NEW r \in Requests, pc[r] \notin {"idle", "done"}
    PROVE  ask[r] \in Asks /\ ask[r] # None /\ sent[r] = "none"
<1>1. Typed(r) /\ Placed(r) /\ ask[r] \in Asks \union {None}
      BY InvOf, RangesOf DEF Ranges
<1>2. sent[r] = "none"
      BY <1>1 DEF Placed
<1>3. ask[r] # None
      BY <1>1, <1>2 DEF Typed
<1> QED
    BY <1>1, <1>2, <1>3

\* The handler's and the tools' steps from one command to the next.
LEMMA MovesPreserve ==
    ASSUME IInv, NEW r \in Requests,
           \/ Miss(r) \/ Keeps(r) \/ BeginBuild(r) \/ BeginVet(r)
           \/ VettedBuild(r) \/ BuildOK(r)
    PROVE  IInv'
<1>0. Ranges /\ Placed(r)
      BY RangesOf, InvOf
<1>1. /\ gone' \in [Requests -> BOOLEAN]
      /\ ctx' \in [Requests -> {"live", "canceled", "deadline"}]
      /\ UNCHANGED <<cache, ask, resp, sent>>
  <2>1. UNCHANGED <<cache, ask, resp, sent, gone>> /\ (UNCHANGED ctx \/ NewCtx(r))
        BY DEF Miss, Keeps, BeginBuild, BeginVet, VettedBuild, BuildOK
  <2>2. ctx' \in [Requests -> {"live", "canceled", "deadline"}]
        BY <1>0, <2>1 DEF NewCtx, Ranges
  <2> QED
      BY <1>0, <2>1, <2>2 DEF Ranges
<1>2. /\ dirs[r] = Needs(pc[r], ask[r]) /\ dirs = [dirs EXCEPT ![r] = dirs[r]]
      /\ pc[r] # "run" => vetOut[r] = ""
      /\ vetOut \in [Requests -> {"", "issues"}]
      BY <1>0, InvOf DEF Ranges, Kept, Placed
<1>3. CASE Miss(r) \/ Keeps(r)
  <2> PICK from \in {"get", "judge"}, to \in {"begin", "set"} :
        /\ Goto(r, from, to) /\ UNCHANGED <<dirs, vetOut>>
        /\ to = "set" => from = "judge"
      BY <1>3 DEF Miss, Keeps
  <2>1. Needs(to, ask[r]) = {} /\ Needs(from, ask[r]) = {}
        BY DEF Needs
  <2>2. dirs' = [dirs EXCEPT ![r] = Needs(to, ask[r])]
        BY <1>2, <2>1 DEF Goto
  <2> QED
      BY <1>1, <1>2, <2>2, MoveShape DEF Goto
<1>4. CASE BeginBuild(r)
  <2>1. Needs("build", ask[r]) = {"tmp", "gopath"}
        BY DEF Needs
  <2> QED
      BY <1>1, <1>2, <1>4, <2>1, MoveShape DEF BeginBuild, Goto
<1>5. CASE BeginVet(r)
  <2>1. Needs("vet", ask[r]) = {"tmp"}
        BY <1>5 DEF Needs, BeginVet
  <2> QED
      BY <1>1, <1>2, <1>5, <2>1, MoveShape DEF BeginVet, Goto
<1>6. CASE VettedBuild(r)
  <2>1. /\ pc[r] = "vet" /\ ask[r].cmd = "compile" /\ ask[r].vet
        /\ pc' = [pc EXCEPT ![r] = "run"]
        /\ dirs' = [dirs EXCEPT ![r] = dirs[r] \ {"gopath"}]
        BY <1>6 DEF VettedBuild, Goto, IInv, PlaceInv
  <2>2. Needs("run", ask[r]) = dirs[r] \ {"gopath"}
        BY <1>2, <2>1 DEF Needs
  <2>3. /\ vetOut' \in [Requests -> {"", "issues"}]
        /\ \A q \in Requests \ {r} : vetOut'[q] = vetOut[q]
        BY <1>2, <1>6 DEF VettedBuild
  <2> QED
      BY <1>1, <2>1, <2>2, <2>3, MoveShape
<1>7. CASE BuildOK(r)
  <2>1. /\ pc[r] = "build" /\ ask[r].cmd = "compile" /\ vetOut' = vetOut
        /\ pc' = [pc EXCEPT ![r] = IF ask[r].vet THEN "vet" ELSE "run"]
        /\ dirs' = [dirs EXCEPT ![r] = IF ask[r].vet THEN dirs[r]
                                                     ELSE dirs[r] \ {"gopath"}]
        BY <1>7 DEF BuildOK, Goto
  <2>2. dirs[r] = {"tmp", "gopath"}
        BY <1>2, <2>1 DEF Needs
  <2>3. CASE ask[r].vet
    <3>1. Needs("vet", ask[r]) = {"tmp", "gopath"}
          BY <2>1 DEF Needs
    <3> QED
        BY <1>1, <1>2, <2>1, <2>2, <2>3, <3>1, MoveShape
  <2>4. CASE ~ask[r].vet
    <3>1. Needs("run", ask[r]) = dirs[r] \ {"gopath"}
          BY <2>2 DEF Needs
    <3> QED
        BY <1>1, <1>2, <2>1, <2>4, <3>1, MoveShape
  <2> QED
      BY <2>3, <2>4
<1> QED
    BY <1>3, <1>4, <1>5, <1>6, <1>7

\* What cmdFunc may return.
LEMMA ReturnsPreserve ==
    ASSUME IInv, NEW r \in Requests,
           \/ Refuses(r) \/ BuildFails(r) \/ BuildTimesOut(r) \/ Vetted(r)
           \/ RunOK(r) \/ RunRefused(r) \/ RunTimesOut(r)
    PROVE  IInv'
<1>1. pc[r] \in {"begin", "build", "vet", "run"} /\ UNCHANGED <<cache, ask>>
      BY DEF Refuses, BuildFails, BuildTimesOut, Vetted, RunOK, RunRefused,
             RunTimesOut
<1>2. ask[r] \in Asks /\ ask[r] # None
      BY <1>1, AtWork
<1>3. CASE RunOK(r)
  <2>1. PICK stderr \in {"plain", "timeout", "internal"} :
          Returns(r, "run", [errors |-> "none", stderr |-> stderr,
                             vet |-> VetShown(r), to |-> ask[r]])
        BY <1>3 DEF RunOK
  <2> DEFINE x == [errors |-> "none", stderr |-> stderr,
                   vet |-> VetShown(r), to |-> ask[r]]
  <2>2. /\ pc[r] = "run" /\ ask[r].cmd = "compile" /\ ask[r].vet \in BOOLEAN
        /\ vetOut[r] \in {"", "issues"} /\ (vetOut[r] # "" => ask[r].vet)
    <3>1. pc[r] = "run" /\ Placed(r) /\ Ranges
          BY <1>3, InvOf, RangesOf DEF RunOK
    <3>2. ask[r].vet \in BOOLEAN
          BY <1>2, FrontendAssumption DEF AllAsks
    <3> QED
        BY <3>1, <3>2 DEF Placed, Ranges
  <2>3. VetShown(r) \in {"none", "ok", "issues"} /\ (VetShown(r) # "none" <=> ask[r].vet)
        BY <2>2 DEF VetShown
  <2>4. x \in Responses /\ x.to = ask[r]
        BY <1>2, <2>3 DEF Responses
  <2>5. WellMade(x)
        BY <2>2, <2>3 DEF WellMade, Answers
  <2> HIDE DEF x
  <2> QED
      BY <1>1, <2>1, <2>4, <2>5, ReturnShape DEF x
<1>4. CASE \/ Refuses(r) \/ BuildFails(r) \/ BuildTimesOut(r) \/ Vetted(r)
           \/ RunRefused(r) \/ RunTimesOut(r)
  <2>1. PICK from \in {"begin", "build", "vet", "run"},
             kind \in {"none", "user", "buildTimeout", "runTimeout", "internal"} :
          /\ Returns(r, from, Error(kind, ask[r]))
          /\ kind = "none" => ask[r].cmd = "vet"
        BY <1>4 DEF Refuses, BuildFails, BuildTimesOut, Vetted, RunRefused,
                    RunTimesOut
  <2>2. Error(kind, ask[r]) \in Responses /\ Error(kind, ask[r]).to = ask[r]
        BY <1>2, ErrorTyped
  <2>3. ask[r].cmd # "health" => WellMade(Error(kind, ask[r]))
        BY <1>2, <2>1, ErrorMade
  <2> QED
      BY <1>1, <2>1, <2>2, <2>3, ReturnShape
<1> QED
    BY <1>3, <1>4

\* Every step of every request preserves the invariant.
LEMMA StepIInv == ASSUME IInv, [Next]_vars PROVE IInv'
<1>1. CASE UNCHANGED vars
  <2> UNCHANGED <<cache, pc, ask, gone, ctx, dirs, vetOut, resp, sent>>
      BY <1>1 DEF vars, handler
  <2> QED
      BY DEF IInv, TypeOK, CacheInv, PlaceInv, RespInv, OwnAnswer,
             DirsKept
<1>2. CASE Next
  <2> PICK r \in Requests :
        \/ Arrives(r) \/ BadRequest(r) \/ ClientLeaves(r) \/ Deadline(r)
        \/ Handles(r) \/ Stops(r) \/ VetEnds(r) \/ MayEnd(r)
      BY <1>2 DEF Next
  <2> QED
      BY ArrivesPreserves, CtxPreserves, DonePreserves, OKPreserves,
         ErrPreserves, MovesPreserve, ReturnsPreserve
      DEF Handles, Stops, VetEnds, MayEnd
<1> QED
    BY <1>1, <1>2

\* The invariant holds of every state the frontend reaches.
THEOREM Invariant == Spec => []IInv
<1>1. Init => IInv
      BY InitIInv
<1>2. IInv /\ [Next]_vars => IInv'
      BY StepIInv
<1> QED
    BY <1>1, <1>2, PTL DEF Spec

\* Every variable of the frontend keeps its type.
THEOREM TypeCorrect == Spec => []TypeOK
<1>1. IInv => TypeOK
      BY DEF IInv
<1> QED
    BY <1>1, Invariant, PTL

\* Whoever else asks for what at the same time, a request answered with status
\* 200 gets the answer to its own endpoint, program and vet flag.
THEOREM AlwaysOwnAnswer == Spec => []OwnAnswer
<1>1. IInv => OwnAnswer
      BY DEF IInv
<1> QED
    BY <1>1, Invariant, PTL

\* Tools have their directories while they run, and none is left behind.
THEOREM AlwaysDirsKept == Spec => []DirsKept
<1>1. IInv => DirsKept
      BY DEF IInv
<1> QED
    BY <1>1, Invariant, PTL
====
