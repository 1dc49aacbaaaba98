----------------------------- MODULE ChainProofs -----------------------------
(***************************************************************************)
(* Proofs that buildEndpoint chains the middlewares the way spec 4.B      *)
(* declares them, and that no request reaches the upstream past a JWT or *)
(* namespace wrapper that should have answered it, for every set of      *)
(* namespace values.                                                       *)
(*                                                                         *)
(* The middleware lists have at most two entries, so buildMiddleware's    *)
(* loop runs at most twice: its recursive function is given by a witness *)
(* for each length, and one loop iteration (Wrap) by a lemma.             *)
(***************************************************************************)
EXTENDS Chain, SequenceTheorems, TLAPS

(* What a wrapper of the chain can be.                                     *)
StageNames == MwNames \cup {"stream", "client"}

(* A built tripper: a failed build, or a sequence of wrappers.            *)
Trippers == {t \in [ok : BOOLEAN, stages : Seq(StageNames)] :
               ~t.ok => t = BuildFailed}

(* The entry name contributes to RegisteredOf: itself if registered.      *)
R1(name) == IF name \in Registered THEN <<name>> ELSE << >>

(* The wrappers between the outermost and pos have passed the request,   *)
(* and all of them have when it went upstream.                             *)
PassedSoFar ==
  /\ pos > 0 => \A k \in 1..pos - 1 : Passes(tripper.stages[k], req)
  /\ outcome = "upstream" =>
       \A k \in 1..Len(tripper.stages) : Passes(tripper.stages[k], req)

ChainTypes ==
  /\ global \in MwLists /\ endpoint \in MwLists /\ stream \in BOOLEAN
  /\ badOptions \subseteq Registered
  /\ nsOpts \in NS!Options
  /\ tripper \in Trippers
  /\ req \in Requests
  /\ pos \in Nat
  /\ outcome \in {"none", "upstream", "forbidden"}

IInv == ChainTypes /\ ChainFollowsDeclaration /\ PassedSoFar

-----------------------------------------------------------------------------
(* A middleware list of the model is a sequence of at most two names.    *)
LEMMA MwListShape ==
  ASSUME NEW ms \in MwLists
  PROVE  ms \in Seq(MwNames) /\ Len(ms) \in 0..2
<1>1. PICK n \in 0..2 : ms \in [1..n -> MwNames]
  BY DEF MwLists
<1>2. ms \in Seq(MwNames)
  BY <1>1
<1>3. Len(ms) = n
  BY <1>1
<1>4. QED
  BY <1>2, <1>3

(* SelectSeq's recursive function, over a list of each length.            *)
SelF(ms, f) ==
  [k \in 0..Len(ms) |->
     IF k = 0 THEN << >>
     ELSE IF ms[k] \in Registered THEN Append(f[k - 1], ms[k]) ELSE f[k - 1]]

LEMMA RegisteredOfDef ==
  ASSUME NEW ms \in Seq(MwNames)
  PROVE  RegisteredOf(ms) = (CHOOSE f : f = SelF(ms, f))[Len(ms)]
BY DEF RegisteredOf, SelF

(* R1 is a sequence of at most the name, and Append extends by it.       *)
LEMMA R1Facts ==
  ASSUME NEW name \in MwNames, NEW s \in Seq(MwNames)
  PROVE  /\ R1(name) \in Seq(MwNames)
         /\ (IF name \in Registered THEN Append(s, name) ELSE s) = s \o R1(name)
<1>1. R1(name) \in Seq(MwNames)
  BY DEF R1
<1>2. Append(s, name) = s \o <<name>>
  BY AppendIsConcat
<1>3. QED
  BY <1>1, <1>2 DEF R1

(* RegisteredOf keeps the registered entries of a list of at most two.    *)
LEMMA RegisteredOfShape ==
  ASSUME NEW ms \in Seq(MwNames), Len(ms) \in 0..2
  PROVE  RegisteredOf(ms) =
           IF Len(ms) = 0 THEN << >>
           ELSE IF Len(ms) = 1 THEN R1(ms[1])
           ELSE R1(ms[1]) \o R1(ms[2])
<1> DEFINE W == [k \in 0..Len(ms) |->
                   IF k = 0 THEN << >>
                   ELSE IF k = 1 THEN R1(ms[1])
                   ELSE R1(ms[1]) \o R1(ms[2])]
<1>0. /\ Len(ms) >= 1 => R1(ms[1]) = << >> \o R1(ms[1])
      /\ Len(ms) >= 1 => (IF ms[1] \in Registered THEN Append(<< >>, ms[1])
                          ELSE << >>) = R1(ms[1])
      /\ Len(ms) = 2 => (IF ms[2] \in Registered
                           THEN Append(R1(ms[1]), ms[2]) ELSE R1(ms[1]))
                        = R1(ms[1]) \o R1(ms[2])
  <2>1. CASE Len(ms) = 0
    BY <2>1
  <2>2. CASE Len(ms) >= 1
    <3>1. ms[1] \in MwNames /\ << >> \in Seq(MwNames)
      BY <2>2
    <3>2. R1(ms[1]) \in Seq(MwNames)
      BY <3>1, R1Facts
    <3>3. (IF ms[1] \in Registered THEN Append(<< >>, ms[1]) ELSE << >>)
            = << >> \o R1(ms[1])
      BY <3>1, R1Facts
    <3>4. << >> \o R1(ms[1]) = R1(ms[1])
      BY <3>2
    <3>5. Len(ms) = 2 => (IF ms[2] \in Registered
                            THEN Append(R1(ms[1]), ms[2]) ELSE R1(ms[1]))
                         = R1(ms[1]) \o R1(ms[2])
      <4> SUFFICES ASSUME Len(ms) = 2 PROVE
                     (IF ms[2] \in Registered
                        THEN Append(R1(ms[1]), ms[2]) ELSE R1(ms[1]))
                     = R1(ms[1]) \o R1(ms[2])
        OBVIOUS
      <4>1. ms[2] \in MwNames
        OBVIOUS
      <4>2. QED
        BY <3>2, <4>1, R1Facts
    <3>6. QED
      BY <3>3, <3>4, <3>5
  <2>3. QED
    BY <2>1, <2>2
<1>1. W = SelF(ms, W)
  <2>1. W[0] = << >>
    OBVIOUS
  <2>2. Len(ms) >= 1 =>
          W[1] = IF ms[1] \in Registered THEN Append(W[0], ms[1]) ELSE W[0]
    BY <1>0, <2>1
  <2>3. Len(ms) = 2 =>
          W[2] = IF ms[2] \in Registered THEN Append(W[1], ms[2]) ELSE W[1]
    BY <1>0
  <2>4. QED
    BY <2>1, <2>2, <2>3 DEF SelF
<1>2. ASSUME NEW f, f = SelF(ms, f)
      PROVE  f[Len(ms)] = IF Len(ms) = 0 THEN << >>
                          ELSE IF Len(ms) = 1 THEN R1(ms[1])
                          ELSE R1(ms[1]) \o R1(ms[2])
  <2>1. f[0] = << >>
    BY <1>2 DEF SelF
  <2>2. Len(ms) >= 1 => f[1] = R1(ms[1])
    <3>1. Len(ms) >= 1 =>
            f[1] = IF ms[1] \in Registered THEN Append(f[0], ms[1]) ELSE f[0]
      BY <1>2 DEF SelF
    <3>2. QED
      BY <1>0, <2>1, <3>1
  <2>3. Len(ms) = 2 => f[2] = R1(ms[1]) \o R1(ms[2])
    <3>1. Len(ms) = 2 =>
            f[2] = IF ms[2] \in Registered THEN Append(f[1], ms[2]) ELSE f[1]
      <4> SUFFICES ASSUME Len(ms) = 2
                   PROVE  f[2] = IF ms[2] \in Registered
                                   THEN Append(f[1], ms[2]) ELSE f[1]
        OBVIOUS
      <4>1. 2 \in 0..Len(ms) /\ 2 # 0 /\ 2 - 1 = 1
        OBVIOUS
      <4>2. f[2] = IF ms[2] \in Registered THEN Append(f[2 - 1], ms[2])
                   ELSE f[2 - 1]
        BY <1>2, <4>1 DEF SelF
      <4>3. QED
        BY <4>1, <4>2
    <3>2. Len(ms) = 2 => f[1] = R1(ms[1])
      BY <2>2
    <3>3. QED
      BY <1>0, <3>1, <3>2, Zenon
  <2>4. CASE Len(ms) = 0
    BY <2>1, <2>4
  <2>5. CASE Len(ms) = 1
    BY <2>2, <2>5
  <2>6. CASE Len(ms) = 2
    BY <2>3, <2>6
  <2>7. QED
    BY <2>4, <2>5, <2>6
<1>3. QED
  BY <1>1, <1>2, RegisteredOfDef

(* R1 of a middleware name is a sequence of wrappers.                     *)
LEMMA R1Type ==
  ASSUME NEW name \in MwNames
  PROVE  R1(name) \in Seq(StageNames)
<1>1. name \in StageNames
  BY DEF StageNames
<1>2. << >> \in Seq(StageNames) /\ <<name>> \in Seq(StageNames)
  BY <1>1
<1>3. QED
  BY <1>2 DEF R1

(* One iteration of buildMiddleware's loop: a failed build stays failed, *)
(* a factory error fails it, an unregistered name is skipped and any     *)
(* other name is wrapped around the tripper.                               *)
LEMMA WrapStep ==
  ASSUME NEW bad \in SUBSET Registered, NEW name \in MwNames,
         NEW next \in Trippers
  PROVE  /\ Wrap(bad, name, next) =
              IF next.ok /\ Factory(name, bad) # "error"
                THEN Built(R1(name) \o next.stages) ELSE BuildFailed
         /\ Wrap(bad, name, next) \in Trippers
<1>1. next = [ok |-> next.ok, stages |-> next.stages]
      /\ next.stages \in Seq(StageNames) /\ next.ok \in BOOLEAN
  BY DEF Trippers, BuildFailed
<1>2. R1(name) \in Seq(StageNames)
  BY R1Type
<1>3. R1(name) \o next.stages \in Seq(StageNames)
  BY <1>1, <1>2
<1>4. CASE ~next.ok
  <2>1. next = BuildFailed
    BY <1>4 DEF Trippers
  <2>2. Wrap(bad, name, next) = BuildFailed
    BY <1>4, <2>1 DEF Wrap
  <2>3. BuildFailed \in Trippers
    BY DEF Trippers, BuildFailed
  <2>4. QED
    BY <1>4, <2>2, <2>3
<1>5. CASE next.ok /\ name \notin Registered
  <2>1. Factory(name, bad) = "notFound"
    <3>1. name \notin bad /\ name # "namespace"
      BY <1>5 DEF Registered
    <3>2. QED
      BY <1>5, <3>1, Zenon DEF Factory
  <2>2. R1(name) \o next.stages = next.stages
    BY <1>1, <1>5 DEF R1
  <2>3. Wrap(bad, name, next) = next
    BY <1>5, <2>1 DEF Wrap
  <2>4. QED
    BY <1>1, <1>5, <2>1, <2>2, <2>3 DEF Built, Trippers
<1>6. CASE next.ok /\ name \in Registered
  <2>1. Factory(name, bad) # "notFound"
    BY <1>6, Zenon DEF Factory
  <2>2. R1(name) = <<name>>
    BY <1>6 DEF R1
  <2>3. QED
    BY <1>1, <1>3, <1>6, <2>1, <2>2 DEF Wrap, Built, BuildFailed, Trippers
<1>7. QED
  BY <1>1, <1>4, <1>5, <1>6

(* buildMiddleware's recursive function, and the factories of a list all *)
(* succeeding or being skipped.                                            *)
BMF(bad, ms, next, f) ==
  [k \in 0..Len(ms) |->
     IF k = 0 THEN next ELSE Wrap(bad, ms[Len(ms) - k + 1], f[k - 1])]
AllOk(bad, ms) == \A k \in 1..Len(ms) : Factory(ms[k], bad) # "error"

LEMMA BuildMiddlewareDef ==
  ASSUME NEW bad, NEW ms \in Seq(MwNames), NEW next
  PROVE  BuildMiddleware(bad, ms, next) =
           (CHOOSE f : f = BMF(bad, ms, next, f))[Len(ms)]
BY DEF BuildMiddleware, BMF

(* buildMiddleware over a list of at most two entries: the build fails   *)
(* when the tripper it wraps had failed or a factory fails; otherwise    *)
(* the registered entries are wrapped around it, the first outermost.    *)
LEMMA BuildMiddlewareShape ==
  ASSUME NEW bad \in SUBSET Registered, NEW ms \in Seq(MwNames),
         Len(ms) \in 0..2, NEW next \in Trippers
  PROVE  /\ BuildMiddleware(bad, ms, next) =
              IF next.ok /\ AllOk(bad, ms)
                THEN Built(RegisteredOf(ms) \o next.stages) ELSE BuildFailed
         /\ BuildMiddleware(bad, ms, next) \in Trippers
<1> DEFINE w1 == Wrap(bad, ms[Len(ms)], next)
           w2 == Wrap(bad, ms[1], w1)
           Res == IF Len(ms) = 0 THEN next ELSE IF Len(ms) = 1 THEN w1 ELSE w2
<1>1. ASSUME NEW f, f = BMF(bad, ms, next, f) PROVE f[Len(ms)] = Res
  <2>1. f[0] = next
    BY <1>1 DEF BMF
  <2>2. Len(ms) >= 1 => f[1] = Wrap(bad, ms[Len(ms)], f[0])
    BY <1>1 DEF BMF
  <2>3. Len(ms) = 2 => f[2] = Wrap(bad, ms[1], f[1])
    <3> SUFFICES ASSUME Len(ms) = 2 PROVE f[2] = Wrap(bad, ms[1], f[1])
      OBVIOUS
    <3>1. 2 \in 0..Len(ms) /\ 2 # 0 /\ 2 - 1 = 1 /\ Len(ms) - 2 + 1 = 1
      OBVIOUS
    <3>2. f[2] = Wrap(bad, ms[Len(ms) - 2 + 1], f[2 - 1])
      BY <1>1, <3>1 DEF BMF
    <3>3. QED
      BY <3>1, <3>2
  <2>4. CASE Len(ms) = 0
    BY <2>1, <2>4
  <2>5. CASE Len(ms) = 1
    BY <2>1, <2>2, <2>5
  <2>6. CASE Len(ms) = 2
    BY <2>1, <2>2, <2>3, <2>6
  <2>7. QED
    BY <2>4, <2>5, <2>6
<1>2. \E f : f = BMF(bad, ms, next, f)
  <2> DEFINE W == [k \in 0..Len(ms) |->
                     IF k = 0 THEN next ELSE IF k = 1 THEN w1 ELSE w2]
  <2>1. Len(ms) = 2 => Len(ms) - 2 + 1 = 1 /\ 2 - 1 = 1
    OBVIOUS
  <2>2. W = BMF(bad, ms, next, W)
    BY <2>1 DEF BMF
  <2>3. QED
    BY <2>2
<1>3. BuildMiddleware(bad, ms, next) = Res
  BY <1>1, <1>2, BuildMiddlewareDef
<1>4. next = [ok |-> next.ok, stages |-> next.stages]
      /\ next.stages \in Seq(StageNames) /\ next.ok \in BOOLEAN
  BY DEF Trippers, BuildFailed
<1>0. RegisteredOf(ms) = IF Len(ms) = 0 THEN << >>
                         ELSE IF Len(ms) = 1 THEN R1(ms[1])
                         ELSE R1(ms[1]) \o R1(ms[2])
  BY RegisteredOfShape
<1>5. CASE Len(ms) = 0
  <2>1. RegisteredOf(ms) = << >> /\ AllOk(bad, ms)
    BY <1>0, <1>5 DEF AllOk
  <2>2. next.ok => Built(RegisteredOf(ms) \o next.stages) = next
    BY <1>4, <2>1 DEF Built
  <2>3. ~next.ok => next = BuildFailed
    BY DEF Trippers
  <2>4. QED
    BY <1>3, <1>5, <2>1, <2>2, <2>3
<1>6. CASE Len(ms) = 1
  <2>1. ms[1] \in MwNames /\ ms[Len(ms)] = ms[1]
    BY <1>6 DEF MwNames
  <2>2. RegisteredOf(ms) = R1(ms[1])
    BY <1>0, <1>6
  <2>3. AllOk(bad, ms) <=> Factory(ms[1], bad) # "error"
    BY <1>6 DEF AllOk
  <2>4. /\ w1 = IF next.ok /\ Factory(ms[1], bad) # "error"
                  THEN Built(R1(ms[1]) \o next.stages) ELSE BuildFailed
        /\ w1 \in Trippers
    BY <2>1, WrapStep
  <2>5. QED
    BY <1>3, <1>6, <2>2, <2>3, <2>4
<1>7. CASE Len(ms) = 2
  <2>1. ms[1] \in MwNames /\ ms[2] \in MwNames /\ ms[Len(ms)] = ms[2]
    BY <1>7
  <2>2. RegisteredOf(ms) = R1(ms[1]) \o R1(ms[2])
    BY <1>0, <1>7
  <2>3. AllOk(bad, ms) <=>
          Factory(ms[1], bad) # "error" /\ Factory(ms[2], bad) # "error"
    BY <1>7 DEF AllOk
  <2>4. /\ w1 = IF next.ok /\ Factory(ms[2], bad) # "error"
                  THEN Built(R1(ms[2]) \o next.stages) ELSE BuildFailed
        /\ w1 \in Trippers
    BY <2>1, WrapStep
  <2>5. /\ w2 = IF w1.ok /\ Factory(ms[1], bad) # "error"
                  THEN Built(R1(ms[1]) \o w1.stages) ELSE BuildFailed
        /\ w2 \in Trippers
    BY <2>1, <2>4, WrapStep
  <2>6. R1(ms[1]) \in Seq(StageNames) /\ R1(ms[2]) \in Seq(StageNames)
    BY <2>1, R1Type
  <2>7. (R1(ms[1]) \o R1(ms[2])) \o next.stages
          = R1(ms[1]) \o (R1(ms[2]) \o next.stages)
    BY <1>4, <2>6, ConcatAssociative
  <2>8. CASE next.ok /\ Factory(ms[2], bad) # "error"
    <3>1. w1 = Built(R1(ms[2]) \o next.stages)
      BY <2>4, <2>8
    <3>2. w1.ok = TRUE
      BY <3>1 DEF Built
    <3>4. w1.stages = R1(ms[2]) \o next.stages
      <4>1. ASSUME NEW x, NEW y, x = Built(y) PROVE x.stages = y
        BY <4>1 DEF Built
      <4>2. QED
        BY <3>1, <4>1
    <3>3. QED
      BY <1>3, <1>7, <2>2, <2>3, <2>5, <2>7, <2>8, <3>2, <3>4
  <2>9. CASE ~(next.ok /\ Factory(ms[2], bad) # "error")
    <3>1. w1 = BuildFailed
      BY <2>4, <2>9
    <3>2. ~w1.ok
      BY <3>1 DEF BuildFailed
    <3>3. QED
      BY <1>3, <1>7, <2>3, <2>5, <2>9, <3>2 DEF BuildFailed, Trippers
  <2>10. QED
    BY <2>8, <2>9
<1>8. QED
  BY <1>5, <1>6, <1>7

(* The registered entries of a list are wrappers of the chain.           *)
LEMMA RegisteredOfType ==
  ASSUME NEW ms \in Seq(MwNames), Len(ms) \in 0..2
  PROVE  RegisteredOf(ms) \in Seq(StageNames)
<1>1. RegisteredOf(ms) = IF Len(ms) = 0 THEN << >>
                         ELSE IF Len(ms) = 1 THEN R1(ms[1])
                         ELSE R1(ms[1]) \o R1(ms[2])
  BY RegisteredOfShape
<1>2. Len(ms) >= 1 => R1(ms[1]) \in Seq(StageNames)
  BY R1Type
<1>3. Len(ms) = 2 => R1(ms[2]) \in Seq(StageNames)
  <2> SUFFICES ASSUME Len(ms) = 2 PROVE R1(ms[2]) \in Seq(StageNames)
    OBVIOUS
  <2>1. ms[2] \in MwNames
    OBVIOUS
  <2>2. QED
    BY <2>1, R1Type
<1>4. QED
  BY <1>1, <1>2, <1>3

(* The stream tripper and the client, innermost.                          *)
Innermost(s) == IF s THEN <<"stream", "client">> ELSE <<"client">>

(* buildEndpoint: the endpoint's list then the global list folded around *)
(* the client; the build succeeds when no factory of either list fails,  *)
(* and the wrappers are the global list's registered entries, then the   *)
(* endpoint's, then the stream tripper and the client.                   *)
LEMMA EndpointTripperShape ==
  ASSUME NEW bad \in SUBSET Registered, NEW g \in MwLists, NEW e \in MwLists,
         NEW s \in BOOLEAN
  PROVE  /\ EndpointTripper(bad, g, e, s) \in Trippers
         /\ EndpointTripper(bad, g, e, s).ok <=> AllOk(bad, g) /\ AllOk(bad, e)
         /\ EndpointTripper(bad, g, e, s).ok =>
              EndpointTripper(bad, g, e, s).stages =
                RegisteredOf(g) \o RegisteredOf(e) \o Innermost(s)
<1> DEFINE base == Built(Innermost(s))
           inner == BuildMiddleware(bad, e, base)
<1>1. g \in Seq(MwNames) /\ Len(g) \in 0..2 /\ e \in Seq(MwNames)
      /\ Len(e) \in 0..2
  BY MwListShape
<1>0. Innermost(s) \in Seq(StageNames)
  <2>1. "stream" \in StageNames /\ "client" \in StageNames
    BY DEF StageNames
  <2>2. QED
    BY <2>1 DEF Innermost
<1>2. base \in Trippers /\ base.ok /\ base.stages = Innermost(s)
  BY <1>0 DEF Built, Trippers
<1>3. /\ inner = IF AllOk(bad, e)
                   THEN Built(RegisteredOf(e) \o Innermost(s)) ELSE BuildFailed
      /\ inner \in Trippers
  BY <1>1, <1>2, BuildMiddlewareShape
<1>4. /\ EndpointTripper(bad, g, e, s) =
           IF inner.ok /\ AllOk(bad, g)
             THEN Built(RegisteredOf(g) \o inner.stages) ELSE BuildFailed
      /\ EndpointTripper(bad, g, e, s) \in Trippers
  BY <1>1, <1>3, BuildMiddlewareShape DEF EndpointTripper, Innermost
<1>5. inner.ok <=> AllOk(bad, e)
  BY <1>3 DEF Built, BuildFailed
<1>6. inner.ok => inner.stages = RegisteredOf(e) \o Innermost(s)
  <2>1. ASSUME NEW x, NEW y, x = Built(y) PROVE x.stages = y
    BY <2>1 DEF Built
  <2>2. inner.ok => inner = Built(RegisteredOf(e) \o Innermost(s))
    BY <1>3, <1>5
  <2>3. QED
    BY <2>1, <2>2
<1>7. RegisteredOf(g) \in Seq(StageNames) /\ RegisteredOf(e) \in Seq(StageNames)
      /\ Innermost(s) \in Seq(StageNames)
  BY <1>0, <1>1, RegisteredOfType
<1>8. RegisteredOf(g) \o (RegisteredOf(e) \o Innermost(s))
        = RegisteredOf(g) \o RegisteredOf(e) \o Innermost(s)
  BY <1>7, ConcatAssociative
<1>9. EndpointTripper(bad, g, e, s).ok <=> inner.ok /\ AllOk(bad, g)
  BY <1>4 DEF Built, BuildFailed
<1>10. EndpointTripper(bad, g, e, s).ok =>
         EndpointTripper(bad, g, e, s).stages =
           RegisteredOf(g) \o inner.stages
  <2>1. ASSUME NEW x, NEW y, x = Built(y) PROVE x.stages = y
    BY <2>1 DEF Built
  <2>2. QED
    BY <1>4, <1>9, <2>1
<1>11. QED
  BY <1>4, <1>5, <1>6, <1>8, <1>9, <1>10

(* No factory of two lists fails exactly when none of their concatenation *)
(* does.                                                                   *)
LEMMA AllOkConcat ==
  ASSUME NEW bad, NEW g \in Seq(MwNames), NEW e \in Seq(MwNames)
  PROVE  AllOk(bad, g) /\ AllOk(bad, e) <=>
           \A i \in 1..Len(g \o e) : Factory((g \o e)[i], bad) # "error"
<1>1. Len(g \o e) = Len(g) + Len(e)
      /\ \A i \in 1..Len(g) : (g \o e)[i] = g[i]
      /\ \A j \in Len(g) + 1..Len(g) + Len(e) : (g \o e)[j] = e[j - Len(g)]
  OBVIOUS
<1>2. \A i \in 1..Len(e) : (g \o e)[i + Len(g)] = e[i]
  BY <1>1
<1>3. QED
  BY <1>1, <1>2 DEF AllOk

(* The initial state: the chain is built, no request is in flight.       *)
LEMMA InitIInv == Init => IInv
<1> SUFFICES ASSUME Init PROVE IInv
  OBVIOUS
<1>1. global \in Seq(MwNames) /\ endpoint \in Seq(MwNames)
  BY MwListShape DEF Init
<1>2. /\ tripper \in Trippers
      /\ tripper.ok <=> AllOk(badOptions, global) /\ AllOk(badOptions, endpoint)
      /\ tripper.ok => tripper.stages = Declared
  BY EndpointTripperShape DEF Init, Declared, Innermost
<1>3. ChainTypes
  BY <1>2 DEF Init, ChainTypes, Requests, AuthHeaders, NS!ApiAnswers
<1>4. ChainFollowsDeclaration
  BY <1>1, <1>2, AllOkConcat DEF ChainFollowsDeclaration
<1>5. PassedSoFar
  BY DEF Init, PassedSoFar
<1>6. QED
  BY <1>3, <1>4, <1>5 DEF IInv

(* Whether a wrapper passes a request depends only on the namespace     *)
(* options, which no step changes.                                        *)
LEMMA PassesUnchanged ==
  ASSUME nsOpts' = nsOpts, NEW st, NEW r
  PROVE  Passes(st, r)' = Passes(st, r)
  BY DEF Passes

(* The declaration and the tripper are fixed at start-up.                *)
LEMMA DeclarationUnchanged ==
  ASSUME UNCHANGED <<global, endpoint, stream, badOptions, nsOpts, tripper>>
  PROVE  ChainFollowsDeclaration' = ChainFollowsDeclaration
  BY DEF ChainFollowsDeclaration, Declared, Factory

(* Every step of a request keeps the invariant; the chain never changes. *)
LEMMA NextIInv == IInv /\ [Next]_vars => IInv'
<1> SUFFICES ASSUME IInv, [Next]_vars PROVE IInv'
  OBVIOUS
<1>1. UNCHANGED <<global, endpoint, stream, badOptions, nsOpts, tripper>>
  BY DEF Next, Accept, Forward, Refuse, vars
<1>2. ChainFollowsDeclaration'
  BY <1>1, DeclarationUnchanged DEF IInv
<1>3. ChainTypes'
  BY <1>1 DEF IInv, ChainTypes, Next, Accept, Forward, Refuse, vars
<1>4. PassedSoFar'
  <2>1. \A st, r : Passes(st, r)' = Passes(st, r)
    BY <1>1, PassesUnchanged
  <2>2. CASE Accept
    BY <2>2 DEF Accept, PassedSoFar
  <2>3. CASE Forward
    <3>1. pos > 0 /\ Passes(tripper.stages[pos], req) /\ UNCHANGED <<req, tripper>>
      BY <2>3 DEF Forward
    <3>2. \A k \in 1..pos : Passes(tripper.stages[k], req)
      BY <3>1 DEF IInv, ChainTypes, PassedSoFar
    <3>3. CASE pos = Len(tripper.stages)
      BY <2>1, <2>3, <3>1, <3>2, <3>3 DEF Forward, PassedSoFar
    <3>4. CASE pos # Len(tripper.stages)
      BY <2>1, <2>3, <3>1, <3>2, <3>4 DEF IInv, ChainTypes, Forward, PassedSoFar
    <3>5. QED
      BY <3>3, <3>4
  <2>4. CASE Refuse
    BY <2>4 DEF Refuse, PassedSoFar
  <2>5. CASE UNCHANGED vars
    BY <2>1, <2>5 DEF IInv, vars, PassedSoFar
  <2>6. QED
    BY <2>2, <2>3, <2>4, <2>5 DEF Next
<1>5. QED
  BY <1>2, <1>3, <1>4 DEF IInv

(* RoundTrip hands a request to the next tripper only when its namespace *)
(* is absent and not required, whitelisted outside the api mode, or       *)
(* approved by the API outside the whitelist mode, for options that       *)
(* Middleware accepted.                                                    *)
LEMMA RoundTripNext ==
  ASSUME NEW o \in NS!Options, NEW ns, NEW answer \in NS!ApiAnswers,
         ~NS!BuildFails(o), NS!RoundTrip(o, ns, answer) = "next"
  PROVE  \/ ns = NS!NoNs /\ ~o.required
         \/ ns \in o.allowed /\ o.mode # "api"
         \/ o.api /\ answer = "ok" /\ o.mode # "whitelist"
<1>1. NS!ViaApi(answer) # "next" /\ (NS!ViaApi(answer) = "nil" => answer = "ok")
  BY DEF NS!ViaApi, NS!ApiAnswers
<1>2. NS!Validate(o, ns, answer) # "next"
  BY <1>1 DEF NS!Validate
<1>3. ~(o.required /\ ns = NS!NoNs)
  BY DEF NS!RoundTrip
<1>4. CASE ns = NS!NoNs
  BY <1>3, <1>4
<1>5. CASE ns # NS!NoNs
  <2>1. NS!Validate(o, ns, answer) = "nil"
    BY <1>2, <1>3, <1>5 DEF NS!RoundTrip
  <2>2. o.mode \in NS!Modes
    BY DEF NS!Options
  <2>3. QED
    BY <1>1, <2>1, <2>2 DEF NS!Validate, NS!BuildFails, NS!Modes
<1>6. QED
  BY <1>4, <1>5

(* The entries of RegisteredOf(ms) are entries of ms.                    *)
LEMMA RegisteredOfRange ==
  ASSUME NEW ms \in Seq(MwNames), Len(ms) \in 0..2,
         NEW x \in Range(RegisteredOf(ms))
  PROVE  \E k \in 1..Len(ms) : ms[k] = x
<1>0. RegisteredOf(ms) = IF Len(ms) = 0 THEN << >>
                         ELSE IF Len(ms) = 1 THEN R1(ms[1])
                         ELSE R1(ms[1]) \o R1(ms[2])
  BY RegisteredOfShape
<1>1. \A a \in MwNames : R1(a) \in Seq(MwNames) /\ Range(R1(a)) \subseteq {a}
  BY DEF R1, Range
<1>2. CASE Len(ms) = 0
  BY <1>0, <1>2 DEF Range
<1>3. CASE Len(ms) = 1
  <2>1. RegisteredOf(ms) = R1(ms[1])
    BY <1>0, <1>3
  <2>2. ms[1] \in MwNames
    BY <1>3
  <2>3. QED
    BY <1>1, <1>3, <2>1, <2>2
<1>4. CASE Len(ms) = 2
  <2>1. RegisteredOf(ms) = R1(ms[1]) \o R1(ms[2])
    BY <1>0, <1>4
  <2>2. ms[1] \in MwNames /\ ms[2] \in MwNames
    <3>1. 1 \in 1..Len(ms) /\ 2 \in 1..Len(ms)
      BY <1>4
    <3>2. QED
      BY <3>1, ElementOfSeq
  <2>3. Range(R1(ms[1]) \o R1(ms[2])) = Range(R1(ms[1])) \cup Range(R1(ms[2]))
    BY <1>1, <2>2, RangeConcatenation
  <2>4. QED
    BY <1>1, <1>4, <2>1, <2>2, <2>3
<1>5. QED
  BY <1>2, <1>3, <1>4

(* The chain a request meets is the one the lists declare (spec 4.B):    *)
(* buildMiddleware fails exactly when a registered factory fails, and a  *)
(* built chain holds the registered entries, global list first, each in  *)
(* declaration order, then the stream tripper and the client.             *)
THEOREM ChainFollowsDeclarationHolds == Spec => []ChainFollowsDeclaration
<1>1. IInv => ChainFollowsDeclaration
  BY DEF IInv
<1>2. QED
  BY InitIInv, NextIInv, <1>1, PTL DEF Spec

(* The invariant entails the authorization property: a request that     *)
(* reached the upstream passed every wrapper of the chain, and a        *)
(* namespace wrapper is only in a chain whose options Middleware         *)
(* accepted.                                                               *)
LEMMA IInvAuthorized == IInv => UpstreamOnlyIfAuthorized
<1> SUFFICES ASSUME IInv, outcome = "upstream"
             PROVE  /\ "jwt" \in Range(tripper.stages) => req.auth = "bearerValid"
                    /\ "namespace" \in Range(tripper.stages) =>
                         \/ req.ns = NS!NoNs /\ ~nsOpts.required
                         \/ req.ns \in nsOpts.allowed /\ nsOpts.mode # "api"
                         \/ nsOpts.api /\ req.answer = "ok"
                              /\ nsOpts.mode # "whitelist"
  BY DEF UpstreamOnlyIfAuthorized
<1>1. tripper \in Trippers
  BY DEF IInv, ChainTypes
<1>2. tripper.stages \in Seq(StageNames)
      /\ DOMAIN tripper.stages = 1..Len(tripper.stages)
  BY <1>1 DEF Trippers
<1>3. \A k \in 1..Len(tripper.stages) : Passes(tripper.stages[k], req)
  BY DEF IInv, PassedSoFar
<1>4. "jwt" \in Range(tripper.stages) => req.auth = "bearerValid"
  <2> SUFFICES ASSUME "jwt" \in Range(tripper.stages)
               PROVE  req.auth = "bearerValid"
    OBVIOUS
  <2>1. Passes("jwt", req)
    BY <1>2, <1>3 DEF Range
  <2>2. QED
    BY <2>1 DEF Passes, JwtAccepts
<1>5. "namespace" \in Range(tripper.stages) =>
        \/ req.ns = NS!NoNs /\ ~nsOpts.required
        \/ req.ns \in nsOpts.allowed /\ nsOpts.mode # "api"
        \/ nsOpts.api /\ req.answer = "ok" /\ nsOpts.mode # "whitelist"
  <2> SUFFICES ASSUME "namespace" \in Range(tripper.stages)
               PROVE  \/ req.ns = NS!NoNs /\ ~nsOpts.required
                      \/ req.ns \in nsOpts.allowed /\ nsOpts.mode # "api"
                      \/ nsOpts.api /\ req.answer = "ok"
                           /\ nsOpts.mode # "whitelist"
    OBVIOUS
  <2>1. NS!RoundTrip(nsOpts, req.ns, req.answer) = "next"
    <3>1. Passes("namespace", req)
      BY <1>2, <1>3 DEF Range
    <3>2. QED
      BY <3>1 DEF Passes
  <2>2. tripper.ok
    BY <1>1 DEF Trippers, BuildFailed, Range
  <2>3. tripper.stages = Declared
    BY <2>2 DEF IInv, ChainFollowsDeclaration
  <2>4. /\ global \in Seq(MwNames) /\ Len(global) \in 0..2
        /\ endpoint \in Seq(MwNames) /\ Len(endpoint) \in 0..2
    BY MwListShape DEF IInv, ChainTypes
  <2>5. /\ RegisteredOf(global) \in Seq(StageNames)
        /\ RegisteredOf(endpoint) \in Seq(StageNames)
        /\ Innermost(stream) \in Seq(StageNames)
    <3>1. "stream" \in StageNames /\ "client" \in StageNames
      BY DEF StageNames
    <3>2. QED
      BY <2>4, <3>1, RegisteredOfType DEF Innermost
  <2>6. Range(Declared) = Range(RegisteredOf(global))
                          \cup Range(RegisteredOf(endpoint))
                          \cup Range(Innermost(stream))
    <3>1. RegisteredOf(global) \o RegisteredOf(endpoint) \in Seq(StageNames)
      BY <2>5
    <3>2. Declared = RegisteredOf(global) \o RegisteredOf(endpoint)
                       \o Innermost(stream)
      BY DEF Declared, Innermost
    <3>3. Range(RegisteredOf(global) \o RegisteredOf(endpoint)
                \o Innermost(stream))
          = Range(RegisteredOf(global) \o RegisteredOf(endpoint))
            \cup Range(Innermost(stream))
      BY <2>5, <3>1, RangeConcatenation
    <3>4. Range(RegisteredOf(global) \o RegisteredOf(endpoint))
          = Range(RegisteredOf(global)) \cup Range(RegisteredOf(endpoint))
      BY <2>5, RangeConcatenation
    <3>5. QED
      BY <3>2, <3>3, <3>4
  <2>7. "namespace" \notin Range(Innermost(stream))
    BY DEF Innermost, Range
  <2>8. \E i \in 1..Len(global \o endpoint) :
          (global \o endpoint)[i] = "namespace"
    <3>1. CASE "namespace" \in Range(RegisteredOf(global))
      <4>1. PICK k \in 1..Len(global) : global[k] = "namespace"
        BY <2>4, <3>1, RegisteredOfRange
      <4>2. QED
        BY <2>4, <4>1
    <3>2. CASE "namespace" \in Range(RegisteredOf(endpoint))
      <4>1. PICK k \in 1..Len(endpoint) : endpoint[k] = "namespace"
        BY <2>4, <3>2, RegisteredOfRange
      <4>2. Len(global) + k \in 1..Len(global \o endpoint)
            /\ (global \o endpoint)[Len(global) + k] = "namespace"
        BY <2>4, <4>1
      <4>3. QED
        BY <4>2
    <3>3. QED
      BY <2>3, <2>6, <2>7, <3>1, <3>2
  <2>9. Factory("namespace", badOptions) # "error"
    BY <2>2, <2>8 DEF IInv, ChainFollowsDeclaration
  <2>10. ~NS!BuildFails(nsOpts)
    BY <2>9 DEF Factory, Registered
  <2>11. nsOpts \in NS!Options /\ req.answer \in NS!ApiAnswers
    BY DEF IInv, ChainTypes, Requests
  <2>12. QED
    BY <2>1, <2>10, <2>11, RoundTripNext
<1>6. QED
  BY <1>4, <1>5

(* Spec 4.B and the middlewares' RoundTrippers: a request the client     *)
(* sends upstream carried a validating Bearer token when the chain holds *)
(* the JWT middleware, and a namespace its options accept when it holds  *)
(* the namespace middleware, for every pair of declared lists.            *)
THEOREM UpstreamOnlyIfAuthorizedHolds == Spec => []UpstreamOnlyIfAuthorized
  BY InitIInv, NextIInv, IInvAuthorized, PTL DEF Spec

=============================================================================
