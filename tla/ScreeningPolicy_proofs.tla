----------------------- MODULE ScreeningPolicy_proofs -----------------------
(***************************************************************************)
(* What a permanent suppression rests on, for every set of senders, links, *)
(* templates and messages, and when there is one.  A suppression takes the *)
(* gate whatever the score is, the gate takes signals that each stand for  *)
(* a fact about the message, and the one signal that does not, the         *)
(* repeated campaign, takes two rows of campaign_events, of which the      *)
(* sender's own is one at most.  The other way round, what another sender  *)
(* sent within the window is still on file, so the signal is raised; the   *)
(* template takes two signals more, and the score, which is the sum of the *)
(* weights in whatever order they are added, is at least that of these     *)
(* three.                                                                  *)
(***************************************************************************)
EXTENDS ScreeningPolicy, FiniteSetTheorems, WellFoundedInduction, TLAPS

\* campaign_events: every row is for something really sent.
RowsWereSent == campaigns \subseteq sent

ScreeningInv == RowsWereSent /\ SuppressionIsCorroborated

-----------------------------------------------------------------------------
(* The score, by least counterexample *)

\* A set of natural numbers has a least one.
LEMMA LeastNumber ==
  ASSUME NEW T, T \subseteq Nat, T # {}
  PROVE  \E n \in T : \A m \in T : n <= m
<1> DEFINE R == OpToRel(<, Nat)
<1>1. IsWellFoundedOn(R, Nat)  BY NatLessThanWellFounded
<1>2. \A m, n \in Nat : <<m, n>> \in R <=> m < n  BY DEF OpToRel
<1> HIDE DEF R
<1>3. PICK n \in T : \A m \in T : ~(<<m, n>> \in R)  BY <1>1, WFMin
<1>4. \A m \in T : m \in Nat /\ n \in Nat /\ ~(m < n)  BY <1>2, <1>3, Zenon
<1> QED  BY <1>4

\* The equation of the fold: the score of a set of signals is the weight of one of
\* them and the score of the rest.
First(t) == CHOOSE x \in t : TRUE
Added(g, t) == IF t = {} THEN 0 ELSE First(t).weight + g[t \ {First(t)}]
Adds(g, D) == g = [t \in D |-> Added(g, t)]

\* The subsets of at most n signals.
Small(S, n) == {t \in SUBSET S : Cardinality(t) <= n}

\* A signal less.
LEMMA Smaller ==
  ASSUME NEW S, IsFiniteSet(S), NEW t \in SUBSET S, NEW x \in t
  PROVE  /\ IsFiniteSet(t) /\ t \ {x} \in SUBSET S
         /\ Cardinality(t) \in Nat /\ Cardinality(t \ {x}) \in Nat
         /\ Cardinality(t \ {x}) = Cardinality(t) - 1
<1>1. IsFiniteSet(t)  BY FS_Subset
<1> QED  BY <1>1, FS_RemoveElement, FS_CardinalityType

\* The signal that is taken first is one of the set.
LEMMA Firsts == \A t : t # {} => First(t) \in t
BY DEF First

\* A function satisfies the equation on the subsets of a finite set: the least size at
\* which none did would have one, made of the one for the size before.
LEMMA SumExists ==
  ASSUME NEW S, IsFiniteSet(S)
  PROVE  \E g : Adds(g, SUBSET S)
<1> DEFINE T == {n \in Nat : ~\E g : Adds(g, Small(S, n))}
<1>1. ASSUME T # {} PROVE FALSE
  <2>1. PICK n \in T : \A m \in T : n <= m  BY <1>1, LeastNumber
  <2>2. CASE n = 0
    <3> DEFINE g == [t \in Small(S, 0) |-> 0]
    <3>1. \A t \in Small(S, 0) : t = {}
      <4>1. ASSUME NEW t \in Small(S, 0), t # {} PROVE FALSE
        <5>1. IsFiniteSet(t) /\ t \in SUBSET S /\ Cardinality(t) <= 0
          BY <4>1, FS_Subset DEF Small
        <5>2. Cardinality(t) \in Nat /\ Cardinality(t) # 0
          BY <4>1, <5>1, FS_CardinalityType, FS_EmptySet
        <5> QED  BY <5>1, <5>2
      <4> QED  BY <4>1
    <3>2. g = [t \in Small(S, 0) |-> Added(g, t)]  BY <3>1, Zenon DEF Added
    <3> QED  BY <2>2, <3>2 DEF Adds
  <2>3. CASE n # 0
    <3>1. n \in Nat /\ n - 1 \in Nat /\ n - 1 \notin T  BY <2>1, <2>3
    <3>2. PICK g : Adds(g, Small(S, n - 1))  BY <3>1
    <3> DEFINE h == [t \in Small(S, n) |-> Added(g, t)]
    <3>3. ASSUME NEW t \in Small(S, n - 1) PROVE t \in Small(S, n) /\ h[t] = g[t]
      <4>1. t \in Small(S, n)
        <5>1. t \in SUBSET S /\ Cardinality(t) <= n - 1  BY DEF Small
        <5>2. Cardinality(t) \in Nat  BY <5>1, FS_Subset, FS_CardinalityType
        <5> QED  BY <3>1, <5>1, <5>2 DEF Small
      <4>2. h[t] = Added(g, t)  BY <4>1
      <4>3. g[t] = Added(g, t)  BY <3>2, Zenon DEF Adds
      <4> QED  BY <4>1, <4>2, <4>3
    <3>4. ASSUME NEW t \in Small(S, n), t # {}
          PROVE  t \ {First(t)} \in Small(S, n - 1)
      <4>1. t \in SUBSET S /\ Cardinality(t) <= n  BY DEF Small
      <4>2. First(t) \in t  BY <3>4, Firsts
      <4> QED  BY <3>1, <4>1, <4>2, Smaller DEF Small
    <3> HIDE DEF h
    <3>5. \A t \in Small(S, n) : Added(g, t) = Added(h, t)
      BY <3>3, <3>4 DEF Added
    <3>6. h = [t \in Small(S, n) |-> Added(h, t)]  BY <3>5 DEF h
    <3>7. Adds(h, Small(S, n))  BY <3>6 DEF Adds
    <3> QED  BY <3>7
  <2> QED  BY <2>2, <2>3
<1>2. SUBSET S = Small(S, Cardinality(S))
  <2>1. \A t \in SUBSET S : Cardinality(t) <= Cardinality(S)  BY FS_Subset
  <2> QED  BY <2>1 DEF Small
<1>3. Cardinality(S) \in Nat  BY FS_CardinalityType
<1> HIDE DEF T
<1>4. Cardinality(S) \notin T  BY <1>1
<1> QED  BY <1>2, <1>3, <1>4 DEF T

\* risk_score: the fold is such a function.
LEMMA ScoreIsSum ==
  ASSUME NEW S, IsFiniteSet(S)
  PROVE  \E g : Adds(g, SUBSET S) /\ RiskScore(S) = g[S]
<1> DEFINE iter == CHOOSE g : Adds(g, SUBSET S)
<1>1. Adds(iter, SUBSET S)  BY SumExists
<1>2. RiskScore(S) = iter[S]
  BY Zenon DEF RiskScore, MapThenSumSet, MapThenFoldSet, Adds, Added, First
<1> QED  BY <1>1, <1>2

\* The equation at one set.
LEMMA SumUnfolds ==
  ASSUME NEW S, NEW g, Adds(g, SUBSET S), NEW t \in SUBSET S
  PROVE  /\ t = {} => g[t] = 0
         /\ t # {} => g[t] = First(t).weight + g[t \ {First(t)}]
<1>1. g[t] = Added(g, t)  BY Zenon DEF Adds
<1> QED  BY <1>1 DEF Added

\* Of several subsets of a finite set one has no other that is smaller by a member.
LEMMA SmallestSubset ==
  ASSUME NEW S, IsFiniteSet(S), NEW T, T \subseteq SUBSET S, T # {}
  PROVE  \E t \in T : \A x \in t : t \ {x} \notin T
<1> DEFINE R == StrictSubsetOrdering(S)
<1>1. IsWellFoundedOn(R, SUBSET S)
  BY FS_StrictSubsetOrderingWellFounded, FS_FiniteSubsetsOfFinite
<1>2. \A t, u \in SUBSET S : u \subseteq t /\ u # t => <<u, t>> \in R
  BY DEF StrictSubsetOrdering
<1> HIDE DEF R
<1>3. PICK t \in T : \A u \in T : ~(<<u, t>> \in R)  BY <1>1, WFMin
<1>4. ASSUME NEW x \in t, t \ {x} \in T PROVE FALSE
  <2>1. t \in SUBSET S /\ t \ {x} \in SUBSET S  BY <1>3
  <2>2. t \ {x} \subseteq t /\ t \ {x} # t  BY <1>4
  <2>3. <<t \ {x}, t>> \in R  BY <1>2, <2>1, <2>2
  <2> QED  BY <1>3, <1>4, <2>3
<1> QED  BY <1>4

\* A finite set of signals whose weights are natural numbers.
Weighted(S) == IsFiniteSet(S) /\ \A x \in S : x.weight \in Nat

\* Every partial score is a natural number.
LEMMA SumIsNat ==
  ASSUME NEW S, Weighted(S),
         NEW g, Adds(g, SUBSET S)
  PROVE  \A t \in SUBSET S : g[t] \in Nat
<1> DEFINE T == {t \in SUBSET S : g[t] \notin Nat}
<1>1. ASSUME T # {} PROVE FALSE
  <2>1. PICK t \in T : \A x \in t : t \ {x} \notin T  BY <1>1, SmallestSubset DEF Weighted
  <2>2. t \in SUBSET S /\ g[t] \notin Nat  BY <2>1
  <2>3. t # {} /\ First(t) \in t
    <3>1. t = {} => g[t] = 0  BY <2>2, SumUnfolds, Zenon
    <3> QED  BY <2>2, <3>1, Firsts
  <2>4. t \ {First(t)} \in SUBSET S /\ g[t \ {First(t)}] \in Nat  BY <2>1, <2>2, <2>3
  <2>5. First(t).weight \in Nat  BY <2>2, <2>3 DEF Weighted
  <2>6. g[t] = First(t).weight + g[t \ {First(t)}]  BY <2>2, <2>3, SumUnfolds
  <2>7. \A a, b \in Nat : a + b \in Nat  OBVIOUS
  <2> QED  BY <2>2, <2>4, <2>5, <2>6, <2>7, Zenon
<1> QED  BY <1>1

\* Any member may be the one taken first.
AnyOrder(g, S) == \A t \in SUBSET S : \A x \in t : g[t] = x.weight + g[t \ {x}]

\* The order in which the fold takes the signals makes no difference.
LEMMA AnyFirst ==
  ASSUME NEW S, Weighted(S), NEW g, Adds(g, SUBSET S)
  PROVE  AnyOrder(g, S)
<1> DEFINE Any(t) == \A x \in t : g[t] = x.weight + g[t \ {x}]
           T == {t \in SUBSET S : ~Any(t)}
<1>1. ASSUME T # {} PROVE FALSE
  <2>1. PICK t \in T : \A x \in t : t \ {x} \notin T  BY <1>1, SmallestSubset DEF Weighted
  <2>2. PICK x \in t : g[t] # x.weight + g[t \ {x}]  BY <2>1
  <2>3. PICK y \in t : g[t] = y.weight + g[t \ {y}]
    <3>1. t # {} /\ t \in SUBSET S  BY <2>1, <2>2
    <3>2. g[t] = First(t).weight + g[t \ {First(t)}]  BY <3>1, SumUnfolds
    <3> QED  BY <3>1, <3>2, Firsts, Zenon
  <2>4. x # y /\ t \in SUBSET S  BY <2>1, <2>2, <2>3
  <2>5. \A z \in t : Any(t \ {z})  BY <2>1
  <2>6. x \in t \ {y} /\ y \in t \ {x}  BY <2>4
  <2>7. g[t \ {y}] = x.weight + g[(t \ {y}) \ {x}]  BY <2>5, <2>6
  <2>8. g[t \ {x}] = y.weight + g[(t \ {x}) \ {y}]  BY <2>5, <2>6
  <2>9. (t \ {y}) \ {x} = (t \ {x}) \ {y} /\ (t \ {x}) \ {y} \in SUBSET S  BY <2>4
  <2>10. g[(t \ {x}) \ {y}] \in Nat /\ x.weight \in Nat /\ y.weight \in Nat
    BY <2>4, <2>9, SumIsNat DEF Weighted
  <2>11. \A a, b, c \in Nat : a + (b + c) = b + (a + c)  OBVIOUS
  <2>12. g[t] = y.weight + (x.weight + g[(t \ {x}) \ {y}])  BY <2>3, <2>7, <2>9, Zenon
  <2>13. g[t] = x.weight + (y.weight + g[(t \ {x}) \ {y}])  BY <2>10, <2>11, <2>12, Zenon
  <2> QED  BY <2>2, <2>8, <2>13, Zenon
<1> QED  BY <1>1, Zenon DEF AnyOrder

\* The score is at least the weight of any three of the signals.
LEMMA ThreeSignals ==
  ASSUME NEW S, Weighted(S),
         NEW x \in S, NEW y \in S, NEW z \in S, x # y, y # z, x # z
  PROVE  RiskScore(S) >= x.weight + y.weight + z.weight
<1>1. PICK g : Adds(g, SUBSET S) /\ RiskScore(S) = g[S]  BY ScoreIsSum DEF Weighted
<1>2. AnyOrder(g, S)  BY <1>1, AnyFirst
<1>3. /\ S \in SUBSET S /\ S \ {x} \in SUBSET S /\ (S \ {x}) \ {y} \in SUBSET S
      /\ ((S \ {x}) \ {y}) \ {z} \in SUBSET S
      /\ y \in S \ {x} /\ z \in (S \ {x}) \ {y}
  OBVIOUS
<1>4. g[S] = x.weight + g[S \ {x}]  BY <1>2, <1>3, Zenon DEF AnyOrder
<1>5. g[S \ {x}] = y.weight + g[(S \ {x}) \ {y}]  BY <1>2, <1>3, Zenon DEF AnyOrder
<1>6. g[(S \ {x}) \ {y}] = z.weight + g[((S \ {x}) \ {y}) \ {z}]
  BY <1>2, <1>3, Zenon DEF AnyOrder
<1>7. g[((S \ {x}) \ {y}) \ {z}] \in Nat  BY <1>1, <1>3, SumIsNat
<1>8. x.weight \in Nat /\ y.weight \in Nat /\ z.weight \in Nat  BY DEF Weighted
<1>9. \A a, b, c, d \in Nat : a + (b + (c + d)) >= a + b + c  OBVIOUS
<1>10. RiskScore(S) = x.weight + (y.weight + (z.weight + g[((S \ {x}) \ {y}) \ {z}]))
  BY <1>1, <1>4, <1>5, <1>6, Zenon
<1> QED  BY <1>7, <1>8, <1>9, <1>10, Zenon

-----------------------------------------------------------------------------
(* The signals *)

\* Every signal the gate looks at stands for a fact about the message.
Means(x, f) ==
  /\ x.code \in {"AUTHORED_DENIED_DOMAIN", "BUTTON_DENIED_DOMAIN", "PREVIEW_DENIED_DOMAIN"}
       => Denied \cap UrlsOf(f) # {}
  /\ x.code # "REPEATED_CAMPAIGN"
  /\ x.code = "MULTIPLE_LINKS" => Cardinality(UrlsOf(f)) >= 2
  /\ x.code = "MULTIPLE_LINKS" /\ x.source = "preview" => Cardinality(f.preview) >= 2
  /\ x.code = "QUOTED_MULTIPLE_LINKS" => Cardinality(f.quote) >= 2
  /\ x.code = "FORWARDED_PAYLOAD" => f.forwarded
  /\ x.code = "PROMOTIONAL_LANGUAGE" => f.promo
  /\ x.code = "QUOTED_PROMOTIONAL_LANGUAGE" => f.quotePromo
  /\ x.code = "PREVIEW_PROMOTIONAL_LANGUAGE" => f.previewPromo
  /\ x.code = "PREVIEW_PROMOTIONAL_LANGUAGE" => x.source = "preview"
  /\ x.code \in {"PREVIEW_PROMOTIONAL_LANGUAGE", "PROMOTIONAL_LANGUAGE"} => x.weight = 20
  /\ x.code = "QUOTED_PROMOTIONAL_LANGUAGE" => x.weight = 15
  /\ x.weight \in Nat

\* A conditional signal.
LEMMA Conditional ==
  ASSUME NEW condition, NEW signal, NEW x, x \in If(condition, signal)
  PROVE  condition /\ x = signal
BY Zenon DEF If

\* Each signal a message gives rise to.
LEMMA SignalsMean ==
  ASSUME NEW f, NEW n, NEW x, x \in DetectEvidenceSignals(f, n)
  PROVE  Means(x, f)
<1> DEFINE all == UrlsOf(f) \cup f.quote
           multiple == IF Cardinality(f.preview) >= 2 THEN "preview" ELSE "authored"
<1>1. \/ x \in If(f.opener, Signal("LOW_INFORMATION_OPENER", "authored", 5))
      \/ x \in If(Invites \cap all # {}, Signal("TELEGRAM_INVITE", InviteSource(f), 10))
      \/ x \in If(f.buttonCount = 1 /\ Invites \cap f.buttons = {},
                  Signal("LINK_BUTTON", "button", 10))
      \/ x \in If(f.forwarded, Signal("FORWARDED_PAYLOAD", "behavior", 10))
      \/ x \in If(n >= 1 /\ HasLink(f), Signal("LINK_BURST", "behavior", 10))
      \/ x \in If(Cardinality(UrlsOf(f)) >= 2, Signal("MULTIPLE_LINKS", multiple, 15))
      \/ x \in If(Cardinality(f.quote) >= 2, Signal("QUOTED_MULTIPLE_LINKS", "quoted", 15))
      \/ x \in If(f.quotePromo, Signal("QUOTED_PROMOTIONAL_LANGUAGE", "quoted", 15))
      \/ x \in If(Webs \cap all # {} /\ Invites \cap all # {},
                  Signal("EXTERNAL_AND_TELEGRAM_LINKS", "behavior", 15))
      \/ x \in PromotionSignals(f) \/ x \in ButtonSignals(f) \/ x \in DenylistSignals(f)
  BY SMT DEF DetectEvidenceSignals
<1>2. x \in PromotionSignals(f) =>
        \/ f.promo /\ x = Signal("PROMOTIONAL_LANGUAGE", "authored", 20)
        \/ f.previewPromo /\ x = Signal("PREVIEW_PROMOTIONAL_LANGUAGE", "preview", 20)
  BY Zenon DEF PromotionSignals, If
<1>3. x \in ButtonSignals(f) =>
        x \in {Signal("FORWARDED_LINK_BUTTON", "button", 25),
               Signal("MULTIPLE_LINK_BUTTONS", "button", 25)}
  BY Zenon DEF ButtonSignals, If
<1>4. x \in DenylistSignals(f) =>
        \/ Denied \cap UrlsOf(f) # {} /\ x = Signal(DeniedCode(f), "owner_policy", 100)
        \/ x = Signal("QUOTED_DENIED_DOMAIN", "owner_policy", 30)
  BY Zenon DEF DenylistSignals, If
<1>5. DeniedCode(f) \in {"AUTHORED_DENIED_DOMAIN", "BUTTON_DENIED_DOMAIN",
                         "PREVIEW_DENIED_DOMAIN"}
  BY DEF DeniedCode
<1> HIDE DEF all
<1>6. /\ x.weight \in Nat
      /\ x.code \in {"PROMOTIONAL_LANGUAGE", "PREVIEW_PROMOTIONAL_LANGUAGE"} => x.weight = 20
      /\ x.code = "QUOTED_PROMOTIONAL_LANGUAGE" => x.weight = 15
      /\ x.code = "PREVIEW_PROMOTIONAL_LANGUAGE" => x.source = "preview"
      /\ \/ x.code \in {"LOW_INFORMATION_OPENER", "TELEGRAM_INVITE", "LINK_BUTTON", "LINK_BURST",
                        "EXTERNAL_AND_TELEGRAM_LINKS", "FORWARDED_LINK_BUTTON",
                        "MULTIPLE_LINK_BUTTONS", "QUOTED_DENIED_DOMAIN"}
         \/ x.code = "FORWARDED_PAYLOAD" /\ f.forwarded
         \/ x.code = "MULTIPLE_LINKS" /\ Cardinality(UrlsOf(f)) >= 2 /\ x.source = multiple
         \/ x.code = "QUOTED_MULTIPLE_LINKS" /\ Cardinality(f.quote) >= 2
         \/ x.code = "QUOTED_PROMOTIONAL_LANGUAGE" /\ f.quotePromo
         \/ x.code = "PROMOTIONAL_LANGUAGE" /\ f.promo
         \/ x.code = "PREVIEW_PROMOTIONAL_LANGUAGE" /\ f.previewPromo
         \/ /\ x.code \in {"AUTHORED_DENIED_DOMAIN", "BUTTON_DENIED_DOMAIN", "PREVIEW_DENIED_DOMAIN"}
            /\ Denied \cap UrlsOf(f) # {}
  <2>1. CASE x \in If(f.opener, Signal("LOW_INFORMATION_OPENER", "authored", 5))
    BY <2>1 DEF If, Signal
  <2>2. CASE x \in If(Invites \cap all # {}, Signal("TELEGRAM_INVITE", InviteSource(f), 10))
    BY <2>2 DEF If, Signal
  <2>3. CASE x \in If(f.buttonCount = 1 /\ Invites \cap f.buttons = {},
                      Signal("LINK_BUTTON", "button", 10))
    BY <2>3 DEF If, Signal
  <2>4. CASE x \in If(f.forwarded, Signal("FORWARDED_PAYLOAD", "behavior", 10))
    BY <2>4 DEF If, Signal
  <2>5. CASE x \in If(n >= 1 /\ HasLink(f), Signal("LINK_BURST", "behavior", 10))
    BY <2>5 DEF If, Signal
  <2>6. CASE x \in If(Cardinality(UrlsOf(f)) >= 2, Signal("MULTIPLE_LINKS", multiple, 15))
    BY <2>6 DEF If, Signal
  <2>7. CASE x \in If(Cardinality(f.quote) >= 2, Signal("QUOTED_MULTIPLE_LINKS", "quoted", 15))
    BY <2>7 DEF If, Signal
  <2>8. CASE x \in If(f.quotePromo, Signal("QUOTED_PROMOTIONAL_LANGUAGE", "quoted", 15))
    BY <2>8 DEF If, Signal
  <2>9. CASE x \in If(Webs \cap all # {} /\ Invites \cap all # {},
                      Signal("EXTERNAL_AND_TELEGRAM_LINKS", "behavior", 15))
    BY <2>9 DEF If, Signal
  <2>10. CASE x \in PromotionSignals(f)  BY <2>10, <1>2 DEF Signal
  <2>11. CASE x \in ButtonSignals(f)  BY <2>11, <1>3 DEF Signal
  <2>12. CASE x \in DenylistSignals(f)  BY <2>12, <1>4, <1>5 DEF Signal
  <2> QED  BY <1>1, <2>1, <2>2, <2>3, <2>4, <2>5, <2>6, <2>7, <2>8, <2>9, <2>10, <2>11, <2>12
<1> QED  BY <1>6 DEF Means

\* What the gate takes.
LEMMA GateMeans ==
  ASSUME NEW f, NEW n, NEW signals, NEW repeated \in BOOLEAN,
         signals = DetectEvidenceSignals(f, n) \cup If(repeated, RepeatedCampaignSignal),
         Decide(signals) = "permanent_suppression"
  PROVE  \/ Denied \cap UrlsOf(f) # {}
         \/ /\ repeated
            /\ Cardinality(UrlsOf(f)) >= 2 \/ Cardinality(f.quote) >= 2
            /\ \/ f.forwarded /\ (f.promo \/ f.quotePromo)
               \/ f.previewPromo /\ Cardinality(f.preview) >= 2
<1>1. DestructiveGate(signals)
  <2> DEFINE high == RiskScore(signals) >= 70
             raised == RiskScore(signals) >= 30
  <2>1. Decide(signals) = IF high /\ DestructiveGate(signals) THEN "permanent_suppression"
                          ELSE IF raised THEN "strict_challenge" ELSE "standard_challenge"
    BY Zenon DEF Decide
  <2> HIDE DEF high, raised
  <2> QED  BY <2>1
<1>2. \A x \in signals : \/ Means(x, f)
                         \/ repeated /\ x.code = "REPEATED_CAMPAIGN"
  <2>1. ASSUME NEW x \in signals
        PROVE  Means(x, f) \/ (repeated /\ x.code = "REPEATED_CAMPAIGN")
    <3>1. CASE x \in DetectEvidenceSignals(f, n)  BY <3>1, SignalsMean
    <3>2. CASE x \in If(repeated, RepeatedCampaignSignal)
      <4>1. repeated /\ x = RepeatedCampaignSignal  BY <3>2, Conditional
      <4> QED  BY <4>1 DEF RepeatedCampaignSignal, Signal
    <3> QED  BY <3>1, <3>2
  <2> QED  BY <2>1
<1>3. \A code : code \in CodesOf(signals) <=> \E x \in signals : x.code = code
  BY DEF CodesOf
<1> DEFINE codes == CodesOf(signals)
<1>4. \/ \E code \in codes : code \in {"AUTHORED_DENIED_DOMAIN", "BUTTON_DENIED_DOMAIN",
                                       "PREVIEW_DENIED_DOMAIN"}
      \/ /\ "REPEATED_CAMPAIGN" \in codes
         /\ "MULTIPLE_LINKS" \in codes \/ "QUOTED_MULTIPLE_LINKS" \in codes
         /\ \/ /\ "FORWARDED_PAYLOAD" \in codes
               /\ "PROMOTIONAL_LANGUAGE" \in codes \/ "QUOTED_PROMOTIONAL_LANGUAGE" \in codes
            \/ /\ \E x \in signals : x.code = "PREVIEW_PROMOTIONAL_LANGUAGE"
               /\ \E x \in signals : x.code = "MULTIPLE_LINKS" /\ x.source = "preview"
  BY <1>1 DEF DestructiveGate
<1> HIDE DEF codes
<1>5. \A code \in codes : \E x \in signals : x.code = code  BY <1>3 DEF codes
<1> QED  BY <1>2, <1>4, <1>5 DEF Means

\* Four sets.
LEMMA FourAreFinite ==
  ASSUME NEW a, NEW b, NEW c, NEW d
  PROVE  IsFiniteSet({a, b, c, d})
<1>1. IsFiniteSet({a})  BY FS_Singleton
<1>2. IsFiniteSet({a} \cup {b})  BY <1>1, FS_AddElement
<1>3. IsFiniteSet(({a} \cup {b}) \cup {c})  BY <1>2, FS_AddElement
<1>4. IsFiniteSet((({a} \cup {b}) \cup {c}) \cup {d})  BY <1>3, FS_AddElement
<1>5. {a, b, c, d} = (({a} \cup {b}) \cup {c}) \cup {d}  OBVIOUS
<1> QED  BY <1>4, <1>5

\* A conditional signal is one signal at most.
LEMMA OneIsFinite == \A condition, signal : IsFiniteSet(If(condition, signal))
<1>1. SUFFICES ASSUME NEW condition, NEW signal PROVE IsFiniteSet(If(condition, signal))
  OBVIOUS
<1>2. If(condition, signal) = {signal} \/ If(condition, signal) = {}  BY Zenon DEF If
<1> QED  BY <1>2, FS_Singleton, FS_EmptySet

\* A message gives rise to finitely many signals.
LEMMA SignalsAreFinite ==
  ASSUME NEW f, NEW n
  PROVE  IsFiniteSet(DetectEvidenceSignals(f, n))
<1> DEFINE all == UrlsOf(f) \cup f.quote
           multiple == IF Cardinality(f.preview) >= 2 THEN "preview" ELSE "authored"
           a == If(f.opener, Signal("LOW_INFORMATION_OPENER", "authored", 5))
           b == If(Invites \cap all # {}, Signal("TELEGRAM_INVITE", InviteSource(f), 10))
           c == If(f.buttonCount = 1 /\ Invites \cap f.buttons = {},
                   Signal("LINK_BUTTON", "button", 10))
           d == If(f.forwarded, Signal("FORWARDED_PAYLOAD", "behavior", 10))
           e == If(n >= 1 /\ HasLink(f), Signal("LINK_BURST", "behavior", 10))
           g == If(Cardinality(UrlsOf(f)) >= 2, Signal("MULTIPLE_LINKS", multiple, 15))
           h == If(Cardinality(f.quote) >= 2, Signal("QUOTED_MULTIPLE_LINKS", "quoted", 15))
           i == If(f.quotePromo, Signal("QUOTED_PROMOTIONAL_LANGUAGE", "quoted", 15))
           j == If(Webs \cap all # {} /\ Invites \cap all # {},
                   Signal("EXTERNAL_AND_TELEGRAM_LINKS", "behavior", 15))
           parts == {a, b, c, d, e, g, h, i, j,
                     PromotionSignals(f), ButtonSignals(f), DenylistSignals(f)}
<1>1. DetectEvidenceSignals(f, n) = UNION parts  BY Zenon DEF DetectEvidenceSignals
<1>2. /\ IsFiniteSet(a) /\ IsFiniteSet(b) /\ IsFiniteSet(c) /\ IsFiniteSet(d) /\ IsFiniteSet(e)
      /\ IsFiniteSet(g) /\ IsFiniteSet(h) /\ IsFiniteSet(i) /\ IsFiniteSet(j)
  BY OneIsFinite, Zenon
<1>3. /\ IsFiniteSet(PromotionSignals(f)) /\ IsFiniteSet(ButtonSignals(f))
      /\ IsFiniteSet(DenylistSignals(f))
  BY OneIsFinite, FS_Union, Zenon DEF PromotionSignals, ButtonSignals, DenylistSignals
<1> HIDE DEF a, b, c, d, e, g, h, i, j
<1>4. IsFiniteSet(parts)
  <2> DEFINE p == PromotionSignals(f)
             q == ButtonSignals(f)
             r == DenylistSignals(f)
  <2> HIDE DEF p, q, r
  <2>1. {a, b, c, d, e, g, h, i, j, p, q, r}
          = ({a, b, c, d} \cup {e, g, h, i}) \cup {j, p, q, r}
    BY Zenon
  <2>2. IsFiniteSet({a, b, c, d}) /\ IsFiniteSet({e, g, h, i}) /\ IsFiniteSet({j, p, q, r})
    BY FourAreFinite
  <2>3. IsFiniteSet(({a, b, c, d} \cup {e, g, h, i}) \cup {j, p, q, r})  BY <2>2, FS_Union
  <2> QED  BY <2>1, <2>3 DEF p, q, r
<1>5. \A part \in parts : IsFiniteSet(part)  BY <1>2, <1>3, Zenon
<1> HIDE DEF parts
<1> QED  BY <1>1, <1>4, <1>5, FS_UNION

\* The signals that the facts of a message raise without a condition on its past.
LEMMA FactsRaise ==
  ASSUME NEW f, NEW n
  PROVE  /\ f.forwarded =>
              Signal("FORWARDED_PAYLOAD", "behavior", 10) \in DetectEvidenceSignals(f, n)
         /\ Cardinality(UrlsOf(f)) >= 2 =>
              \E source : /\ Signal("MULTIPLE_LINKS", source, 15) \in DetectEvidenceSignals(f, n)
                          /\ Cardinality(f.preview) >= 2 => source = "preview"
         /\ Cardinality(f.quote) >= 2 =>
              Signal("QUOTED_MULTIPLE_LINKS", "quoted", 15) \in DetectEvidenceSignals(f, n)
<1> DEFINE found == DetectEvidenceSignals(f, n)
           multiple == IF Cardinality(f.preview) >= 2 THEN "preview" ELSE "authored"
<1>1. /\ If(f.forwarded, Signal("FORWARDED_PAYLOAD", "behavior", 10)) \subseteq found
      /\ If(Cardinality(UrlsOf(f)) >= 2, Signal("MULTIPLE_LINKS", multiple, 15)) \subseteq found
      /\ If(Cardinality(f.quote) >= 2, Signal("QUOTED_MULTIPLE_LINKS", "quoted", 15))
           \subseteq found
  BY SMT DEF DetectEvidenceSignals
<1> HIDE DEF found
<1>2. f.forwarded => Signal("FORWARDED_PAYLOAD", "behavior", 10) \in found
  BY <1>1, Zenon DEF If
<1>3. Cardinality(f.quote) >= 2 => Signal("QUOTED_MULTIPLE_LINKS", "quoted", 15) \in found
  BY <1>1, Zenon DEF If
<1>4. Cardinality(UrlsOf(f)) >= 2 => Signal("MULTIPLE_LINKS", multiple, 15) \in found
  BY <1>1, Zenon DEF If
<1>5. Cardinality(f.preview) >= 2 => multiple = "preview"  OBVIOUS
<1> HIDE DEF multiple
<1> QED  BY <1>2, <1>3, <1>4, <1>5, Zenon DEF found

\* The links of the preview are among the links of the message.
LEMMA PreviewLinks ==
  ASSUME NEW f \in Sample, Cardinality(f.preview) >= 2
  PROVE  Cardinality(UrlsOf(f)) >= 2
<1>1. /\ IsFiniteSet(f.text) /\ IsFiniteSet(f.buttons) /\ IsFiniteSet(f.preview)
  BY ScreeningPolicyAssumption
<1>2. IsFiniteSet(f.text \cup f.buttons)  BY <1>1, FS_Union
<1>3. IsFiniteSet((f.text \cup f.buttons) \cup f.preview)  BY <1>1, <1>2, FS_Union
<1>4. f.preview \subseteq UrlsOf(f) /\ IsFiniteSet(UrlsOf(f))  BY <1>3 DEF UrlsOf
<1>5. Cardinality(f.preview) <= Cardinality(UrlsOf(f))  BY <1>4, FS_Subset
<1> QED  BY <1>1, <1>4, <1>5, FS_CardinalityType

\* A template another sender has sent is enough, when the message is forwarded or the
\* template is of its preview: the gate opens, and the weights reach 70.
LEMMA RepeatSuffices ==
  ASSUME NEW f \in Sample, NEW n, NEW p, NEW found, NEW signals,
         found = DetectEvidenceSignals(f, n),
         signals = found \cup {RepeatedCampaignSignal},
         p \in CampaignCandidate(f, found),
         f.forwarded \/ p.source = "preview"
  PROVE  Decide(signals) = "permanent_suppression"
<1> DEFINE rep == RepeatedCampaignSignal
<1>1. /\ rep \in signals /\ rep.code = "REPEATED_CAMPAIGN" /\ rep.weight = 40
      /\ found \subseteq signals
  BY DEF RepeatedCampaignSignal, Signal
<1>2. \A x \in found : Means(x, f)  BY SignalsMean
<1>3. Weighted(signals)
  <2>1. IsFiniteSet(found)  BY SignalsAreFinite
  <2>2. IsFiniteSet(signals)  BY <2>1, FS_AddElement
  <2>3. \A x \in found : x.weight \in Nat  BY <1>2 DEF Means
  <2>4. \A x \in signals : x.weight \in Nat  BY <1>1, <2>3
  <2> QED  BY <2>2, <2>4 DEF Weighted
<1> DEFINE codes == CodesOf(found)
<1>4. \A code : code \in codes <=> \E x \in found : x.code = code  BY DEF CodesOf
<1> HIDE DEF codes, rep
<1> DEFINE Suffices(x, y) ==
             /\ x \in found /\ y \in found /\ x.weight + y.weight >= 30
             /\ x.weight \in Nat /\ y.weight \in Nat
             /\ x.code \in {"MULTIPLE_LINKS", "QUOTED_MULTIPLE_LINKS"}
             /\ \/ /\ y.code \in {"PROMOTIONAL_LANGUAGE", "QUOTED_PROMOTIONAL_LANGUAGE"}
                   /\ \E w \in found : w.code = "FORWARDED_PAYLOAD"
                \/ /\ y.code = "PREVIEW_PROMOTIONAL_LANGUAGE" /\ y.source = "preview"
                   /\ x.code = "MULTIPLE_LINKS" /\ x.source = "preview"
<1>5. \E x, y : Suffices(x, y)
  <2>1. f.forwarded => \E w \in found : w.code = "FORWARDED_PAYLOAD"
    <3>1. Signal("FORWARDED_PAYLOAD", "behavior", 10).code = "FORWARDED_PAYLOAD"  BY DEF Signal
    <3> QED  BY <3>1, FactsRaise
  <2>2. Cardinality(UrlsOf(f)) >= 2 =>
          \E x \in found : /\ x.code = "MULTIPLE_LINKS" /\ x.weight = 15
                           /\ Cardinality(f.preview) >= 2 => x.source = "preview"
    <3>1. SUFFICES ASSUME Cardinality(UrlsOf(f)) >= 2
                   PROVE  \E x \in found : /\ x.code = "MULTIPLE_LINKS" /\ x.weight = 15
                                           /\ Cardinality(f.preview) >= 2 => x.source = "preview"
      OBVIOUS
    <3>2. PICK source : /\ Signal("MULTIPLE_LINKS", source, 15) \in found
                        /\ Cardinality(f.preview) >= 2 => source = "preview"
      BY <3>1, FactsRaise
    <3>3. /\ Signal("MULTIPLE_LINKS", source, 15).code = "MULTIPLE_LINKS"
          /\ Signal("MULTIPLE_LINKS", source, 15).weight = 15
          /\ Signal("MULTIPLE_LINKS", source, 15).source = source
      BY DEF Signal
    <3> QED  BY <3>2, <3>3, Zenon
  <2>3. Cardinality(f.quote) >= 2 =>
          \E x \in found : x.code = "QUOTED_MULTIPLE_LINKS" /\ x.weight = 15
    <3>1. /\ Signal("QUOTED_MULTIPLE_LINKS", "quoted", 15).code = "QUOTED_MULTIPLE_LINKS"
          /\ Signal("QUOTED_MULTIPLE_LINKS", "quoted", 15).weight = 15
      BY DEF Signal
    <3> QED  BY <3>1, FactsRaise, Zenon
  <2>4. \/ /\ "QUOTED_PROMOTIONAL_LANGUAGE" \in codes /\ Cardinality(f.quote) >= 2
           /\ p.source = "quoted"
        \/ /\ "PREVIEW_PROMOTIONAL_LANGUAGE" \in codes /\ Cardinality(f.preview) >= 2
           /\ p.source = "preview"
        \/ /\ "PROMOTIONAL_LANGUAGE" \in codes /\ Cardinality(UrlsOf(f)) >= 2
           /\ p.source = "authored"
    BY DEF CampaignCandidate, Template, codes
  <2>5. CASE /\ "QUOTED_PROMOTIONAL_LANGUAGE" \in codes /\ Cardinality(f.quote) >= 2
             /\ p.source = "quoted"
    <3>1. PICK x \in found : x.code = "QUOTED_MULTIPLE_LINKS" /\ x.weight = 15  BY <2>3, <2>5
    <3>2. PICK y \in found : y.code = "QUOTED_PROMOTIONAL_LANGUAGE"  BY <1>4, <2>5
    <3>3. y.weight = 15  BY <1>2, <3>2 DEF Means
    <3>4. Suffices(x, y)  BY <2>1, <2>5, <3>1, <3>2, <3>3
    <3> QED  BY <3>4
  <2>6. CASE /\ "PREVIEW_PROMOTIONAL_LANGUAGE" \in codes /\ Cardinality(f.preview) >= 2
             /\ p.source = "preview"
    <3>1. PICK x \in found : x.code = "MULTIPLE_LINKS" /\ x.weight = 15 /\ x.source = "preview"
      BY <2>2, <2>6, PreviewLinks
    <3>2. PICK y \in found : y.code = "PREVIEW_PROMOTIONAL_LANGUAGE"  BY <1>4, <2>6
    <3>3. y.weight = 20 /\ y.source = "preview"  BY <1>2, <3>2 DEF Means
    <3>4. Suffices(x, y)  BY <3>1, <3>2, <3>3
    <3> QED  BY <3>4
  <2>7. CASE /\ "PROMOTIONAL_LANGUAGE" \in codes /\ Cardinality(UrlsOf(f)) >= 2
             /\ p.source = "authored"
    <3>1. PICK x \in found : x.code = "MULTIPLE_LINKS" /\ x.weight = 15  BY <2>2, <2>7
    <3>2. PICK y \in found : y.code = "PROMOTIONAL_LANGUAGE"  BY <1>4, <2>7
    <3>3. y.weight = 20  BY <1>2, <3>2 DEF Means
    <3>4. Suffices(x, y)  BY <2>1, <2>7, <3>1, <3>2, <3>3
    <3> QED  BY <3>4
  <2> QED  BY <2>4, <2>5, <2>6, <2>7
<1>6. PICK x, y : Suffices(x, y)  BY <1>5
<1>7. RiskScore(signals) >= 70
  <2>1. x \in signals /\ y \in signals /\ rep # x /\ rep # y /\ x # y  BY <1>1, <1>6
  <2>2. RiskScore(signals) >= rep.weight + x.weight + y.weight
    BY <1>1, <1>3, <2>1, ThreeSignals
  <2>3. RiskScore(signals) \in Nat
    <3>1. PICK g : Adds(g, SUBSET signals) /\ RiskScore(signals) = g[signals]
      BY <1>3, ScoreIsSum DEF Weighted
    <3>2. g[signals] \in Nat  BY <1>3, <3>1, SumIsNat
    <3> QED  BY <3>1, <3>2
  <2> QED  BY <1>1, <1>6, <2>2, <2>3
<1>8. DestructiveGate(signals)
  <2>1. \A code : code \in CodesOf(signals) <=> \E z \in signals : z.code = code
    BY DEF CodesOf
  <2>2. "REPEATED_CAMPAIGN" \in CodesOf(signals)  BY <1>1, <2>1
  <2>3. x.code \in CodesOf(signals) /\ y.code \in CodesOf(signals)  BY <1>1, <1>6, <2>1
  <2>4. (\E w \in found : w.code = "FORWARDED_PAYLOAD") =>
          "FORWARDED_PAYLOAD" \in CodesOf(signals)
    BY <1>1, <2>1
  <2> DEFINE all == CodesOf(signals)
  <2>5. /\ "REPEATED_CAMPAIGN" \in all
        /\ "MULTIPLE_LINKS" \in all \/ "QUOTED_MULTIPLE_LINKS" \in all
        /\ \/ /\ "FORWARDED_PAYLOAD" \in all
              /\ "PROMOTIONAL_LANGUAGE" \in all \/ "QUOTED_PROMOTIONAL_LANGUAGE" \in all
           \/ /\ \E z \in signals : z.code = "PREVIEW_PROMOTIONAL_LANGUAGE" /\ z.source = "preview"
              /\ \E z \in signals : z.code = "MULTIPLE_LINKS" /\ z.source = "preview"
    BY <1>1, <1>6, <2>2, <2>3, <2>4
  <2> QED  BY <2>5 DEF DestructiveGate
<1> QED  BY <1>7, <1>8, Zenon DEF Decide

-----------------------------------------------------------------------------
(* campaign_events *)

\* campaign_candidate: one template, or none.
LEMMA OneTemplate ==
  ASSUME NEW f, NEW signals
  PROVE  \/ CampaignCandidate(f, signals) = {}
         \/ \E p : CampaignCandidate(f, signals) = {p}
BY Zenon DEF CampaignCandidate, Template

\* A second observation within the window is another sender's.
LEMMA OtherRow ==
  ASSUME NEW p, NEW s, NEW rows, rows = ObserveCampaign(p, s), Observations(rows, p) >= 2
  PROVE  \E c \in campaigns : /\ c.print = p /\ c.sender # s
                              /\ c.at >= clock - CampaignWindow
<1> DEFINE new == [print |-> p, sender |-> s, at |-> clock]
           own == {c \in rows : c.print = p}
<1>1. SUFFICES ASSUME \A c \in campaigns : ~(/\ c.print = p /\ c.sender # s
                                            /\ c.at >= clock - CampaignWindow)
               PROVE  FALSE
  BY Zenon
<1>2. new.print = p  OBVIOUS
<1> HIDE DEF new
<1>3. rows = {c \in campaigns : c.at >= clock - CampaignWindow
                                /\ ~(c.print = p /\ c.sender = s)} \cup {new}
  BY DEF ObserveCampaign, new
<1>4. own = {new}  BY <1>1, <1>2, <1>3, Zenon
<1>5. Cardinality(own) = 1  BY <1>4, FS_Singleton
<1> QED  BY <1>5 DEF Observations

-----------------------------------------------------------------------------
(* The steps *)

\* A message is screened: its own row is of what it has just sent, and a repetition
\* is of what another sender has.
LEMMA ScreenStep ==
  ASSUME ScreeningInv, NEW s \in Senders, NEW f \in Sample, Screen(s, f)
  PROVE  ScreeningInv'
<1> DEFINE found == DetectEvidenceSignals(f, RecentLinks(s))
           prints == CampaignCandidate(f, found)
           rows == IF prints = {} THEN campaigns
                   ELSE UNION {ObserveCampaign(p, s) : p \in prints}
           repeated == \E p \in prints : Observations(rows, p) >= 2
           signals == found \cup If(repeated, RepeatedCampaignSignal)
           action == Decide(signals)
<1>1. /\ campaigns' = rows
      /\ verdict' = [sender |-> s, facts |-> f, prints |-> prints, action |-> action]
      /\ sent' = sent \cup {[print |-> p, sender |-> s, at |-> clock] : p \in prints}
      /\ clock' = clock
  BY Zenon DEF Screen
<1>2. prints = {} \/ \E p : prints = {p}  BY OneTemplate
<1>3. campaigns \subseteq sent  BY DEF ScreeningInv, RowsWereSent
<1>4. \A p : prints = {p} => rows = ObserveCampaign(p, s)
  <2> HIDE DEF prints
  <2>1. SUFFICES ASSUME NEW p, prints = {p} PROVE rows = ObserveCampaign(p, s)
    OBVIOUS
  <2>2. {ObserveCampaign(q, s) : q \in prints} = {ObserveCampaign(p, s)}  BY <2>1, Zenon
  <2>3. UNION {ObserveCampaign(p, s)} = ObserveCampaign(p, s)  BY Zenon
  <2> QED  BY <2>1, <2>2, <2>3, Zenon
<1>5. repeated => \E c \in campaigns : /\ c.print \in prints /\ c.sender # s
                                       /\ c.at >= clock - CampaignWindow
  <2> HIDE DEF prints, rows
  <2>1. SUFFICES ASSUME NEW p \in prints, Observations(rows, p) >= 2
                 PROVE  \E c \in campaigns : /\ c.print \in prints /\ c.sender # s
                                             /\ c.at >= clock - CampaignWindow
    BY Zenon
  <2>2. prints = {p}  BY <2>1, <1>2
  <2>3. \E c \in campaigns : /\ c.print = p /\ c.sender # s
                             /\ c.at >= clock - CampaignWindow
    BY <2>1, <2>2, <1>4, OtherRow
  <2> QED  BY <2>2, <2>3
<1>6. action = "permanent_suppression" =>
        \/ Denied \cap UrlsOf(f) # {}
        \/ /\ repeated
           /\ Cardinality(UrlsOf(f)) >= 2 \/ Cardinality(f.quote) >= 2
           /\ \/ f.forwarded /\ (f.promo \/ f.quotePromo)
              \/ f.previewPromo /\ Cardinality(f.preview) >= 2
  <2>1. repeated \in BOOLEAN  OBVIOUS
  <2> HIDE DEF repeated
  <2> QED  BY <2>1, GateMeans
<1> HIDE DEF found, prints, rows, repeated, signals, action
<1>7. RowsWereSent'
  <2>1. CASE prints = {}
    <3>1. rows = campaigns  BY <2>1, Zenon DEF rows
    <3> QED  BY <3>1, <1>1, <1>3 DEF RowsWereSent
  <2>2. CASE \E p : prints = {p}
    <3>1. PICK p : prints = {p}  BY <2>2
    <3>2. rows \subseteq campaigns \cup {[print |-> p, sender |-> s, at |-> clock]}
      BY <3>1, <1>4 DEF ObserveCampaign
    <3>3. [print |-> p, sender |-> s, at |-> clock] \in sent'
      BY <3>1, <1>1, Zenon
    <3> QED  BY <3>2, <3>3, <1>1, <1>3 DEF RowsWereSent
  <2> QED  BY <2>1, <2>2, <1>2
<1>8. /\ verdict'.sender = s /\ verdict'.facts = f /\ verdict'.prints = prints
      /\ verdict'.action = action
  BY <1>1
<1>9. campaigns \subseteq sent'  BY <1>1, <1>3
<1>10. repeated => SentByAnother'
  <2>1. SUFFICES ASSUME NEW c \in campaigns, c.print \in prints, c.sender # s,
                        c.at >= clock - CampaignWindow
                 PROVE  SentByAnother'
    BY <1>5
  <2> QED  BY <2>1, <1>1, <1>8, <1>9 DEF SentByAnother
<1>11. SuppressionIsCorroborated'
  BY <1>6, <1>8, <1>10 DEF SuppressionIsCorroborated
<1> QED  BY <1>7, <1>11 DEF ScreeningInv

\* An erased sender is gone from both tables, and nothing is said of the last message.
LEMMA ForgetStep ==
  ASSUME ScreeningInv, NEW s \in Senders, Forget(s)
  PROVE  ScreeningInv'
<1>1. RowsWereSent'  BY DEF ScreeningInv, RowsWereSent, Forget
<1>2. SuppressionIsCorroborated'
  BY DEF Forget, SuppressionIsCorroborated, NoVerdict
<1> QED  BY <1>1, <1>2 DEF ScreeningInv

\* What a retention pass deletes was counted when the message was judged.
LEMMA PruneStep ==
  ASSUME ScreeningInv, Prune
  PROVE  ScreeningInv'
<1>1. RowsWereSent'  BY DEF ScreeningInv, RowsWereSent, Prune
<1>2. SuppressionIsCorroborated'
  BY Zenon DEF ScreeningInv, Prune, SuppressionIsCorroborated, SentByAnother
<1> QED  BY <1>1, <1>2 DEF ScreeningInv

\* Time passes, and nothing is said of the last message.
LEMMA TickStep ==
  ASSUME ScreeningInv, Tick
  PROVE  ScreeningInv'
<1>1. RowsWereSent'  BY DEF ScreeningInv, RowsWereSent, Tick
<1>2. SuppressionIsCorroborated'
  BY DEF Tick, SuppressionIsCorroborated, NoVerdict
<1> QED  BY <1>1, <1>2 DEF ScreeningInv

\* A dialog is given up for good only for a denied link outside the quote, or when
\* another sender has sent the same template within the window and the message is
\* promotional, has several links and is forwarded or carried by its preview: for
\* every denylist, window, sample of messages and number of senders.
THEOREM SuppressionsAreCorroborated == Spec => []SuppressionIsCorroborated
<1>1. Init => ScreeningInv
  BY DEF Init, ScreeningInv, RowsWereSent, SuppressionIsCorroborated
<1>2. ScreeningInv /\ [Next]_vars => ScreeningInv'
  <2>1. SUFFICES ASSUME ScreeningInv, [Next]_vars PROVE ScreeningInv'
    OBVIOUS
  <2>2. ASSUME NEW s \in Senders, Forget(s) PROVE ScreeningInv'
    BY <2>1, <2>2, ForgetStep
  <2>3. ASSUME NEW s \in Senders, NEW f \in Sample, Screen(s, f) PROVE ScreeningInv'
    BY <2>1, <2>3, ScreenStep
  <2>4. CASE Prune  BY <2>1, <2>4, PruneStep
  <2>5. CASE Tick  BY <2>1, <2>5, TickStep
  <2>6. CASE UNCHANGED vars
    BY <2>1, <2>6, Zenon DEF vars, ScreeningInv, RowsWereSent, SuppressionIsCorroborated,
                             SentByAnother
  <2> QED  BY <2>1, <2>2, <2>3, <2>4, <2>5, <2>6 DEF Next
<1>3. ScreeningInv => SuppressionIsCorroborated  BY DEF ScreeningInv
<1> QED  BY <1>1, <1>2, <1>3, PTL DEF Spec

-----------------------------------------------------------------------------
(* The second of two is given up *)

\* No row is of a later time than now.
InOrder == clock \in Nat /\ \A c \in campaigns \cup sent : c.at \in Int /\ c.at <= clock

\* campaign_events: what was sent within the window is on file, with the time it was
\* last sent.
OnFile ==
  \A c \in sent : c.at >= clock - CampaignWindow =>
    \E r \in campaigns : r.print = c.print /\ r.sender = c.sender /\ r.at >= c.at

RepeatInv == IsFiniteSet(campaigns) /\ InOrder /\ OnFile /\ RepeatIsSuppressed

\* A row of another sender and the one just written are two observations.
LEMMA TwoRows ==
  ASSUME NEW p, NEW s, NEW rows, rows = ObserveCampaign(p, s), IsFiniteSet(campaigns),
         NEW r \in campaigns, r.print = p, r.sender # s, r.at >= clock - CampaignWindow
  PROVE  Observations(rows, p) >= 2
<1> DEFINE new == [print |-> p, sender |-> s, at |-> clock]
           kept == {c \in campaigns : c.at >= clock - CampaignWindow
                                      /\ ~(c.print = p /\ c.sender = s)}
           own == {c \in rows : c.print = p}
<1>1. new.print = p /\ new.sender = s  OBVIOUS
<1> HIDE DEF new
<1>2. rows = kept \cup {new}  BY DEF ObserveCampaign, new
<1>3. IsFiniteSet(kept)  BY FS_Subset
<1>4. IsFiniteSet(rows)  BY <1>2, <1>3, FS_AddElement
<1>5. IsFiniteSet(own)  BY <1>4, FS_Subset
<1>6. r \in own /\ new \in own /\ r # new  BY <1>1, <1>2, Zenon
<1> HIDE DEF own
<1>7. Cardinality({r} \cup {new}) = 2
  <2>1. IsFiniteSet({r}) /\ Cardinality({r}) = 1  BY FS_Singleton
  <2>2. new \notin {r}  BY <1>6
  <2> QED  BY <2>1, <2>2, FS_AddElement
<1>8. Cardinality({r} \cup {new}) <= Cardinality(own)  BY <1>5, <1>6, FS_Subset
<1>9. Cardinality(own) \in Nat  BY <1>5, FS_CardinalityType
<1> QED  BY <1>7, <1>8, <1>9 DEF Observations, own

\* A message is screened: what another sender sent within the window is still on file,
\* and with the row just written that makes two.
LEMMA ScreenRepeats ==
  ASSUME RepeatInv, NEW s \in Senders, NEW f \in Sample, Screen(s, f)
  PROVE  RepeatInv'
<1> DEFINE found == DetectEvidenceSignals(f, RecentLinks(s))
           prints == CampaignCandidate(f, found)
           rows == IF prints = {} THEN campaigns
                   ELSE UNION {ObserveCampaign(p, s) : p \in prints}
           repeated == \E p \in prints : Observations(rows, p) >= 2
           signals == found \cup If(repeated, RepeatedCampaignSignal)
           action == Decide(signals)
           New(p) == [print |-> p, sender |-> s, at |-> clock]
           Kept(p) == {c \in campaigns : c.at >= clock - CampaignWindow
                                         /\ ~(c.print = p /\ c.sender = s)}
<1>1. /\ campaigns' = rows
      /\ verdict' = [sender |-> s, facts |-> f, prints |-> prints, action |-> action]
      /\ sent' = sent \cup {New(p) : p \in prints}
      /\ clock' = clock
  BY Zenon DEF Screen
<1>2. prints = {} \/ \E p : prints = {p}  BY OneTemplate
<1>3. \A p : prints = {p} => rows = ObserveCampaign(p, s)
  <2> HIDE DEF prints
  <2>1. SUFFICES ASSUME NEW p, prints = {p} PROVE rows = ObserveCampaign(p, s)
    OBVIOUS
  <2>2. {ObserveCampaign(q, s) : q \in prints} = {ObserveCampaign(p, s)}  BY <2>1, Zenon
  <2>3. UNION {ObserveCampaign(p, s)} = ObserveCampaign(p, s)  BY Zenon
  <2> QED  BY <2>1, <2>2, <2>3, Zenon
<1>4. \A p : ObserveCampaign(p, s) = Kept(p) \cup {New(p)}  BY Zenon DEF ObserveCampaign
<1>5. \A p : New(p).print = p /\ New(p).sender = s /\ New(p).at = clock  OBVIOUS
<1>6. clock \in Int /\ CampaignWindow \in Nat
  BY ScreeningPolicyAssumption DEF RepeatInv, InOrder
<1>7. IsFiniteSet(campaigns) /\ InOrder /\ OnFile  BY DEF RepeatInv
<1>8. repeated /\ (\E p \in prints : f.forwarded \/ p.source = "preview") =>
        action = "permanent_suppression"
  <2> HIDE DEF repeated, found
  <2>1. SUFFICES ASSUME repeated, NEW p \in prints, f.forwarded \/ p.source = "preview"
                 PROVE  action = "permanent_suppression"
    BY Zenon
  <2>2. signals = found \cup {RepeatedCampaignSignal}  BY <2>1, Zenon DEF If
  <2> HIDE DEF signals
  <2> QED  BY <2>1, <2>2, RepeatSuffices DEF found
<1>9. \A p \in prints : \A r \in campaigns :
        r.print = p /\ r.sender # s /\ r.at >= clock - CampaignWindow => repeated
  <2> HIDE DEF prints, rows
  <2>1. SUFFICES ASSUME NEW p \in prints, NEW r \in campaigns, r.print = p, r.sender # s,
                        r.at >= clock - CampaignWindow
                 PROVE  repeated
    BY Zenon
  <2>2. rows = ObserveCampaign(p, s)  BY <2>1, <1>2, <1>3
  <2>3. Observations(rows, p) >= 2  BY <2>1, <2>2, <1>7, TwoRows
  <2> QED  BY <2>1, <2>3
<1> HIDE DEF found, prints, rows, repeated, signals, action, New, Kept
<1>10. prints = {} => rows = campaigns  BY Zenon DEF rows
<1>11. ASSUME prints = {}
       PROVE  IsFiniteSet(campaigns') /\ InOrder' /\ OnFile'
  <2>1. campaigns' = campaigns /\ sent' = sent /\ clock' = clock  BY <1>1, <1>10, <1>11
  <2> QED  BY <2>1, <1>7 DEF InOrder, OnFile
<1>12. ASSUME NEW p, prints = {p}
       PROVE  IsFiniteSet(campaigns') /\ InOrder' /\ OnFile'
  <2>1. campaigns' = Kept(p) \cup {New(p)}  BY <1>1, <1>3, <1>4, <1>12
  <2>2. sent' = sent \cup {New(p)}  BY <1>1, <1>12, Zenon
  <2>3. Kept(p) \subseteq campaigns  BY DEF Kept
  <2>4. IsFiniteSet(campaigns')
    <3>1. IsFiniteSet(Kept(p))  BY <2>3, <1>7, FS_Subset
    <3> QED  BY <3>1, <2>1, FS_AddElement
  <2>5. InOrder'  BY <2>1, <2>2, <2>3, <1>1, <1>5, <1>6, <1>7 DEF InOrder
  <2>6. ASSUME NEW c \in sent', c.at >= clock - CampaignWindow
        PROVE  \E r \in campaigns' : r.print = c.print /\ r.sender = c.sender /\ r.at >= c.at
    <3>1. CASE c.print = p /\ c.sender = s
      <4>1. c.at \in Int /\ c.at <= clock  BY <2>5, <1>1 DEF InOrder
      <4>2. New(p) \in campaigns'  BY <2>1
      <4> QED  BY <3>1, <4>1, <4>2, <1>5, <1>6
    <3>2. CASE ~(c.print = p /\ c.sender = s)
      <4>1. c \in sent  BY <3>2, <2>2, <1>5
      <4>2. PICK r \in campaigns : r.print = c.print /\ r.sender = c.sender /\ r.at >= c.at
        BY <4>1, <2>6, <1>7 DEF OnFile
      <4>3. r.at >= clock - CampaignWindow
        <5>1. r.at \in Int /\ c.at \in Int  BY <4>1, <4>2, <1>7 DEF InOrder
        <5> QED  BY <5>1, <4>2, <2>6, <1>6
      <4>4. r \in Kept(p)  BY <4>2, <4>3, <3>2 DEF Kept
      <4> QED  BY <4>2, <4>4, <2>1
    <3> QED  BY <3>1, <3>2
  <2>7. OnFile'  BY <2>6, <1>1 DEF OnFile
  <2> QED  BY <2>4, <2>5, <2>7
<1>13. IsFiniteSet(campaigns') /\ InOrder' /\ OnFile'  BY <1>2, <1>11, <1>12
<1>14. /\ verdict'.sender = s /\ verdict'.facts = f /\ verdict'.prints = prints
       /\ verdict'.action = action
  BY <1>1
<1>15. SentByAnother' => repeated
  <2>1. SUFFICES ASSUME NEW c \in sent', c.sender # s, c.print \in prints,
                        c.at >= clock - CampaignWindow
                 PROVE  repeated
    BY <1>1, <1>14 DEF SentByAnother
  <2>2. c \in sent  BY <2>1, <1>1, <1>5
  <2>3. PICK r \in campaigns : r.print = c.print /\ r.sender = c.sender /\ r.at >= c.at
    BY <2>1, <2>2, <1>7 DEF OnFile
  <2>4. r.at >= clock - CampaignWindow
    <3>1. r.at \in Int /\ c.at \in Int  BY <2>2, <2>3, <1>7 DEF InOrder
    <3> QED  BY <3>1, <2>1, <2>3, <1>6
  <2> QED  BY <2>1, <2>3, <2>4, <1>9
<1>16. SentByAnother' => \E p : p \in prints
  BY <1>14 DEF SentByAnother
<1>17. RepeatIsSuppressed'
  BY <1>8, <1>14, <1>15, <1>16, Zenon DEF RepeatIsSuppressed
<1> QED  BY <1>13, <1>17 DEF RepeatInv

\* An erased sender is gone from the table and from what is said to be sent.
LEMMA ForgetRepeats ==
  ASSUME RepeatInv, NEW s \in Senders, Forget(s)
  PROVE  RepeatInv'
<1>1. /\ IsFiniteSet(campaigns') /\ InOrder'
  BY FS_Subset DEF RepeatInv, InOrder, Forget
<1>2. OnFile'  BY DEF RepeatInv, OnFile, Forget
<1>3. RepeatIsSuppressed'  BY DEF Forget, RepeatIsSuppressed, NoVerdict
<1> QED  BY <1>1, <1>2, <1>3 DEF RepeatInv

\* A retention pass keeps every row that is within the window.
LEMMA PruneRepeats ==
  ASSUME RepeatInv, Prune
  PROVE  RepeatInv'
<1>1. /\ clock' = clock /\ sent' = sent /\ verdict' = verdict
      /\ campaigns' = {c \in campaigns : c.at >= clock - CampaignWindow}
  BY DEF Prune
<1>2. clock \in Int /\ CampaignWindow \in Nat
  BY ScreeningPolicyAssumption DEF RepeatInv, InOrder
<1>3. IsFiniteSet(campaigns')  BY <1>1, FS_Subset DEF RepeatInv
<1>4. InOrder'  BY <1>1 DEF RepeatInv, InOrder
<1>5. ASSUME NEW c \in sent, c.at >= clock - CampaignWindow
      PROVE  \E r \in campaigns' : r.print = c.print /\ r.sender = c.sender /\ r.at >= c.at
  <2>1. PICK r \in campaigns : r.print = c.print /\ r.sender = c.sender /\ r.at >= c.at
    BY <1>5 DEF RepeatInv, OnFile
  <2>2. r.at \in Int /\ c.at \in Int  BY <2>1 DEF RepeatInv, InOrder
  <2>3. r \in campaigns'  BY <1>1, <1>2, <1>5, <2>1, <2>2
  <2> QED  BY <2>1, <2>3
<1>6. OnFile'  BY <1>1, <1>5 DEF OnFile
<1>7. RepeatIsSuppressed'
  BY <1>1, Zenon DEF RepeatInv, RepeatIsSuppressed, SentByAnother
<1> QED  BY <1>3, <1>4, <1>6, <1>7 DEF RepeatInv

\* Time passes, and the window with it.
LEMMA TickRepeats ==
  ASSUME RepeatInv, Tick
  PROVE  RepeatInv'
<1>1. clock' = clock + 1 /\ sent' = sent /\ campaigns' = campaigns  BY DEF Tick
<1>2. clock \in Int /\ CampaignWindow \in Nat
  BY ScreeningPolicyAssumption DEF RepeatInv, InOrder
<1>3. IsFiniteSet(campaigns')  BY <1>1 DEF RepeatInv
<1>4. InOrder'  BY <1>1 DEF RepeatInv, InOrder
<1>5. \A c \in sent : c.at >= clock' - CampaignWindow => c.at >= clock - CampaignWindow
  BY <1>1, <1>2 DEF RepeatInv, InOrder
<1>6. OnFile'  BY <1>1, <1>5 DEF RepeatInv, OnFile
<1>7. RepeatIsSuppressed'  BY DEF Tick, RepeatIsSuppressed, NoVerdict
<1> QED  BY <1>3, <1>4, <1>6, <1>7 DEF RepeatInv

\* Whatever was pruned or sent in between, and however the weights are added up, the
\* second sender of a template within the window is given up, when the message is
\* forwarded or its preview carries the promotion and the links.
THEOREM RepeatsAreSuppressed == Spec => []RepeatIsSuppressed
<1>1. Init => RepeatInv
  BY FS_EmptySet DEF Init, RepeatInv, InOrder, OnFile, RepeatIsSuppressed
<1>2. RepeatInv /\ [Next]_vars => RepeatInv'
  <2>1. SUFFICES ASSUME RepeatInv, [Next]_vars PROVE RepeatInv'
    OBVIOUS
  <2>2. ASSUME NEW s \in Senders, Forget(s) PROVE RepeatInv'
    BY <2>1, <2>2, ForgetRepeats
  <2>3. ASSUME NEW s \in Senders, NEW f \in Sample, Screen(s, f) PROVE RepeatInv'
    BY <2>1, <2>3, ScreenRepeats
  <2>4. CASE Prune  BY <2>1, <2>4, PruneRepeats
  <2>5. CASE Tick  BY <2>1, <2>5, TickRepeats
  <2>6. CASE UNCHANGED vars
    BY <2>1, <2>6, Zenon DEF vars, RepeatInv, InOrder, OnFile, RepeatIsSuppressed, SentByAnother
  <2> QED  BY <2>1, <2>2, <2>3, <2>4, <2>5, <2>6 DEF Next
<1>3. RepeatInv => RepeatIsSuppressed  BY DEF RepeatInv
<1> QED  BY <1>1, <1>2, <1>3, PTL DEF Spec
===============================================================================
