--------------------------- MODULE ScreeningPolicy ---------------------------
(***************************************************************************)
(* How a message of a sender who is not decided yet is judged: the         *)
(* evidence signals of rules.py, the two tables they depend on             *)
(* (link_events and campaign_events, shared by all senders), and the       *)
(* decision of PolicyEngine.  Gatekeeper.tla leaves the outcome open; here *)
(* it is computed.                                                         *)
(*                                                                         *)
(* A link stands for its normalised address; all domains are different.    *)
(* Text is kept as the template campaign_template_text leaves of it and as *)
(* whether it is promotional.                                              *)
(***************************************************************************)
EXTENDS Integers, FiniteSets, FiniteSetsExt

CONSTANTS
  Senders,
  Invites, Webs,   \* Telegram invitation links and external web links, the kinds
                   \* of telegram_link_kind a signal looks at
  Denied,          \* links whose domain is on the owner's denylist
  Templates,       \* normalised texts
  Sample,          \* the messages that are sent, a subset of Facts
  CampaignWindow,  \* CAMPAIGN_WINDOW_SECONDS, in units of the clock
  LinkWindow,      \* the 60 seconds of recent_link_messages
  MaxTime,         \* bound: the last clock value
  MaxMessages,     \* bound: messages screened
  Forgetting       \* whether the operator forgets senders

Links == Invites \cup Webs

\* MessageFacts.  body is the template of text, preview and button texts
\* together, quoted the template of the quoted text.
Facts == [text : SUBSET Links, buttons : SUBSET Links, preview : SUBSET Links,
          quote : SUBSET Links, buttonCount : Nat, opener : BOOLEAN,
          promo : BOOLEAN, previewPromo : BOOLEAN, quotePromo : BOOLEAN,
          forwarded : BOOLEAN, body : Templates, quoted : Templates]

ASSUME ScreeningPolicyAssumption ==
  /\ Denied \subseteq Webs
  /\ Invites \cap Webs = {}
  /\ \A f \in Sample :
       /\ f.buttonCount \in Nat /\ Cardinality(f.buttons) <= f.buttonCount
       /\ \A urls \in {f.text, f.buttons, f.preview, f.quote} : IsFiniteSet(urls)
  /\ CampaignWindow \in Nat /\ LinkWindow \in Nat
  /\ MaxTime \in Nat /\ MaxMessages \in Nat /\ Forgetting \in BOOLEAN

VARIABLES
  clock,
  links,      \* link_events; rows of one sender and time are one
  campaigns,  \* campaign_events: at most one row for a fingerprint and a sender
  screened,   \* messages screened so far
  verdict,    \* the last message, its sender, and what was decided
  sent        \* history: what each sender has sent, and when

vars == <<clock, links, campaigns, screened, verdict, sent>>

-----------------------------------------------------------------------------
(* rules.py *)

\* facts_from_message: urls holds all links outside the quote.
UrlsOf(f) == f.text \cup f.buttons \cup f.preview
HasLink(f) == UrlsOf(f) # {} \/ f.buttonCount > 0

Signal(code, source, weight) == [code |-> code, source |-> source, weight |-> weight]
If(condition, signal) == IF condition THEN {signal} ELSE {}

InviteSource(f) ==
  IF Invites \cap (UrlsOf(f) \ f.preview) # {} THEN "authored"
  ELSE IF Invites \cap f.preview # {} THEN "preview" ELSE "quoted"

DeniedCode(f) ==
  IF Denied \cap f.buttons # {} THEN "BUTTON_DENIED_DOMAIN"
  ELSE IF Denied \cap f.preview # {} THEN "PREVIEW_DENIED_DOMAIN"
       ELSE "AUTHORED_DENIED_DOMAIN"

\* The tail of detect_evidence_signals: promotion, buttons, the denylist.
PromotionSignals(f) ==
  If(f.promo, Signal("PROMOTIONAL_LANGUAGE", "authored", 20))
  \cup If(~f.promo /\ f.previewPromo,
          Signal("PREVIEW_PROMOTIONAL_LANGUAGE", "preview", 20))
ButtonSignals(f) ==
  If(f.forwarded /\ f.buttonCount > 0, Signal("FORWARDED_LINK_BUTTON", "button", 25))
  \cup If(~(f.forwarded /\ f.buttonCount > 0) /\ f.buttonCount >= 2,
          Signal("MULTIPLE_LINK_BUTTONS", "button", 25))
DenylistSignals(f) ==
  LET denied == Denied \cap UrlsOf(f) # {}
  IN  If(denied, Signal(DeniedCode(f), "owner_policy", 100))
      \cup If(~denied /\ Denied \cap f.quote # {},
              Signal("QUOTED_DENIED_DOMAIN", "owner_policy", 30))

\* detect_evidence_signals
DetectEvidenceSignals(f, previousLinks) ==
  LET all == UrlsOf(f) \cup f.quote
  IN  UNION
      {If(f.opener, Signal("LOW_INFORMATION_OPENER", "authored", 5)),
       If(Invites \cap all # {}, Signal("TELEGRAM_INVITE", InviteSource(f), 10)),
       If(f.buttonCount = 1 /\ Invites \cap f.buttons = {},
          Signal("LINK_BUTTON", "button", 10)),
       If(f.forwarded, Signal("FORWARDED_PAYLOAD", "behavior", 10)),
       If(previousLinks >= 1 /\ HasLink(f), Signal("LINK_BURST", "behavior", 10)),
       If(Cardinality(UrlsOf(f)) >= 2,
          Signal("MULTIPLE_LINKS",
                 IF Cardinality(f.preview) >= 2 THEN "preview" ELSE "authored", 15)),
       If(Cardinality(f.quote) >= 2, Signal("QUOTED_MULTIPLE_LINKS", "quoted", 15)),
       If(f.quotePromo, Signal("QUOTED_PROMOTIONAL_LANGUAGE", "quoted", 15)),
       If(Webs \cap all # {} /\ Invites \cap all # {},
          Signal("EXTERNAL_AND_TELEGRAM_LINKS", "behavior", 15)),
       PromotionSignals(f), ButtonSignals(f), DenylistSignals(f)}

RepeatedCampaignSignal == Signal("REPEATED_CAMPAIGN", "behavior", 40)
CodesOf(signals) == {s.code : s \in signals}

\* campaign_link_kinds: how many links of each kind.
Kinds(urls) == [invites |-> Cardinality(urls \cap Invites),
                webs |-> Cardinality(urls \cap Webs)]
Template(source, text, urls) ==
  {[source |-> source, text |-> text, kinds |-> Kinds(urls)]}

\* campaign_candidate: one template, or none.
CampaignCandidate(f, signals) ==
  LET codes == CodesOf(signals)
  IN  IF "QUOTED_PROMOTIONAL_LANGUAGE" \in codes /\ Cardinality(f.quote) >= 2
      THEN Template("quoted", f.quoted, f.quote)
      ELSE IF "PREVIEW_PROMOTIONAL_LANGUAGE" \in codes /\ Cardinality(f.preview) >= 2
      THEN Template("preview", f.body, UrlsOf(f))
      ELSE IF "PROMOTIONAL_LANGUAGE" \in codes /\ Cardinality(UrlsOf(f)) >= 2
      THEN Template("authored", f.body, UrlsOf(f))
      ELSE {}

-----------------------------------------------------------------------------
(* policy.py *)

\* Mutant: a quoted match passes for one of the sender's own.
GateWithQuoted(signals) ==
  CodesOf(signals) \cap {"AUTHORED_DENIED_DOMAIN", "BUTTON_DENIED_DOMAIN",
                         "PREVIEW_DENIED_DOMAIN", "QUOTED_DENIED_DOMAIN"} # {}

\* destructive_gate_basis is not None.
DestructiveGate(signals) ==
  LET codes == CodesOf(signals)
      deniedAuthored ==
        codes \cap {"AUTHORED_DENIED_DOMAIN", "BUTTON_DENIED_DOMAIN",
                    "PREVIEW_DENIED_DOMAIN"} # {}
      repeatedCore ==
        /\ "REPEATED_CAMPAIGN" \in codes
        /\ codes \cap {"MULTIPLE_LINKS", "QUOTED_MULTIPLE_LINKS"} # {}
      forwardedPromotion ==
        /\ "FORWARDED_PAYLOAD" \in codes
        /\ codes \cap {"PROMOTIONAL_LANGUAGE", "QUOTED_PROMOTIONAL_LANGUAGE"} # {}
      previewPromotion ==
        /\ \E s \in signals : s.code = "PREVIEW_PROMOTIONAL_LANGUAGE"
                              /\ s.source = "preview"
        /\ \E s \in signals : s.code = "MULTIPLE_LINKS" /\ s.source = "preview"
  IN  deniedAuthored \/ (repeatedCore /\ (forwardedPromotion \/ previewPromotion))

RiskScore(signals) == MapThenSumSet(LAMBDA s : s.weight, signals)

\* PolicyEngine.decide
Decide(signals) ==
  IF RiskScore(signals) >= 70 /\ DestructiveGate(signals)
  THEN "permanent_suppression"
  ELSE IF RiskScore(signals) >= 30 THEN "strict_challenge" ELSE "standard_challenge"

-----------------------------------------------------------------------------
(* store/events.py *)

RecentLinks(s) ==
  Cardinality({e \in links : e.sender = s /\ e.at >= clock - LinkWindow})

\* Mutant: a row for every observation.
ObserveEvery(print, s) ==
  {c \in campaigns : c.at >= clock - CampaignWindow}
    \cup {[print |-> print, sender |-> s, at |-> clock]}

\* Mutant: a row exactly as old as the window is dropped.
ObserveShort(print, s) ==
  {c \in campaigns : c.at > clock - CampaignWindow
                     /\ ~(c.print = print /\ c.sender = s)}
    \cup {[print |-> print, sender |-> s, at |-> clock]}

\* observe_campaign: rows older than the window are deleted, the sender's row for
\* this fingerprint is inserted or brought up to date.
ObserveCampaign(print, s) ==
  {c \in campaigns : c.at >= clock - CampaignWindow
                     /\ ~(c.print = print /\ c.sender = s)}
    \cup {[print |-> print, sender |-> s, at |-> clock]}

\* Mutant: only the other senders are counted.
ObservationsOfOthers(rows, print) == Cardinality({c \in rows : c.print = print}) - 1
Observations(rows, print) == Cardinality({c \in rows : c.print = print})

-----------------------------------------------------------------------------
NoVerdict == [sender |-> "none"]

Init ==
  /\ clock = 0
  /\ links = {}
  /\ campaigns = {}
  /\ screened = 0
  /\ verdict = NoVerdict
  /\ sent = {}

\* _evidence_signals and the decision of _handle_locked.
Screen(s, f) ==
  /\ screened < MaxMessages
  /\ screened' = screened + 1
  /\ LET found == DetectEvidenceSignals(f, RecentLinks(s))
         prints == CampaignCandidate(f, found)
         rows == IF prints = {} THEN campaigns
                 ELSE UNION {ObserveCampaign(p, s) : p \in prints}
         repeated == \E p \in prints : Observations(rows, p) >= 2
         signals == found \cup If(repeated, RepeatedCampaignSignal)
     IN  /\ campaigns' = rows
         /\ verdict' = [sender |-> s, facts |-> f, prints |-> prints,
                        action |-> Decide(signals)]
         /\ sent' = sent \cup {[print |-> p, sender |-> s, at |-> clock] : p \in prints}
  /\ links' = IF HasLink(f) THEN links \cup {[sender |-> s, at |-> clock]} ELSE links
  /\ UNCHANGED clock

\* _erase_sender_rows
Forget(s) ==
  /\ Forgetting
  /\ links' = {e \in links : e.sender # s}
  /\ campaigns' = {c \in campaigns : c.sender # s}
  /\ sent' = {c \in sent : c.sender # s}
  /\ verdict' = NoVerdict
  /\ UNCHANGED <<clock, screened>>

\* The DELETEs of prune; link events live for an hour.
Prune ==
  /\ campaigns' = {c \in campaigns : c.at >= clock - CampaignWindow}
  /\ links' \in {links, {e \in links : e.at >= clock - LinkWindow}}
  /\ UNCHANGED <<clock, screened, verdict, sent>>

Tick ==
  /\ clock < MaxTime
  /\ clock' = clock + 1
  /\ verdict' = NoVerdict
  /\ UNCHANGED <<links, campaigns, screened, sent>>

Next ==
  \/ \E s \in Senders : Forget(s) \/ \E f \in Sample : Screen(s, f)
  \/ Prune \/ Tick

Spec == Init /\ [][Next]_vars

-----------------------------------------------------------------------------
\* What another sender has really sent within the window.
SentByAnother ==
  \E c \in sent : /\ c.sender # verdict.sender
                  /\ c.print \in verdict.prints
                  /\ c.at >= clock - CampaignWindow

\* "Weak signals cannot accumulate past this destructive boundary, and a quoted
\* denylist match alone cannot delete a dialog" (docs/architecture.md): a dialog is
\* given up for good only for a denied link outside the quote, or when another
\* sender has sent the same template within the window, and the message is
\* promotional, has several links and is forwarded or carried by its preview.
SuppressionIsCorroborated ==
  verdict # NoVerdict /\ verdict.action = "permanent_suppression" =>
    LET f == verdict.facts
    IN  \/ Denied \cap UrlsOf(f) # {}
        \/ /\ SentByAnother
           /\ Cardinality(UrlsOf(f)) >= 2 \/ Cardinality(f.quote) >= 2
           /\ \/ f.forwarded /\ (f.promo \/ f.quotePromo)
              \/ f.previewPromo /\ Cardinality(f.preview) >= 2

\* "The same promotional template appeared from another sender within 7 days"
\* (rules.py, repeated_campaign_signal): wherever in the window the two messages lie,
\* and whatever was pruned or sent in between, the second one is given up when it is
\* forwarded or when its preview carries the promotion and the links.
RepeatIsSuppressed ==
  verdict # NoVerdict /\ SentByAnother =>
    \/ verdict.action = "permanent_suppression"
    \/ /\ ~verdict.facts.forwarded
       /\ \A p \in verdict.prints : p.source # "preview"
=============================================================================
