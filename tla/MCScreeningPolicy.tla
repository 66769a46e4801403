-------------------------- MODULE MCScreeningPolicy --------------------------
(* ScreeningPolicy for TLC: samples of messages. *)
EXTENDS ScreeningPolicy, TLC

CONSTANTS i1, w1, w2, d1, t1, t2

SenderSymmetry == Permutations(Senders)

Message(text, buttons, preview, quote, promo, previewPromo, quotePromo, forwarded, body) ==
  [text |-> text, buttons |-> buttons, preview |-> preview, quote |-> quote,
   buttonCount |-> Cardinality(buttons), opener |-> text = {} /\ ~promo, promo |-> promo,
   previewPromo |-> previewPromo, quotePromo |-> quotePromo,
   forwarded |-> forwarded, body |-> body, quoted |-> t1]

\* Every combination of the features the gate looks at.
WideSample ==
  {Message(text, {}, preview, quote, promo, preview # {}, Cardinality(quote) > 1,
           forwarded, t1) :
     text \in {{}, {w1, w2}}, preview \in {{}, {w1, w2}},
     quote \in {{}, {w1, w2}, {d1}}, promo \in BOOLEAN, forwarded \in BOOLEAN}

\* Another template, invitations, buttons, promotion without links.
OtherSample ==
  {Message({w1, w2}, {}, {}, {}, TRUE, FALSE, FALSE, TRUE, t2),
   Message({}, {}, {w1, w2}, {}, FALSE, TRUE, FALSE, FALSE, t2),
   Message({i1, w1}, {}, {}, {d1}, TRUE, FALSE, FALSE, TRUE, t1),
   Message({i1}, {d1}, {}, {}, FALSE, FALSE, FALSE, FALSE, t1),
   Message({}, {w1}, {w1, w2}, {w1, w2}, FALSE, FALSE, FALSE, TRUE, t1),
   Message({}, {}, {}, {}, FALSE, TRUE, TRUE, TRUE, t1)}

MCSample == WideSample \cup OtherSample
=============================================================================
