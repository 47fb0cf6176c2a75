-------------------------------- MODULE Amounts --------------------------------
(***************************************************************************)
(* The way of an amount from the text somebody enters to the integer the   *)
(* ledger stores: the web form's check (web/src/lib/money.ts), the parse   *)
(* of app/domain/money.py, and the texts the connectors send.              *)
(*                                                                         *)
(* A decimal is coef / 10^frac, a text its digits.  Python's Decimal has a *)
(* context precision: a result of more digits is rounded half to even.     *)
(* The form's arithmetic is on BigInt, which never rounds.                 *)
(***************************************************************************)
EXTENDS Integers, Sequences, FiniteSetsExt, SequencesExt

CONSTANTS
  Precision,    \* digits of the decimal context
  MaxDigits,    \* bound: no number here has more digits
  Forms,        \* what users enter: a list of debits, one of credits, the exponent
                \* of their currency
  Upstream      \* what the connectors receive: a signed amount (Open Collective's is in
                \* minor units) and the exponent of its currency

ASSUME PrecisionAssumption == Precision \in Nat \ {0} /\ MaxDigits \in Nat

VARIABLES
  entry,    \* what the user entered or the connector received
  stage,    \* how far it has come
  posted    \* the minor units stored, per side

amounts == <<entry, stage, posted>>

Abs(n) == IF n < 0 THEN -n ELSE n
Digits(n) == IF n = 0 THEN 1 ELSE Min({d \in 1 .. MaxDigits : Abs(n) < 10 ^ d})

\* n / d to the nearest integer, a half to the even one.
HalfEven(n, d) ==
  LET q == n \div d
      r == n % d
  IN IF 2 * r > d \/ (2 * r = d /\ q % 2 = 1) THEN q + 1 ELSE q

\* An exact result coef / 10^frac, rounded to the context.
Rounded(coef, frac) ==
  LET drop == Digits(coef) - Precision
  IN IF drop <= 0 THEN [coef |-> coef, frac |-> frac]
     ELSE [coef |-> HalfEven(coef, 10 ^ drop), frac |-> frac - drop]

-------------------------------------------------------------------------------
(* Money.from_decimal and to_decimal. *)

Scaled(text, exponent) == Rounded(text.coef * 10 ^ exponent, text.frac)

Integral(d) == d.frac > 0 => d.coef % (10 ^ d.frac) = 0
ValueOf(d) == IF d.frac <= 0 THEN d.coef * 10 ^ (-d.frac) ELSE d.coef \div 10 ^ d.frac

Representable(text, exponent) == Integral(Scaled(text, exponent))
MinorUnits(text, exponent) == ValueOf(Scaled(text, exponent))

ToDecimal(minor, exponent) == Rounded(minor, exponent)

-------------------------------------------------------------------------------
(* The web form: BigInt arithmetic at the finer of two scales. *)

\* toScaled: padded or cut to `scale` decimals.
ToScaled(text, scale) ==
  IF scale >= text.frac THEN text.coef * 10 ^ (scale - text.frac)
  ELSE text.coef \div 10 ^ (text.frac - scale)

\* MUTANT of FinerOf: sums are kept at the first amount's decimals.
FirstScale(a, b) == a.frac

FinerOf(a, b) == Max({a.frac, b.frac})

AddDecimal(a, b) ==
  [coef |-> ToScaled(a, FinerOf(a, b)) + ToScaled(b, FinerOf(a, b)), frac |-> FinerOf(a, b)]

SameDecimal(a, b) == ToScaled(a, FinerOf(a, b)) = ToScaled(b, FinerOf(a, b))

Zero == [coef |-> 0, frac |-> 0]
ValidPositiveAmount(text) == text.coef > 0

FormTotal(texts) == FoldLeft(AddDecimal, Zero, texts)

\* canPost: every amount is positive and the totals agree.
CanPost ==
  /\ \A side \in {entry.debits, entry.credits} : \A i \in DOMAIN side : ValidPositiveAmount(side[i])
  /\ SameDecimal(FormTotal(entry.debits), FormTotal(entry.credits))

-------------------------------------------------------------------------------
(* The connectors. *)

\* Open Collective sends minor units; the text is their magnitude, scaled.
CentsToText(cents, exponent) == ToDecimal(Abs(cents), exponent)

\* Plaid sends a decimal number, quantized to the currency's decimals; a result
\* beyond the context's precision is refused.
Quantized(amount, exponent) ==
  [coef |-> IF amount.frac <= exponent
            THEN Abs(amount.coef) * 10 ^ (exponent - amount.frac)
            ELSE HalfEven(Abs(amount.coef), 10 ^ (amount.frac - exponent)),
   frac |-> exponent]

Quantizable(amount, exponent) == Digits(Quantized(amount, exponent).coef) <= Precision

-------------------------------------------------------------------------------

AmountsInit ==
  /\ entry \in Forms \union Upstream
  /\ stage = "entered"
  /\ posted = <<>>

Reach(from, to, result) ==
  /\ stage = from
  /\ stage' = to
  /\ posted' = result
  /\ UNCHANGED entry

Submit ==
  /\ entry \in Forms
  /\ \/ CanPost /\ Reach("entered", "sent", posted)
     \/ ~CanPost /\ Reach("entered", "blocked", posted)

Sum(minors) == FoldLeft(LAMBDA x, y : x + y, 0, minors)
MinorOf(texts) == [i \in DOMAIN texts |-> MinorUnits(texts[i], entry.exponent)]
AllRepresentable(texts) == \A i \in DOMAIN texts : Representable(texts[i], entry.exponent)

\* The engine parses every line, then compares the sums.
Receive ==
  /\ stage = "sent"
  /\ LET accepted == /\ AllRepresentable(entry.debits) /\ AllRepresentable(entry.credits)
                     /\ \A side \in {entry.debits, entry.credits} :
                          \A i \in DOMAIN side : MinorUnits(side[i], entry.exponent) > 0
                     /\ Sum(MinorOf(entry.debits)) = Sum(MinorOf(entry.credits))
     IN \/ accepted /\ Reach("sent", "posted", <<MinorOf(entry.debits), MinorOf(entry.credits)>>)
        \/ ~accepted /\ Reach("sent", "rejected", posted)

\* A connector turns the upstream amount into a text: it skips a zero, and a number
\* it cannot quantize ends the import.
Convert ==
  /\ entry \in Upstream
  /\ LET n == entry.amount
     IN \/ n.coef = 0 /\ Reach("entered", "skipped", posted)
        \/ /\ n.coef # 0 /\ entry.source = "opencollective"
           /\ Reach("entered", "converted", <<CentsToText(n.coef, entry.exponent)>>)
        \/ /\ n.coef # 0 /\ entry.source = "plaid" /\ Quantizable(n, entry.exponent)
           /\ Reach("entered", "converted", <<Quantized(n, entry.exponent)>>)
        \/ /\ n.coef # 0 /\ entry.source = "plaid" /\ ~Quantizable(n, entry.exponent)
           /\ Reach("entered", "crashed", posted)

Import ==
  /\ stage = "converted"
  /\ LET text == posted[1]
         accepted == Representable(text, entry.exponent) /\ text.coef > 0
     IN \/ accepted /\ Reach("converted", "posted", <<MinorUnits(text, entry.exponent)>>)
        \/ ~accepted /\ Reach("converted", "rejected", <<>>)

AmountsNext == Submit \/ Receive \/ Convert \/ Import
===============================================================================
