---------------------------- MODULE UsageRecord ----------------------------
(***************************************************************************)
(* The figures of a usage record: how a rate-limit payload is read         *)
(* (parseRateLimitPayload), how what is missing in a record is filled in   *)
(* (normalizeRecord), and what of it is stored (persistUsage).             *)
(*                                                                         *)
(* Percentages of a record are floating-point numbers in the code and      *)
(* tenths of a percent here, also such as no server should send; those of  *)
(* the account table are whole (math.Round).  What the JSON leaves out is  *)
(* None.  Of fields with two spellings (used_percent, used_percentage) one *)
(* stands for both, and of texts only whether they are empty.              *)
(***************************************************************************)
EXTENDS Integers, Sequences

CONSTANT None    \* a field that is absent

ASSUME NoneAssumption == None \notin Int /\ None \notin BOOLEAN

Hundred == 1000    \* per cent, in tenths

Optional == BOOLEAN \cup {None}

Window == [used : Int \cup {None}, remaining : Int \cup {None}, reset : BOOLEAN]

NoWindow == [used |-> None, remaining |-> None, reset |-> FALSE]

(* rate_limits: a list of windows, told apart by name or length; items of  *)
(* neither kind are skipped.                                               *)
Item == [kind : {"five", "week"}, window : Window]

(* plan: there is a plan type, a credit balance or an estimate of         *)
(* messages.                                                               *)
Payload ==
    [five : Window, seven : Window, weekly : Window,
     primary : Window, secondary : Window, items : Seq(Item),
     allowed : Optional, limit_reached : Optional, reached_type : BOOLEAN,
     has_credits : Optional, available : Optional, unlimited : Optional,
     overage : Optional, spend : Optional, plan : BOOLEAN]

HasNoData(w) == w.used = None /\ w.remaining = None /\ ~w.reset

RemainingPercent(w) ==
    IF w.remaining # None THEN w.remaining ELSE IF w.used # None THEN Hundred - w.used ELSE 0

(* An item becomes a window with a remaining percentage, its data or none. *)
ItemWindow(item) ==
    [NoWindow EXCEPT !.remaining = RemainingPercent(item.window), !.reset = item.window.reset]

OfKind(b, kind) == {k \in DOMAIN b.items : b.items[k].kind = kind}

Last(b, S) == b.items[CHOOSE k \in S : \A n \in S : n <= k]

LegacyFive(b) ==
    IF OfKind(b, "five") = {} THEN b.five ELSE ItemWindow(Last(b, OfKind(b, "five")))

Weekly(b) ==
    IF OfKind(b, "week") # {} THEN ItemWindow(Last(b, OfKind(b, "week")))
    ELSE IF ~HasNoData(b.primary) THEN b.primary
    ELSE IF ~HasNoData(b.seven) THEN b.seven ELSE b.weekly

(* payloadHasEntitlement                                                   *)
HasEntitlement(b) ==
    \/ \E f \in {b.allowed, b.limit_reached, b.has_credits, b.available, b.unlimited,
                 b.overage, b.spend} : f # None
    \/ b.reached_type \/ b.plan \/ ~HasNoData(b.secondary)

Recognized(b) == ~HasNoData(Weekly(b)) \/ ~HasNoData(LegacyFive(b)) \/ HasEntitlement(b)

(* What of a record the figures are about.  A record that a command prints *)
(* may have basis "used" and any combination of fields.                    *)
Availability == {"", "blocked", "available", "credit_available", "limited", "unknown"}

Record ==
    [basis : {"", "remaining", "used"}, has : BOOLEAN, usage : Int, remaining : Int, five : Int,
     availability : Availability, allowed : Optional, reached_type : BOOLEAN,
     credits : Optional, unlimited : Optional, overage : Optional, spend : Optional]

NormalizeAvailability(r, limitReached) ==
    IF r.spend = TRUE \/ r.overage = TRUE THEN "blocked"
    ELSE IF r.allowed = TRUE THEN "available"
    ELSE IF r.credits = TRUE \/ r.unlimited = TRUE THEN "credit_available"
    ELSE IF limitReached = TRUE \/ r.allowed = FALSE \/ r.reached_type THEN "limited"
    ELSE IF ~r.has THEN "unknown"
    ELSE IF r.remaining <= 0 THEN "limited" ELSE "available"

(* parseRateLimitPayload                                                   *)
ParsedRecord(b) ==
    LET w == Weekly(b)
        left == IF HasNoData(w) THEN 0 ELSE RemainingPercent(w)
    IN  [basis |-> "remaining", has |-> ~HasNoData(w), usage |-> left, remaining |-> left,
         five |-> IF HasNoData(w) THEN RemainingPercent(LegacyFive(b)) ELSE 0,
         availability |-> "",
         allowed |-> b.allowed, reached_type |-> b.reached_type,
         credits |-> IF b.has_credits # None THEN b.has_credits ELSE b.available,
         unlimited |-> b.unlimited, overage |-> b.overage, spend |-> b.spend]

Parse(b) ==
    LET r == ParsedRecord(b)
    IN  [r EXCEPT !.availability = NormalizeAvailability(r, b.limit_reached)]

(* normalizeRecord: of two equal fields the one that is zero is taken to   *)
(* be missing.                                                             *)
Filled(r) ==
    [r EXCEPT !.remaining = IF @ = 0 THEN r.usage ELSE @,
              !.usage = IF @ = 0 THEN r.remaining ELSE @,
              !.basis = IF @ = "" THEN "remaining" ELSE @]

NormalizeRecord(r) ==
    LET f == Filled(r)
    IN  IF r.availability # "" THEN f
        ELSE [f EXCEPT !.availability = NormalizeAvailability(f, None)]

ClampPercent(n) == IF n < 0 THEN 0 ELSE IF n > Hundred THEN Hundred ELSE n

(* math.Round of tenths that are not negative: halves go up.  The          *)
(* definition before it is a plausible mistake, which the checks notice.   *)
WrongRound(n) == n \div 10

Round(n) == (n + 5) \div 10

(* persistUsage: the whole percentage the account table gets.              *)
StoredPercent(r) ==
    Round(ClampPercent(IF r.basis = "used" THEN Hundred - r.usage
                       ELSE IF r.remaining # 0 \/ r.usage = 0 THEN r.remaining ELSE r.usage))

(* ClampRefreshInterval, in seconds.                                       *)
ClampRefreshInterval(interval) ==
    IF interval <= 0 THEN 300
    ELSE IF interval < 60 THEN 60
    ELSE IF interval > 300 THEN 300 ELSE interval
=============================================================================
