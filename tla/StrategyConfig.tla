--------------------------- MODULE StrategyConfig ---------------------------
(***************************************************************************)
(* Wheel parameters at the persistence boundary                            *)
(* (internal/strategy/strategy.go, internal/wheel/wheel.go): a stored      *)
(* object, perhaps of an older release, is read with ParseConfig and       *)
(* written back with CanonicalParams each time somebody saves it.          *)
(*                                                                         *)
(* A parameter object is a function from the keys it holds to values; Null *)
(* is a JSON null.  Of the eleven tactical numbers three are kept, one of  *)
(* each way the code treats them: covered_call_pct has a default other     *)
(* than zero and is always written, profit_take_pct has default zero and   *)
(* is left out when zero (omitempty), trade_gap has an older name.         *)
(* Numbers are integers, so the errors about types and fractions are left  *)
(* out; an interpolated target is a fraction of integers.                  *)
(***************************************************************************)
EXTENDS Integers, Sequences

CONSTANTS
    Entry,       \* key -> the values an editor may enter, valid and invalid ones
    Curve,       \* the price curves among them
    TradePrice,  \* prices at which targets are compared
    CallPct,     \* DefaultCoveredCallPct
    Gap,         \* default of trade_gap
    MinDte,      \* MinWheelDTE, also the default of min_dte
    MaxDte,      \* MaxWheelDTE
    MaxWarnings, \* bound on the warnings of an object a dead key is entered into
    Null         \* a JSON null

ASSUME StrategyAssumption ==
    /\ TradePrice \subseteq Nat \ {0} /\ MaxWarnings \in Nat
    /\ CallPct \in Nat \ {0} /\ Gap \in Nat \ {0}
    /\ MinDte \in Nat \ {0} /\ MaxDte \in Nat /\ MinDte <= MaxDte

VARIABLES
    params,   \* the stored parameter object
    saved,    \* it was written by CanonicalParams
    meant     \* what the object meant when it was last entered, see Meaning

stVars == <<params, saved, meant>>

Anchor    == {"full_position_price", "zero_position_price", "max_inventory"}
Tactical  == {"covered_call_pct", "profit_take_pct", "trade_gap"}
Dte       == {"min_dte", "max_dte"}
Dead      == {"max_daily_orders", "lot_size"}
LegacyKey == Dead \cup {"no_trade_gap"}
AuditKey  == {"migration_warnings", "migration_warning_count"}
SettableKey == Anchor \cup Tactical \cup Dte \cup LegacyKey \cup {"price_position_curve"}

ASSUME EntryAssumption ==
    /\ DOMAIN Entry \subseteq SettableKey
    /\ \A k \in DOMAIN Entry :
          Entry[k] \subseteq (IF k = "price_position_curve" THEN Curve ELSE Int)
    /\ Curve \subseteq Seq([price : Int, target : Int])
    /\ Null \notin Int \cup Curve

\* The result of an operation that returned an error; no object has this key.
Refused == [error |-> TRUE]

\* A map without some keys, the value of a key or a substitute, and a map with the
\* keys of another that it lacks.
Without(p, S)  == [k \in DOMAIN p \ S |-> p[k]]
ValueOr(p, key, v) == IF key \in DOMAIN p THEN p[key] ELSE v
p ++ q == [k \in DOMAIN p \cup DOMAIN q |-> IF k \in DOMAIN p THEN p[k] ELSE q[k]]

-----------------------------------------------------------------------------
(* Reading *)

\* unwrapParams: the API's envelope, a marshalled Config, or the plain object.
UnwrapParams(p) ==
    IF "strategy" \notin DOMAIN p THEN p
    ELSE IF p["strategy"] # "wheel" THEN Refused
    ELSE IF "params" \in DOMAIN p THEN p["params"]
    ELSE Without(p, {"strategy"})

\* The checks of a curve that need no other parameter.
CurveShape(c) ==
    /\ Len(c) >= 2
    /\ \A i \in 1 .. Len(c) : c[i].price > 0 /\ c[i].target >= 0
    /\ \A i \in 2 .. Len(c) : c[i].price > c[i-1].price /\ c[i].target <= c[i-1].target

ValidatePricePositionCurve(c, max) ==
    CurveShape(c) /\ \A i \in 1 .. Len(c) : c[i].target <= max

Ignored(p) ==
    (IF "max_daily_orders" \in DOMAIN p THEN <<"max_daily_orders">> ELSE <<>>)
      \o (IF "lot_size" \in DOMAIN p THEN <<"lot_size">> ELSE <<>>)

\* Mutant: the warnings of earlier migrations are not carried over.
WarningsOfThisSave(p) == Ignored(p)

\* Warnings of earlier migrations, then one for every dead key.
Warnings(p) == ValueOr(p, "migration_warnings", <<>>) \o Ignored(p)

\* normalizeLegacyParams: the audit keys are set aside, an old name counts where
\* the new one is absent, a curve gives the end points that are absent.
NormalizeLegacyParams(p) ==
    LET curve == ValueOr(p, "price_position_curve", <<>>)
        own   == Without(p, AuditKey \cup LegacyKey \cup {"price_position_curve"})
        named == IF "no_trade_gap" \in DOMAIN p
                 THEN own ++ [trade_gap |-> p["no_trade_gap"]] ELSE own
    IN  IF "price_position_curve" \notin DOMAIN p
        THEN [out |-> named, curve |-> <<>>, warnings |-> Warnings(p)]
        ELSE IF curve = Null \/ ~CurveShape(curve) THEN Refused
        ELSE [out      |-> named ++ [full_position_price |-> curve[1].price,
                                     zero_position_price |-> curve[Len(curve)].price],
              curve    |-> curve,
              warnings |-> Warnings(p)]

\* The parameters of the template: those that are required, the defaults of the
\* others, and the range buildParams accepts.
Required == Anchor
Default  == [covered_call_pct |-> CallPct, profit_take_pct |-> 0, trade_gap |-> Gap,
             min_dte |-> MinDte, max_dte |-> MinDte + 1]
InRange(k, v) == k \in Dte => v \in MinDte .. MaxDte

\* buildParams: absent and null are the same; an unknown key is an error.
BuildParams(p) ==
    LET absent(k) == ValueOr(p, k, Null) = Null
        known     == Required \cup DOMAIN Default
    IN  IF \/ ~(DOMAIN p \subseteq known)
           \/ \E k \in known : IF absent(k) THEN k \in Required ELSE ~InRange(k, p[k])
        THEN Refused
        ELSE [k \in known |-> IF absent(k) THEN Default[k] ELSE p[k]]

\* Config.Validate
ValidConfig(c) ==
    /\ c.max_inventory > 0
    /\ IF c.curve # <<>> THEN ValidatePricePositionCurve(c.curve, c.max_inventory)
       ELSE c.full_position_price > 0 /\ c.zero_position_price > c.full_position_price
    /\ c.min_dte >= MinDte /\ c.max_dte <= MaxDte /\ c.min_dte <= c.max_dte

ParseConfig(p) ==
    LET plain  == UnwrapParams(p)
        norm   == NormalizeLegacyParams(plain)
        values == BuildParams(norm.out)
        config == values ++ [curve |-> norm.curve, warnings |-> norm.warnings]
    IN  IF plain = Refused THEN Refused
        ELSE IF norm = Refused THEN Refused
        ELSE IF values = Refused THEN Refused
        ELSE IF ValidConfig(config) THEN config ELSE Refused

-----------------------------------------------------------------------------
(* Writing *)

\* json.Marshal of a Config: fields marked omitempty are absent when empty.
MarshalConfig(c) ==
    LET empty == {k \in {"profit_take_pct"} : c[k] = 0}
    IN  Without(c, empty \cup {"curve", "warnings"})
          ++ [strategy |-> "wheel"]
          ++ (IF c.curve = <<>> THEN <<>> ELSE [price_position_curve |-> c.curve])
          ++ (IF c.warnings = <<>> THEN <<>>
              ELSE [migration_warnings |-> c.warnings, migration_warning_count |-> Len(c.warnings)])

\* Mutant: the end points are written, and not the curve.
CanonicalEndPoints(p) ==
    LET c == ParseConfig(p)
    IN  IF c = Refused THEN Refused
        ELSE Without(MarshalConfig(c), {"strategy", "price_position_curve"})

\* CanonicalParams: the end points are not written beside a curve.
CanonicalParams(p) ==
    LET c == ParseConfig(p)
    IN  IF c = Refused THEN Refused
        ELSE Without(MarshalConfig(c),
                     {"strategy"} \cup (IF c.curve = <<>> THEN {}
                                        ELSE {"full_position_price", "zero_position_price"}))

-----------------------------------------------------------------------------
(* The target inventory *)

\* A point between two others, as a fraction.
Between(a, b, price) ==
    [num |-> a.target * (b.price - a.price) + (price - a.price) * (b.target - a.target),
     den |-> b.price - a.price]

Whole(n) == [num |-> n, den |-> 1]

\* Mutant: the first segment that starts below the price.
InterpolateFirstSegment(curve, price) ==
    LET last == curve[Len(curve)]
        i    == CHOOSE j \in 2 .. Len(curve) : price > curve[j-1].price
    IN  IF price <= curve[1].price THEN Whole(curve[1].target)
        ELSE IF price >= last.price THEN Whole(last.target)
        ELSE Between(curve[i-1], curve[i], price)

\* InterpolateTargetInventory: flat outside the curve, else the first segment
\* that ends at or after the price.
InterpolateTargetInventory(curve, price) ==
    LET last == curve[Len(curve)]
        i    == CHOOSE j \in 2 .. Len(curve) :
                    price <= curve[j].price /\ \A h \in 2 .. j - 1 : price > curve[h].price
    IN  IF price <= curve[1].price THEN Whole(curve[1].target)
        ELSE IF price >= last.price THEN Whole(last.target)
        ELSE Between(curve[i-1], curve[i], price)

TargetInventory(c, price) ==
    IF c.curve # <<>> THEN InterpolateTargetInventory(c.curve, price)
    ELSE IF price <= c.full_position_price THEN Whole(c.max_inventory)
    ELSE IF price >= c.zero_position_price THEN Whole(0)
    ELSE Between([price |-> c.full_position_price, target |-> c.max_inventory],
                 [price |-> c.zero_position_price, target |-> 0], price)

-----------------------------------------------------------------------------
(* Saving and editing *)

\* What the strategy does with parameters: its target at every price and its
\* tactical parameters.
Meaning(p) ==
    LET c == ParseConfig(p)
    IN  IF c = Refused THEN Refused
        ELSE [targets |-> [x \in TradePrice |-> TargetInventory(c, x)],
              numbers |-> [k \in Tactical \cup Dte \cup {"max_inventory"} |-> c[k]]]

\* Objects of earlier releases: old names, dead keys, end points or a curve.
LegacyRow ==
    LET anchors == {[full_position_price |-> 2, zero_position_price |-> 6]}
                     \cup {[price_position_curve |-> c] : c \in Curve}
                     \cup {[price_position_curve |-> c, full_position_price |-> 0] : c \in Curve}
        gaps    == {<<>>, [no_trade_gap |-> 0], [no_trade_gap |-> 0, trade_gap |-> 2]}
        dead    == {<<>>, [lot_size |-> 1], [lot_size |-> 1, max_daily_orders |-> 2]}
    IN  {[max_inventory |-> 4] ++ a ++ g ++ d : a \in anchors, g \in gaps, d \in dead}

StInit ==
    /\ params \in LegacyRow
    /\ saved = FALSE
    /\ meant = Meaning(params)

\* A request is made canonical and stored, or refused.
Store(request) ==
    /\ CanonicalParams(request) # Refused
    /\ params' = CanonicalParams(request)
    /\ saved' = TRUE

\* The object is saved as it was read: plain, as a marshalled Config or in the
\* envelope of the API.
Resave ==
    /\ \E form \in {params, [strategy |-> "wheel"] ++ params,
                    [strategy |-> "wheel", params |-> params]} : Store(form)
    /\ UNCHANGED meant

\* One key is entered, set to null or removed, and the object is saved.
Edit(request) ==
    /\ Store(request)
    /\ meant' = Meaning(request)

StNext ==
    \/ Resave
    \/ \E k \in DOMAIN Entry :
          /\ k \in Dead => Len(ValueOr(params, "migration_warnings", <<>>)) < MaxWarnings
          /\ \E v \in Entry[k] \cup {Null} : Edit([x \in {k} |-> v] ++ params)
    \/ \E k \in DOMAIN params : Edit(Without(params, {k}))

StSpec == StInit /\ [][StNext]_stVars

StTypeOK ==
    /\ DOMAIN params \subseteq SettableKey \cup AuditKey
    /\ saved \in BOOLEAN

-----------------------------------------------------------------------------
(* Properties *)

\* However often an object is saved, by whichever release it was first written,
\* the strategy does with it what it did with what was entered: the same target
\* inventory at every price and the same tactical parameters, an explicit zero
\* included.  What was accepted stays acceptable.
SavingKeepsMeaning == Meaning(params) = meant

\* "It is the persistence boundary for the read-old/write-new migration policy":
\* an object it wrote holds no legacy key and is its own canonical form, so that
\* neither warnings nor curves are lost or added by saving again.
SavedIsCanonical ==
    saved => /\ DOMAIN params \cap LegacyKey = {}
             /\ CanonicalParams(params) = params

\* The target inventory of any accepted object is between zero and the maximum
\* and never grows with the price, across the joints of a curve too.
TargetFallsWithPrice ==
    ParseConfig(params) # Refused =>
        LET c    == ParseConfig(params)
            t(x) == TargetInventory(c, x)
        IN  \A x \in TradePrice :
               /\ t(x).num >= 0 /\ t(x).num <= c.max_inventory * t(x).den
               /\ \A y \in TradePrice :
                     x <= y => t(y).num * t(x).den <= t(x).num * t(y).den

\* Saving parameters again and again changes their form once and their meaning
\* never.
SavesAreFaithful ==
    /\ StTypeOK
    /\ SavingKeepsMeaning
    /\ SavedIsCanonical
    /\ TargetFallsWithPrice
=============================================================================
