-------------------------- MODULE XmapGain_proofs --------------------------
(***************************************************************************)
(* Proofs about XmapGain, for every set of thresholds, order of the list,  *)
(* range of the amplifier and bound, and with every fault.                 *)
(*                                                                         *)
(* SettingAgainHeals is not inductive: it says nothing while a name is     *)
(* stale.  The inductive invariant says for each part of the channel which *)
(* names have to be fresh for that part to agree.                          *)
(***************************************************************************)
EXTENDS XmapGain, TLAPS

\* The names whose set function updates the whole gain.
Gain == Composite \cup {"peaking_time", "mca_bin_width", "preamp_gain"}

\* The three composite values agree once none of them is stale.
RuleWhenFresh == stale \cap Composite = {} => RangeFollowsRule

\* The two copies of the preamplifier gain agree unless its set failed.
PreampWhenFresh == "preamp_gain" \notin stale => val["preamp_gain"] = det

\* The slow filter has the peaking time's length unless its set failed.
FilterWhenFresh == "peaking_time" \notin stale => hw["SLOWLEN"] = val["peaking_time"]

\* The parameters are those of the values unless the gain's last update failed;
\* a threshold whose set failed has kept both its value and its parameter.
ParamsWhenFresh == stale \cap Gain = {} => hw = Computed(val, det, hw)

IInv == TypeOK /\ RuleWhenFresh /\ PreampWhenFresh /\ FilterWhenFresh /\ ParamsWhenFresh

-----------------------------------------------------------------------------
(* The gain update. *)

\* The computed parameters, one by one.
LEMMA ComputedParameters ==
    ASSUME NEW v \in [Name -> Int], NEW d \in Int, NEW h \in [Param -> Int]
    PROVE  /\ Computed(v, d, h) \in [Param -> Int]
           /\ Computed(v, d, h)["SLOWLEN"] = h["SLOWLEN"]
           /\ Computed(v, d, h)["GAINDAC"] = TotalGain(v, d)
           /\ \A p \in Threshold : Computed(v, d, h)[p] = ThresholdValue(v, p)
<1>1. Threshold \subseteq Name /\ Threshold \subseteq Param
  BY DEF Name, Param
<1>2. v["adc_percent_rule"] \in Int /\ v["calibration_energy"] \in Int
        /\ v["mca_bin_width"] \in Int
  BY DEF Name, Composite
<1>3. TotalGain(v, d) \in Int /\ EVPerADC(v) \in Int
  BY <1>2 DEF TotalGain, EVPerADC
<1>4. \A p \in Threshold : ThresholdValue(v, p) \in Int
  BY <1>1, <1>3 DEF ThresholdValue
<1>5. \A p \in Threshold : p # "GAINDAC" /\ p # "BINSCALE" /\ p # "SLOWLEN"
  BY ThresholdAssumption
<1>6. "SLOWLEN" \notin Threshold /\ "SLOWLEN" \in Param /\ "GAINDAC" \in Param
  BY <1>5 DEF Param
<1>. QED
  BY <1>1, <1>2, <1>3, <1>4, <1>5, <1>6 DEF Computed

\* Computing them again changes nothing.
LEMMA ComputedAgain ==
    ASSUME NEW v \in [Name -> Int], NEW d \in Int, NEW h \in [Param -> Int]
    PROVE  Computed(v, d, Computed(v, d, h)) = Computed(v, d, h)
<1>. DEFINE g == Computed(v, d, h)
<1>1. g["SLOWLEN"] = h["SLOWLEN"]
  BY ComputedParameters
<1>. HIDE DEF g
<1>2. Computed(v, d, g) = Computed(v, d, h)
  BY <1>1 DEF Computed
<1>. QED
  BY <1>2 DEF g

\* psl__UpdateGain succeeds or fails.
LEMMA UpdateGainAnswers ==
    ASSUME NEW v, NEW d, NEW h, NEW o \in UpdateGain(v, d, h)
    PROVE  o.ok \in BOOLEAN
<1>1. PICK ok \in BOOLEAN : \E g : o = Outcome(ok, g)
  BY DEF UpdateGain
<1>2. PICK g : o = Outcome(ok, g)
  BY <1>1
<1>3. o.ok = ok
  BY <1>2 DEF Outcome
<1>. QED
  BY <1>3

\* What psl__UpdateGain may leave behind.
LEMMA UpdateGainOutcomes ==
    ASSUME NEW v \in [Name -> Int], NEW d \in Int, NEW h \in [Param -> Int],
           h["GAINDAC"] \in MinGain..MaxGain,
           NEW o \in UpdateGain(v, d, h)
    PROVE  /\ o.hw \in [Param -> Int]
           /\ o.hw["GAINDAC"] \in MinGain..MaxGain
           /\ o.hw["SLOWLEN"] = h["SLOWLEN"]
           /\ o.ok => o.hw = Computed(v, d, o.hw)
<1>1. CASE o = Outcome(FALSE, h)
  BY <1>1 DEF Outcome
<1>2. ASSUME ~OutOfRange(v, d), o = Outcome(TRUE, Computed(v, d, h))
      PROVE  /\ o.hw \in [Param -> Int]
             /\ o.hw["GAINDAC"] \in MinGain..MaxGain
             /\ o.hw["SLOWLEN"] = h["SLOWLEN"]
             /\ o.hw = Computed(v, d, o.hw)
  <2>1. o.hw = Computed(v, d, h)
    BY <1>2 DEF Outcome
  <2>2. TotalGain(v, d) \in MinGain..MaxGain
    <3>1. TotalGain(v, d) \in Int
      BY DEF TotalGain, Name, Composite
    <3>. QED
      BY <1>2, <3>1, LimitAssumption DEF OutOfRange
  <2>. QED
    BY <2>1, <2>2, ComputedParameters, ComputedAgain
<1>3. ASSUME ~OutOfRange(v, d), NEW k \in 0..(Len(GainParams) - 1),
             o = Outcome(FALSE, Written(v, d, h, k))
      PROVE  /\ o.hw \in [Param -> Int]
             /\ o.hw["GAINDAC"] \in MinGain..MaxGain
             /\ o.hw["SLOWLEN"] = h["SLOWLEN"]
             /\ ~o.ok
  <2>1. o.hw = Written(v, d, h, k) /\ ~o.ok
    BY <1>3 DEF Outcome
  <2>2. TotalGain(v, d) \in MinGain..MaxGain
    <3>1. TotalGain(v, d) \in Int
      BY DEF TotalGain, Name, Composite
    <3>. QED
      BY <1>3, <3>1, LimitAssumption DEF OutOfRange
  <2>3. Written(v, d, h, k) \in [Param -> Int]
    BY ComputedParameters DEF Written
  <2>4. \A p \in Param : Written(v, d, h, k)[p] \in {Computed(v, d, h)[p], h[p]}
    BY DEF Written
  <2>5. "GAINDAC" \in Param /\ "SLOWLEN" \in Param
    BY DEF Param
  <2>. QED
    BY <2>1, <2>2, <2>3, <2>4, <2>5, ComputedParameters
<1>. QED
  BY <1>1, <1>2, <1>3 DEF UpdateGain

-----------------------------------------------------------------------------
(* The set functions. *)

\* The names are those of the thresholds and those of the gain, none is both.
LEMMA Names ==
    /\ Name = Threshold \cup Gain
    /\ Threshold \cap Gain = {}
    /\ Composite \subseteq Gain
    /\ "peaking_time" \in Gain \ Composite /\ "preamp_gain" \in Gain \ Composite
    /\ Threshold \subseteq Param
    /\ "SLOWLEN" \in Param \ Threshold /\ "GAINDAC" \in Param \ Threshold
BY ThresholdAssumption DEF Name, Gain, Composite, Param

\* The set functions and the roll back keep the values' types, and what they
\* leave beside the composite values and the value that is set.
LEMMA SettledValues ==
    ASSUME TypeOK, NEW n \in Name, NEW x \in Int, NEW ok \in BOOLEAN
    PROVE  /\ Prepared(n, x) \in [Name -> Int]
           /\ Settled(n, x, ok) \in [Name -> Int]
           /\ Settled(n, x, ok)[n] = IF ok THEN x ELSE val[n]
           /\ \A p \in Name \ (Composite \cup {n}) : Settled(n, x, ok)[p] = val[p]
           /\ n \notin Composite => Settled(n, x, ok) = [val EXCEPT ![n] = IF ok THEN x ELSE val[n]]
<1>1. Composite \subseteq Name /\ \A p \in Name : val[p] \in Int
  BY DEF TypeOK, Name
<1>2. Prepared(n, x) \in [Name -> Int]
  BY <1>1 DEF Prepared, TypeOK, Composite
<1>3. \A p \in Name \ (Composite \cup {n}) : Prepared(n, x)[p] = val[p]
  BY <1>1 DEF Prepared, TypeOK, Composite
<1>4. n \notin Composite => Prepared(n, x) = val \/ Prepared(n, x) = [val EXCEPT ![n] = x]
  BY DEF Prepared, Composite
<1>. QED
  BY <1>1, <1>2, <1>3, <1>4 DEF Settled, TypeOK

\* The parameters depend on the dynamic range, the preamplifier gain and the
\* peaking time only through the rule, the Detector and SLOWLEN.
LEMMA ComputedFrom ==
    ASSUME NEW v \in [Name -> Int], NEW w \in [Name -> Int], NEW d, NEW h,
           \A p \in Name \ {"dynamic_range", "preamp_gain", "peaking_time"} : v[p] = w[p]
    PROVE  Computed(v, d, h) = Computed(w, d, h)
<1>1. \A p \in Threshold \cup {"calibration_energy", "adc_percent_rule", "mca_bin_width"} :
        p \in Name \ {"dynamic_range", "preamp_gain", "peaking_time"}
  BY ThresholdAssumption DEF Name, Composite
<1>2. EVPerADC(v) = EVPerADC(w) /\ TotalGain(v, d) = TotalGain(w, d)
  BY <1>1 DEF EVPerADC, TotalGain
<1>3. \A p \in Threshold : ThresholdValue(v, p) = ThresholdValue(w, p)
  BY <1>1, <1>2 DEF ThresholdValue
<1>4. v["mca_bin_width"] = w["mca_bin_width"]
  BY <1>1
<1>. QED
  BY <1>2, <1>3, <1>4 DEF Computed

\* Writing the parameter of one threshold keeps the parameters those of the
\* values.
LEMMA ThresholdParameter ==
    ASSUME NEW v \in [Name -> Int], NEW w \in [Name -> Int], NEW d \in Int,
           NEW h \in [Param -> Int], NEW g \in [Param -> Int], NEW n \in Threshold,
           \A p \in Name \ {n} : w[p] = v[p],
           \A p \in Param \ {n} : g[p] = h[p],
           g[n] = w[n] - EVPerADC(v),
           h = Computed(v, d, h)
    PROVE  g = Computed(w, d, g)
<1>3. {"calibration_energy", "adc_percent_rule", "mca_bin_width"} \subseteq Name \ {n}
  BY ThresholdAssumption, Names DEF Gain, Composite
<1>4. n # "GAINDAC" /\ n # "BINSCALE" /\ "SLOWLEN" \in Param \ {n}
  BY ThresholdAssumption, Names
<1>5. EVPerADC(w) = EVPerADC(v) /\ TotalGain(w, d) = TotalGain(v, d)
        /\ w["mca_bin_width"] = v["mca_bin_width"]
  BY <1>3 DEF EVPerADC, TotalGain
<1>6. \A p \in Threshold \ {n} : ThresholdValue(w, p) = ThresholdValue(v, p)
  BY <1>5, Names DEF ThresholdValue
<1>7. ThresholdValue(w, n) = g[n]
  BY <1>5 DEF ThresholdValue
<1>8. g["SLOWLEN"] = h["SLOWLEN"]
  BY <1>4
<1>9. ASSUME NEW p \in Param
      PROVE  g[p] = Computed(w, d, g)[p]
  <2>1. CASE p = n
    BY <1>4, <1>7, <2>1 DEF Computed
  <2>2. CASE p # n
    <3>1. h[p] = Computed(v, d, h)[p]
      OBVIOUS
    <3>2. Computed(v, d, h)[p] = Computed(w, d, g)[p]
      BY <1>5, <1>6, <1>8, <2>2 DEF Computed
    <3>. QED
      BY <2>2, <3>1, <3>2
  <2>. QED
    BY <2>1, <2>2
<1>. QED
  BY <1>9 DEF Computed

\* The parameters when a value of the gain has been set with success: those
\* of the values and the Detector as they are then.
LEMMA UpdatedParameters ==
    ASSUME TypeOK, NEW n \in Gain, NEW x \in Int, NEW h
    PROVE  Computed(Prepared(n, x), DetectorAfter(n, x), h)
             = Computed(Settled(n, x, TRUE), DetectorAfter(n, x), h)
<1>1. /\ Prepared(n, x) \in [Name -> Int]
      /\ Settled(n, x, TRUE) \in [Name -> Int]
  BY Names, SettledValues
<1>2. Settled(n, x, TRUE) = [Prepared(n, x) EXCEPT ![n] = x]
  BY DEF Settled
<1>3. CASE n \in {"dynamic_range", "preamp_gain", "peaking_time"}
  <2>. DEFINE v == Prepared(n, x)
              w == Settled(n, x, TRUE)
              d == DetectorAfter(n, x)
  <2>1. \A p \in Name \ {"dynamic_range", "preamp_gain", "peaking_time"} : v[p] = w[p]
    BY <1>1, <1>2, <1>3
  <2>2. v \in [Name -> Int] /\ w \in [Name -> Int]
    BY <1>1
  <2>. HIDE DEF v, w, d
  <2>3. Computed(v, d, h) = Computed(w, d, h)
    BY <2>1, <2>2, ComputedFrom
  <2>. QED
    BY <2>3 DEF v, w, d
<1>4. CASE n \in {"calibration_energy", "adc_percent_rule", "mca_bin_width"}
  <2>1. n \in Name /\ val \in [Name -> Int] /\ "adc_percent_rule" \in Name
          /\ "dynamic_range" \in Name
    BY Names DEF TypeOK, Name, Composite
  <2>2. Prepared(n, x)[n] = x
    BY <1>4, <2>1 DEF Prepared
  <2>3. Settled(n, x, TRUE) = Prepared(n, x)
    BY <1>1, <1>2, <2>1, <2>2
  <2>. QED
    BY <2>3
<1>. QED
  BY <1>3, <1>4 DEF Gain, Composite

\* What a set function may do to the DSP.
LEMMA SetOutcomes ==
    ASSUME TypeOK, NEW n \in Name, NEW x \in Int, NEW o \in SetFunction(n, x)
    PROVE  /\ o.ok \in BOOLEAN
           /\ o.hw \in [Param -> Int]
           /\ o.hw["GAINDAC"] \in MinGain..MaxGain
           /\ n # "peaking_time" => o.hw["SLOWLEN"] = hw["SLOWLEN"]
           /\ n = "peaking_time" /\ o.ok => o.hw["SLOWLEN"] = x
           /\ n \in Gain /\ o.ok =>
                o.hw = Computed(Settled(n, x, TRUE), DetectorAfter(n, x), o.hw)
           /\ n \in Threshold =>
                o.hw = IF o.ok THEN [hw EXCEPT ![n] = x - EVPerADC(val)] ELSE hw
<1>1. /\ val \in [Name -> Int] /\ det \in Int
      /\ hw \in [Param -> Int] /\ hw["GAINDAC"] \in MinGain..MaxGain
  BY DEF TypeOK
<1>2. CASE n \in Threshold
  <2>1. EVPerADC(val) \in Int
    BY <1>1 DEF EVPerADC, Name, Composite
  <2>2. o \in SetThreshold(n, x)
    BY <1>2, Names DEF SetFunction
  <2>3. o = Outcome(TRUE, [hw EXCEPT ![n] = x - EVPerADC(val)]) \/ o = Outcome(FALSE, hw)
    BY <2>2 DEF SetThreshold
  <2>4. /\ o.ok \in BOOLEAN
        /\ o.hw = IF o.ok THEN [hw EXCEPT ![n] = x - EVPerADC(val)] ELSE hw
    <3>1. CASE o = Outcome(TRUE, [hw EXCEPT ![n] = x - EVPerADC(val)])
      <4>1. o.ok = TRUE /\ o.hw = [hw EXCEPT ![n] = x - EVPerADC(val)]
        BY <3>1 DEF Outcome
      <4>. QED
        BY <4>1
    <3>2. CASE o = Outcome(FALSE, hw)
      <4>1. o.ok = FALSE /\ o.hw = hw
        BY <3>2 DEF Outcome
      <4>. QED
        BY <4>1
    <3>. QED
      BY <2>3, <3>1, <3>2
  <2>5. /\ n # "GAINDAC" /\ n # "SLOWLEN" /\ n # "peaking_time" /\ n \notin Gain
        /\ n \in Param /\ "GAINDAC" \in Param /\ "SLOWLEN" \in Param
    BY <1>2, Names
  <2>6. /\ o.hw \in [Param -> Int]
        /\ o.hw["GAINDAC"] = hw["GAINDAC"]
        /\ o.hw["SLOWLEN"] = hw["SLOWLEN"]
    <3>1. CASE o.hw = hw
      BY <1>1, <3>1
    <3>2. CASE o.hw = [hw EXCEPT ![n] = x - EVPerADC(val)]
      BY <1>1, <2>1, <2>5, <3>2
    <3>. QED
      BY <2>4, <3>1, <3>2
  <2>. QED
    BY <1>1, <2>4, <2>5, <2>6
<1>3. CASE n = "peaking_time"
  <2>. DEFINE h == [hw EXCEPT !["SLOWLEN"] = x]
  <2>1. /\ h \in [Param -> Int] /\ h["GAINDAC"] \in MinGain..MaxGain /\ h["SLOWLEN"] = x
    BY <1>1, Names
  <2>. HIDE DEF h
  <2>2. o \in SetPeakingTime(x)
    BY <1>3, Names DEF SetFunction
  <2>3. \/ o = Outcome(FALSE, hw)
        \/ o \in UpdateGain(val, det, h)
        \/ \E u \in UpdateGain(val, det, h) : o = Outcome(FALSE, u.hw)
    BY <2>2, LimitAssumption DEF SetPeakingTime, h
  <2>4. n \notin Threshold /\ n # "preamp_gain" /\ n \in Gain
    BY <1>3, Names
  <2>5. CASE o = Outcome(FALSE, hw)
    BY <1>1, <2>4, <2>5 DEF Outcome
  <2>6. CASE o \in UpdateGain(val, det, h)
    <3>1. /\ o.hw \in [Param -> Int]
          /\ o.hw["GAINDAC"] \in MinGain..MaxGain
          /\ o.hw["SLOWLEN"] = x
          /\ o.ok => o.hw = Computed(val, det, o.hw)
      BY <1>1, <2>1, <2>6, UpdateGainOutcomes
    <3>2. o.ok \in BOOLEAN
      BY <2>6, UpdateGainAnswers
    <3>3. Prepared(n, x) = val /\ DetectorAfter(n, x) = det
      BY <1>3 DEF Prepared, DetectorAfter
    <3>4. Computed(val, det, o.hw) = Computed(Settled(n, x, TRUE), DetectorAfter(n, x), o.hw)
      BY <2>4, <3>3, UpdatedParameters
    <3>. QED
      BY <1>3, <2>4, <3>1, <3>2, <3>4
  <2>7. ASSUME NEW u \in UpdateGain(val, det, h), o = Outcome(FALSE, u.hw)
        PROVE  /\ o.ok = FALSE
               /\ o.hw \in [Param -> Int]
               /\ o.hw["GAINDAC"] \in MinGain..MaxGain
    <3>1. o.ok = FALSE /\ o.hw = u.hw
      BY <2>7 DEF Outcome
    <3>. QED
      BY <1>1, <2>1, <3>1, UpdateGainOutcomes
  <2>. QED
    BY <1>3, <2>3, <2>4, <2>5, <2>6, <2>7
<1>4. CASE n \in Gain \ {"peaking_time"}
  <2>1. n \notin Threshold /\ n # "peaking_time"
    BY <1>4, Names
  <2>2. o \in UpdateGain(Prepared(n, x), DetectorAfter(n, x), hw)
    BY <2>1 DEF SetFunction
  <2>3. Prepared(n, x) \in [Name -> Int] /\ DetectorAfter(n, x) \in Int
    BY <1>1, SettledValues DEF DetectorAfter
  <2>4. /\ o.hw \in [Param -> Int]
        /\ o.hw["GAINDAC"] \in MinGain..MaxGain
        /\ o.hw["SLOWLEN"] = hw["SLOWLEN"]
        /\ o.ok => o.hw = Computed(Prepared(n, x), DetectorAfter(n, x), o.hw)
    BY <1>1, <2>2, <2>3, UpdateGainOutcomes
  <2>5. o.ok \in BOOLEAN
    BY <2>2, UpdateGainAnswers
  <2>6. Computed(Prepared(n, x), DetectorAfter(n, x), o.hw)
          = Computed(Settled(n, x, TRUE), DetectorAfter(n, x), o.hw)
    BY <1>4, UpdatedParameters
  <2>. QED
    BY <2>1, <2>4, <2>5, <2>6
<1>. QED
  BY <1>2, <1>3, <1>4, Names

-----------------------------------------------------------------------------
(* One set. *)

\* Types after a set.
LEMMA SetTypes ==
    ASSUME TypeOK, NEW n \in Name, NEW x \in Int, Set(n, x)
    PROVE  /\ val' \in [Name -> Int] /\ det' \in Int
           /\ hw' \in [Param -> Int] /\ hw'["GAINDAC"] \in MinGain..MaxGain
           /\ status' \in {"ok", "error"}
           /\ stale' \subseteq Name
<1>1. PICK o \in SetFunction(n, x) :
        /\ hw' = o.hw
        /\ det' = DetectorAfter(n, x)
        /\ val' = Settled(n, x, o.ok)
        /\ status' = IF o.ok THEN "ok" ELSE "error"
        /\ stale' = StaleAfter(n, o.ok)
  BY DEF Set
<1>2. /\ o.ok \in BOOLEAN
      /\ o.hw \in [Param -> Int] /\ o.hw["GAINDAC"] \in MinGain..MaxGain
  BY SetOutcomes
<1>3. val' \in [Name -> Int]
  BY <1>1, <1>2, SettledValues
<1>4. det' \in Int
  BY <1>1 DEF DetectorAfter, TypeOK
<1>5. stale' \subseteq Name
  BY <1>1 DEF StaleAfter, TypeOK
<1>. QED
  BY <1>1, <1>2, <1>3, <1>4, <1>5

\* A set keeps what the fresh names promise, or makes the name stale.
LEMMA SetKeepsFresh ==
    ASSUME IInv, NEW n \in Name, NEW x \in Int, Set(n, x)
    PROVE  RuleWhenFresh' /\ PreampWhenFresh' /\ FilterWhenFresh' /\ ParamsWhenFresh'
<1>. USE DEF IInv
<1>1. PICK o \in SetFunction(n, x) :
        /\ hw' = o.hw
        /\ det' = DetectorAfter(n, x)
        /\ val' = Settled(n, x, o.ok)
        /\ status' = IF o.ok THEN "ok" ELSE "error"
        /\ stale' = StaleAfter(n, o.ok)
  BY DEF Set
<1>2. /\ o.ok \in BOOLEAN
      /\ n # "peaking_time" => hw'["SLOWLEN"] = hw["SLOWLEN"]
      /\ n = "peaking_time" /\ o.ok => hw'["SLOWLEN"] = x
      /\ n \in Gain /\ o.ok =>
            hw' = Computed(Settled(n, x, TRUE), DetectorAfter(n, x), hw')
      /\ n \in Threshold =>
            hw' = IF o.ok THEN [hw EXCEPT ![n] = x - EVPerADC(val)] ELSE hw
  BY <1>1, SetOutcomes
<1>3. /\ val \in [Name -> Int] /\ hw \in [Param -> Int] /\ det \in Int
      /\ val' \in [Name -> Int]
      /\ val'[n] = IF o.ok THEN x ELSE val[n]
      /\ \A p \in Name \ (Composite \cup {n}) : val'[p] = val[p]
      /\ n \notin Composite => val' = [val EXCEPT ![n] = IF o.ok THEN x ELSE val[n]]
  <2>1. /\ val \in [Name -> Int] /\ hw \in [Param -> Int] /\ det \in Int
    BY DEF TypeOK
  <2>2. PICK ok \in BOOLEAN : ok = o.ok
    BY <1>2
  <2>3. val' = Settled(n, x, ok)
    BY <1>1, <2>2
  <2>4. /\ val' \in [Name -> Int]
        /\ val'[n] = IF ok THEN x ELSE val[n]
        /\ \A p \in Name \ (Composite \cup {n}) : val'[p] = val[p]
        /\ n \notin Composite => val' = [val EXCEPT ![n] = IF ok THEN x ELSE val[n]]
    BY <2>3, SettledValues
  <2>. QED
    BY <2>1, <2>2, <2>4
<1>4. /\ o.ok => stale' = stale \ {n}
      /\ ~o.ok => stale' = stale \cup {n}
  BY <1>1 DEF StaleAfter
<1>5. RuleWhenFresh'
  <2>1. CASE n \notin Composite
    <3>1. stale' \cap Composite = stale \cap Composite
      BY <1>2, <1>4, <2>1
    <3>2. \A p \in Composite : val'[p] = val[p]
      BY <1>3, <2>1, Names
    <3>. QED
      BY <3>1, <3>2 DEF RuleWhenFresh, RangeFollowsRule, Composite
  <2>2. CASE n \in Composite /\ o.ok
    <3>1. val' = [Prepared(n, x) EXCEPT ![n] = x]
      BY <1>1, <2>2 DEF Settled
    <3>2. Composite \subseteq Name /\ \A p \in Name : val[p] \in Int
      BY <1>3, Names
    <3>3. RangeFollowsRule'
      BY <1>3, <2>2, <3>1, <3>2 DEF Prepared, RangeFollowsRule, Composite
    <3>. QED
      BY <3>3 DEF RuleWhenFresh
  <2>3. CASE n \in Composite /\ ~o.ok
    BY <1>4, <2>3 DEF RuleWhenFresh
  <2>. QED
    BY <1>2, <2>1, <2>2, <2>3
<1>6. PreampWhenFresh'
  <2>1. CASE n # "preamp_gain"
    <3>1. "preamp_gain" \in Name \ (Composite \cup {n})
      BY <2>1, Names
    <3>2. det' = det
      BY <1>1, <2>1 DEF DetectorAfter
    <3>. QED
      BY <1>2, <1>3, <1>4, <2>1, <3>1, <3>2 DEF PreampWhenFresh
  <2>2. CASE n = "preamp_gain" /\ o.ok
    BY <1>1, <1>3, <2>2 DEF PreampWhenFresh, DetectorAfter
  <2>3. CASE n = "preamp_gain" /\ ~o.ok
    BY <1>4, <2>3 DEF PreampWhenFresh
  <2>. QED
    BY <1>2, <2>1, <2>2, <2>3
<1>7. FilterWhenFresh'
  <2>1. CASE n # "peaking_time"
    <3>1. "peaking_time" \in Name \ (Composite \cup {n})
      BY <2>1, Names
    <3>. QED
      BY <1>2, <1>3, <1>4, <2>1, <3>1 DEF FilterWhenFresh
  <2>2. CASE n = "peaking_time" /\ o.ok
    BY <1>2, <1>3, <2>2 DEF FilterWhenFresh
  <2>3. CASE n = "peaking_time" /\ ~o.ok
    BY <1>4, <2>3 DEF FilterWhenFresh
  <2>. QED
    BY <1>2, <2>1, <2>2, <2>3
<1>8. ParamsWhenFresh'
  <2>1. CASE n \in Gain /\ o.ok
    <3>1. val' = Settled(n, x, TRUE)
      BY <1>1, <1>2, <2>1
    <3>. QED
      BY <1>1, <1>2, <2>1, <3>1 DEF ParamsWhenFresh
  <2>2. CASE n \in Gain /\ ~o.ok
    BY <1>4, <2>2 DEF ParamsWhenFresh
  <2>3. ASSUME n \in Threshold, stale' \cap Gain = {}
        PROVE  hw' = Computed(val', det', hw')
    <3>1. n \notin Gain /\ n \notin Composite /\ n # "preamp_gain"
      BY <2>3, Names
    <3>2. stale \cap Gain = {}
      BY <1>2, <1>4, <2>3, <3>1
    <3>3. hw = Computed(val, det, hw)
      BY <3>2 DEF ParamsWhenFresh
    <3>4. det' = det
      BY <1>1, <3>1 DEF DetectorAfter
    <3>5. CASE ~o.ok
      <4>1. hw' = hw /\ val' = val
        BY <1>2, <1>3, <2>3, <3>1, <3>5
      <4>. QED
        BY <3>3, <3>4, <4>1
    <3>6. CASE o.ok
      <4>1. val' = [val EXCEPT ![n] = x] /\ hw' = [hw EXCEPT ![n] = x - EVPerADC(val)]
        BY <1>2, <1>3, <2>3, <3>1, <3>6
      <4>2. /\ hw' \in [Param -> Int]
            /\ \A p \in Name \ {n} : val'[p] = val[p]
            /\ \A p \in Param \ {n} : hw'[p] = hw[p]
            /\ hw'[n] = val'[n] - EVPerADC(val)
        <5>1. EVPerADC(val) \in Int
          BY <1>3, Names DEF EVPerADC, Gain, Composite
        <5>. QED
          BY <1>3, <2>3, <4>1, <5>1, Names
      <4>3. hw' = Computed(val', det, hw')
        BY <1>3, <2>3, <3>3, <4>2, ThresholdParameter
      <4>. QED
        BY <3>4, <4>3
    <3>. QED
      BY <1>2, <3>5, <3>6
  <2>. QED
    BY <1>2, <2>1, <2>2, <2>3, Names DEF ParamsWhenFresh
<1>. QED
  BY <1>5, <1>6, <1>7, <1>8

-----------------------------------------------------------------------------
(* The invariant. *)

\* The first values satisfy every relation, so nothing is stale.
LEMMA InitInvariant == Init => IInv
<1>. SUFFICES ASSUME Init PROVE IInv
  OBVIOUS
<1>1. TypeOK
  BY InitialAssumption, LimitAssumption, OrderAssumption, Names DEF Init, TypeOK, Name
<1>2. /\ stale = Name
      /\ Composite # {} /\ "peaking_time" \in Name /\ Composite \subseteq Name
      /\ Gain \subseteq Name
  BY Names DEF Init, Composite
<1>3. val["preamp_gain"] = det
  BY DEF Init
<1>4. stale \cap Composite # {} /\ stale \cap Gain # {}
  BY <1>2, Names
<1>. QED
  BY <1>1, <1>2, <1>3, <1>4
     DEF IInv, RuleWhenFresh, PreampWhenFresh, FilterWhenFresh, ParamsWhenFresh

\* A calibration is a set of the preamplifier gain with scaled thresholds.
LEMMA CalibrateInvariant ==
    ASSUME IInv, NEW delta \in Deltas, GainCalibrate(delta)
    PROVE  IInv'
<1>. USE DEF IInv
<1>. DEFINE v == Scaled(delta)
            d == val["preamp_gain"] - delta
<1>1. /\ val \in [Name -> Int] /\ hw \in [Param -> Int] /\ delta \in Int
      /\ hw["GAINDAC"] \in MinGain..MaxGain
  BY ValueAssumption DEF TypeOK
<1>2. v \in [Name -> Int] /\ d \in Int
  BY <1>1, Names DEF Scaled
<1>3. \A p \in Gain : v[p] = val[p]
  BY <1>1, Names DEF Scaled
<1>. HIDE DEF v, d
<1>4. PICK o \in UpdateGain(v, d, hw) :
        /\ hw' = o.hw
        /\ val' = IF o.ok THEN [v EXCEPT !["preamp_gain"] = @ - delta] ELSE v
        /\ status' = IF o.ok THEN "ok" ELSE "error"
        /\ stale' = StaleAfter("preamp_gain", o.ok)
  BY DEF GainCalibrate, v, d
<1>5. det' = d /\ rest' = rest
  BY DEF GainCalibrate, d
<1>6. /\ hw' \in [Param -> Int] /\ hw'["GAINDAC"] \in MinGain..MaxGain
      /\ hw'["SLOWLEN"] = hw["SLOWLEN"]
      /\ o.ok => hw' = Computed(v, d, hw')
  BY <1>1, <1>2, <1>4, UpdateGainOutcomes
<1>7. o.ok \in BOOLEAN
  BY <1>4, UpdateGainAnswers
<1>8. /\ o.ok => stale' = stale \ {"preamp_gain"}
      /\ ~o.ok => stale' = stale \cup {"preamp_gain"}
  BY <1>4 DEF StaleAfter
<1>9. /\ val' \in [Name -> Int]
      /\ \A p \in Gain \ {"preamp_gain"} : val'[p] = val[p]
      /\ \A p \in Name \ {"preamp_gain"} : val'[p] = v[p]
      /\ o.ok => val'["preamp_gain"] = d
  <2>1. "preamp_gain" \in Name /\ "preamp_gain" \in Gain /\ Gain \subseteq Name
    BY Names
  <2>2. CASE o.ok
    <3>1. val' = [v EXCEPT !["preamp_gain"] = v["preamp_gain"] - delta]
      BY <1>4, <2>2
    <3>. QED
      BY <1>1, <1>2, <1>3, <2>1, <3>1 DEF d
  <2>3. CASE ~o.ok
    <3>1. val' = v
      BY <1>4, <2>3
    <3>. QED
      BY <1>2, <1>3, <2>1, <2>3, <3>1
  <2>. QED
    BY <2>2, <2>3
<1>10. TypeOK'
  BY <1>2, <1>4, <1>5, <1>6, <1>7, <1>8, <1>9, Names DEF TypeOK
<1>11. RuleWhenFresh'
  <2>1. stale' \cap Composite = stale \cap Composite
    BY <1>7, <1>8, Names
  <2>2. \A p \in Composite : val'[p] = val[p]
    BY <1>9, Names
  <2>. QED
    BY <2>1, <2>2 DEF RuleWhenFresh, RangeFollowsRule, Composite
<1>12. PreampWhenFresh'
  BY <1>5, <1>7, <1>8, <1>9 DEF PreampWhenFresh
<1>13. FilterWhenFresh'
  <2>1. "peaking_time" \in Gain \ {"preamp_gain"}
    BY Names
  <2>. QED
    BY <1>6, <1>7, <1>8, <1>9, <2>1 DEF FilterWhenFresh
<1>14. ParamsWhenFresh'
  <2>1. CASE o.ok
    <3>1. Computed(v, d, hw') = Computed(val', d, hw')
      BY <1>2, <1>9, ComputedFrom
    <3>. QED
      BY <1>5, <1>6, <2>1, <3>1 DEF ParamsWhenFresh
  <2>2. CASE ~o.ok
    BY <1>8, <2>2, Names DEF ParamsWhenFresh
  <2>. QED
    BY <1>7, <2>1, <2>2
<1>. QED
  BY <1>10, <1>11, <1>12, <1>13, <1>14

\* Every set, failed or not, and every step of a set-up keeps the invariant.
LEMMA StepInvariant == IInv /\ [Next]_vars => IInv'
<1>. SUFFICES ASSUME IInv, [Next]_vars PROVE IInv'
  OBVIOUS
<1>. USE DEF IInv
<1>1. ASSUME NEW n \in Name, NEW x \in Values[n], SetValue(n, x)
      PROVE  IInv'
  <2>1. x \in Int /\ Set(n, x) /\ rest' = rest
    BY <1>1, ValueAssumption DEF SetValue
  <2>2. TypeOK'
    BY <2>1, SetTypes DEF TypeOK
  <2>. QED
    BY <2>1, <2>2, SetKeepsFresh
<1>2. ASSUME NEW delta \in Deltas, GainCalibrate(delta)
      PROVE  IInv'
  BY <1>2, CalibrateInvariant
<1>3. ASSUME UserSetup
      PROVE  /\ val' = [val EXCEPT !["preamp_gain"] = det]
             /\ val' \in [Name -> Int] /\ det' \in Int
             /\ rest' \in Seq(Name) /\ status' \in {"ok", "error"}
  BY <1>3, OrderAssumption DEF UserSetup, TypeOK
<1>4. CASE StartSystem
  <2>1. UserSetup /\ hw' = Booted /\ stale' = Name
    BY <1>4 DEF StartSystem
  <2>2. TypeOK'
    BY <1>3, <2>1, LimitAssumption DEF TypeOK
  <2>3. val'["preamp_gain"] = det'
    BY <2>1, Names DEF UserSetup, TypeOK
  <2>4. stale' \cap Composite # {} /\ stale' \cap Gain # {} /\ "peaking_time" \in stale'
    BY <2>1, Names DEF Composite
  <2>. QED
    BY <2>2, <2>3, <2>4
       DEF RuleWhenFresh, PreampWhenFresh, FilterWhenFresh, ParamsWhenFresh
<1>5. CASE RemoveOther
  <2>1. UserSetup /\ hw' = hw /\ stale' = stale /\ det' = det
    BY <1>5 DEF RemoveOther, UserSetup
  <2>2. TypeOK'
    BY <1>3, <2>1 DEF TypeOK
  <2>3. /\ val \in [Name -> Int] /\ val' \in [Name -> Int]
        /\ val'["preamp_gain"] = det
        /\ \A p \in Name \ {"preamp_gain"} : val'[p] = val[p]
    BY <1>3, <2>1, <2>2, Names DEF TypeOK
  <2>4. RuleWhenFresh'
    <3>1. \A p \in Composite : val'[p] = val[p]
      BY <2>3, Names
    <3>. QED
      BY <2>1, <3>1 DEF RuleWhenFresh, RangeFollowsRule, Composite
  <2>5. PreampWhenFresh'
    BY <2>1, <2>3 DEF PreampWhenFresh
  <2>6. FilterWhenFresh'
    <3>1. "peaking_time" \in Name \ {"preamp_gain"}
      BY Names
    <3>. QED
      BY <2>1, <2>3, <3>1 DEF FilterWhenFresh
  <2>7. ParamsWhenFresh'
    <3>1. Computed(val, det, hw) = Computed(val', det, hw)
      BY <2>3, ComputedFrom
    <3>. QED
      BY <2>1, <3>1 DEF ParamsWhenFresh
  <2>. QED
    BY <2>2, <2>4, <2>5, <2>6, <2>7
<1>6. CASE SetEntry
  <2>1. rest # <<>> /\ rest \in Seq(Name)
    BY <1>6 DEF SetEntry, TypeOK
  <2>2. Head(rest) \in Name /\ Tail(rest) \in Seq(Name) /\ <<>> \in Seq(Name)
    BY <2>1
  <2>3. val[Head(rest)] \in Int
    BY <2>2 DEF TypeOK
  <2>4. Set(Head(rest), val[Head(rest)]) /\ rest' \in {Tail(rest), <<>>}
    BY <1>6 DEF SetEntry
  <2>5. TypeOK'
    BY <2>2, <2>3, <2>4, SetTypes DEF TypeOK
  <2>. QED
    BY <2>2, <2>3, <2>4, <2>5, SetKeepsFresh
<1>7. CASE UNCHANGED vars
  BY <1>7 DEF vars, TypeOK, RuleWhenFresh, RangeFollowsRule, PreampWhenFresh,
              FilterWhenFresh, ParamsWhenFresh, Computed, TotalGain, EVPerADC,
              ThresholdValue
<1>. QED
  BY <1>1, <1>2, <1>4, <1>5, <1>6, <1>7 DEF Next

\* The channel is always in one of the states IInv describes.
THEOREM Invariance == Spec => []IInv
<1>. QED
  BY InitInvariant, StepInvariant, PTL DEF Spec

\* The values stay numbers, and GAINDAC, whatever is set, calibrated or fails,
\* within what the amplifier can do.
THEOREM TypeCorrect == Spec => []TypeOK
<1>1. IInv => TypeOK
  BY DEF IInv
<1>. QED
  BY <1>1, Invariance, PTL

\* Once every value whose set failed has been set again with success, the
\* acquisition values, the Detector and the DSP agree, for every set of
\* thresholds, order of the list, range of the amplifier and fault.
THEOREM SettingHeals == Spec => []SettingAgainHeals
<1>1. IInv => SettingAgainHeals
  <2>. SUFFICES ASSUME IInv, stale = {} PROVE Consistent
    BY DEF SettingAgainHeals
  <2>. QED
    BY DEF IInv, RuleWhenFresh, PreampWhenFresh, FilterWhenFresh, ParamsWhenFresh,
           Consistent
<1>. QED
  BY <1>1, Invariance, PTL

\* Setting a channel up again never changes the values of a channel whose
\* composite values agree and whose Detector has the preamplifier gain.
THEOREM SetupIsIdempotent == Spec => SetupKeepsValues
<1>1. ASSUME IInv, [Next]_vars, rest' # rest, RangeFollowsRule, val["preamp_gain"] = det
      PROVE  UNCHANGED <<val, det>>
  <2>. USE <1>1
  <2>1. /\ val \in [Name -> Int] /\ det \in Int /\ rest \in Seq(Name)
        /\ Composite \subseteq Name /\ "preamp_gain" \in Name
    BY Names DEF IInv, TypeOK
  <2>2. CASE UserSetup
    BY <2>1, <2>2 DEF UserSetup
  <2>3. CASE SetEntry
    <3>. DEFINE n == Head(rest)
    <3>1. n \in Name
      BY <2>1, <2>3 DEF SetEntry
    <3>2. PICK ok \in BOOLEAN :
            val' = Settled(n, val[n], ok) /\ det' = DetectorAfter(n, val[n])
      <4>1. PICK o \in SetFunction(n, val[n]) :
              val' = Settled(n, val[n], o.ok) /\ det' = DetectorAfter(n, val[n])
        BY <2>3 DEF SetEntry, Set
      <4>2. o.ok \in BOOLEAN
        BY <2>1, <3>1, SetOutcomes DEF IInv
      <4>. QED
        BY <4>1, <4>2
    <3>. HIDE DEF n
    <3>3. \A p \in Composite : val[p] \in Int
      BY <2>1
    <3>4. Prepared(n, val[n]) = val
      BY <2>1, <3>1, <3>3 DEF Prepared, RangeFollowsRule, Composite
    <3>5. val' = val
      BY <2>1, <3>1, <3>2, <3>4 DEF Settled
    <3>6. det' = det
      BY <3>2 DEF DetectorAfter
    <3>. QED
      BY <3>5, <3>6
  <2>4. UserSetup \/ SetEntry
    BY DEF Next, SetValue, GainCalibrate, StartSystem, RemoveOther, vars
  <2>. QED
    BY <2>2, <2>3, <2>4
<1>2. IInv /\ [Next]_vars
        => [rest' # rest /\ RangeFollowsRule /\ val["preamp_gain"] = det
              => UNCHANGED <<val, det>>]_vars
  BY <1>1
<1>. QED
  BY <1>2, Invariance, PTL DEF Spec, SetupKeepsValues
=============================================================================
