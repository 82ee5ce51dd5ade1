-------------------------- MODULE UdxpValues_proofs --------------------------
(* What the calls of Handel do to the entries and the registers of a microDXP, *)
(* and that the entries stay true.                                            *)
EXTENDS UdxpValues, TLAPS

-----------------------------------------------------------------------------
(* What a call does to a board. *)

Fields == {"par", "super", "vega", "switched", "parsets", "gensets", "entry", "val",
           "got", "value", "room", "words", "budget"}
States == {"unknown", "synced", "absent"}

IsBoard(b) ==
    /\ b = [f \in Fields |-> b[f]]
    /\ b.par \in [Params -> Int] /\ \A p \in Params : b.par[p] \in RegisterValues(p)
    /\ b.super \in BOOLEAN /\ b.vega \in BOOLEAN /\ b.switched \in BOOLEAN
    /\ b.parsets = [x \in {0, 1} \X {0, 1} |-> b.parsets[x]]
    /\ \A x \in {0, 1} \X {0, 1} : \A p \in ParsetParams(b) :
          b.parsets[x][p] \in RegisterValues(p)
    /\ b.gensets = [x \in {0, 1} |-> b.gensets[x]]
    /\ \A x \in {0, 1} : \A p \in GensetParams(b) : b.gensets[x][p] \in RegisterValues(p)
    /\ b.entry \in [NameSet -> States] /\ b.val \in [NameSet -> Int]
    /\ b.entry["clock_speed"] = "synced" => b.val["clock_speed"] > 0
    /\ b.value \in Int /\ b.budget \in Nat

\* The registers of which an entry tells.
Sources(n) ==
    CASE n \in DOMAIN Register -> {Register[n]}
      [] n \in DOMAIN ClockRegister -> {ClockRegister[n], "CLOCK"}
      [] n \in DOMAIN FilterRegister -> {FilterRegister[n], "CLOCK", "FIPPI"}
      [] n \in DOMAIN HalfRegister -> {HalfRegister[n]}
      [] n = "clock_speed" -> {"CLOCK"}
      [] n = "peakint_offset" -> {"PEAKINT", "SLOWLEN", "SLOWGAP", "CLOCK", "FIPPI"}
      [] n = "peaksam_offset" -> {"PEAKSAM", "SLOWLEN", "SLOWGAP", "CLOCK", "FIPPI"}
      [] n = "baseline_length" -> {"BLFILTER"}
      [] n = "gain" -> {"SWGAIN", "DGAINBASE", "GAINBASE"}
      [] n = "auto_adjust_offset" -> {"RUNTASKS"}
      [] n = "preset_value" -> {"PRESETLEN", "PRESET"}
      [] n = "preamp_value" -> {"CODEVAR", "RESETINT", "TAURC", "CLOCK"}
      [] OTHER -> {}

\* The same board later.
SameBoard(b, c) ==
    /\ IsBoard(c)
    /\ c.super = b.super /\ c.vega = b.vega /\ c.switched = b.switched
    /\ c.budget <= b.budget
    /\ \A n \in NameSet : c.entry[n] = "absent" <=> b.entry[n] = "absent"

\* An entry that is synced is true.
Good(b, n) == b.entry[n] = "synced" => Agrees(b, n)

\* The clock is as it was, and its entry, if it was not known, has been read.
SameClock(b, c) ==
    /\ c.par["CLOCK"] = b.par["CLOCK"]
    /\ b.entry["clock_speed"] = "synced" =>
          c.entry["clock_speed"] = "synced" /\ c.val["clock_speed"] = b.val["clock_speed"]
    /\ b.entry["clock_speed"] # "synced" => Good(c, "clock_speed")

\* What may become of an entry where the registers of R change: it is left as it
\* is, it is not known any more, or it has been read from registers that stay.
Kept(b, c, n) == c.entry[n] = b.entry[n] /\ c.val[n] = b.val[n]
Learned(b, c, n, R) ==
    Sources(n) \cap R = {} /\ (Good(b, "clock_speed") => Agrees(c, n))
Tells(b, c, n, R) == Kept(b, c, n) \/ c.entry[n] # "synced" \/ Learned(b, c, n, R)

\* What a function does that changes registers of R only; of the entries of N
\* nothing is said.
Step(b, c, R, N) ==
    /\ SameBoard(b, c) /\ SameClock(b, c)
    /\ \A p \in Params \ R : c.par[p] = b.par[p]
    /\ \A n \in NameSet \ N : Tells(b, c, n, R)

\* An outcome of it: where no command failed, it is such a step.
Out(b, o, R, N) ==
    /\ o.ok \in BOOLEAN
    /\ SameBoard(b, o.m)
    /\ o.ok \/ o.m.budget = b.budget => o.m.budget = b.budget /\ Step(b, o.m, R, N)

\* A board with one thing changed.
WithField(b, f, x) == [b EXCEPT ![f] = x]
WithRegister(b, p, x) == [b EXCEPT !.par[p] = x]
WithEntries(b, e, v) == [b EXCEPT !.entry = e, !.val = v]

-----------------------------------------------------------------------------
(* Numbers. *)

\* A quotient of integers is an integer.
LEMMA DivisionType == ASSUME NEW n \in Int, NEW d \in Int, d > 0
                      PROVE  n \div d \in Int
  OBVIOUS

\* Rounding to units is an integer, and not negative where the number is not.
LEMMA RoundedType == ASSUME NEW x \in Int, NEW t \in Int, t > 0
                     PROVE  Rounded(x, t) \in Int /\ (x >= 0 => Rounded(x, t) >= 0)
<1>1. 2 * t \in Int /\ 2 * t > 0 /\ 2 * x + t \in Int /\ 2 * (-x) + t \in Int
  OBVIOUS
<1>2. (2 * x + t) \div (2 * t) \in Int /\ (2 * (-x) + t) \div (2 * t) \in Int
  BY <1>1, DivisionType
<1>3. x >= 0 => (2 * x + t) \div (2 * t) >= 0
  BY <1>1
<1>4. QED BY <1>2, <1>3 DEF Rounded

\* A multiple of the unit is rounded to itself.
LEMMA RoundedMultiple == ASSUME NEW x \in Int, NEW t \in Int, t > 0
                         PROVE  Rounded(x * t, t) = x
<1>1. ASSUME NEW y \in Int PROVE (2 * (y * t) + t) \div (2 * t) = y
  OBVIOUS
<1>2. CASE x < 0
  <2>1. x * t < 0 /\ -(x * t) = (-x) * t
    BY <1>2
  <2>2. (2 * (-(x * t)) + t) \div (2 * t) = -x
    BY <1>1, <2>1
  <2>3. QED BY <2>1, <2>2 DEF Rounded
<1>3. CASE x >= 0
  <2>1. x * t >= 0
    BY <1>3
  <2>2. QED BY <1>1, <2>1 DEF Rounded
<1>4. QED BY <1>2, <1>3

\* Rounding to a half is off by at most one half.
LEMMA RoundedHalves == ASSUME NEW x \in Int
                       PROVE  2 * Rounded(x, 2) - x \in {-1, 0, 1}
  BY DEF Rounded

\* What a register of 16 bits keeps of a number is a word.
LEMMA WordType == ASSUME NEW x \in Int
                  PROVE  Word(x) \in Int /\ 0 <= Word(x) /\ Word(x) < 65536
  BY SMT DEF Word
\* A word is kept as it is.
LEMMA WordOfWord == ASSUME NEW x \in Int, 0 <= x, x < 65536
                    PROVE  Word(x) = x
  BY SMT DEF Word
\* A small negative number wraps once.
LEMMA WordBelow == ASSUME NEW x \in Int, -65536 < x, x < 0
                   PROVE  Word(x) = 65536 + x
  BY SMT DEF Word

\* The decimations are powers of two, so they divide.
LEMMA Powers == \A i \in 0..7 : PowerOfTwo(i) \in Nat \ {0}
  BY DEF PowerOfTwo

-----------------------------------------------------------------------------
(* Boards. *)

\* The names of the acquisition values, one by one.
LEMMA NamesAre == NameSet =
    {"parset", "genset", "clock_speed", "energy_gap_time", "trigger_peak_time",
     "trigger_gap_time", "baseline_length", "trigger_threshold",
     "baseline_threshold", "energy_threshold", "number_mca_channels",
     "mca_bin_width", "fippi", "bytes_per_bin", "adc_trace_wait", "gain_trim",
     "gain", "polarity", "preamp_value", "fipcontrol", "runtasks",
     "peak_interval", "peak_sample", "max_width", "peak_mode",
     "baseline_factor", "peaking_time", "peakint_offset", "peaksam_offset",
     "trace_trigger_type", "trace_trigger_position", "number_of_scas",
     "sca_time_on", "sca_time_off", "auto_adjust_offset", "preset_type",
     "preset_value", "high_voltage", "sca0_lo", "sca1_hi"}
  BY DEF NameSet, Names, ToSet

\* Registers hold integers.
LEMMA ParamTypes == \A p \in Params : RegisterValues(p) \subseteq Int
  BY LimitsAssumption DEF RegisterValues

\* The period of the clock, the decimation and a tick are positive.
LEMMA ClockTypes == ASSUME NEW b, IsBoard(b)
                    PROVE  /\ Period(b.par["CLOCK"]) \in Nat \ {0}
                           /\ PowerOfTwo(Decimation(b)) \in Nat \ {0}
                           /\ TrueTick(b) \in Nat \ {0}
<1>1. b.par["CLOCK"] \in 0..3 /\ b.par["FIPPI"] \in {0, 1}
  BY DEF IsBoard, RegisterValues, Params, GlobalParams
<1>2. Period(b.par["CLOCK"]) \in Nat \ {0}
  BY <1>1, Powers DEF Period
<1>3. PowerOfTwo(Decimation(b)) \in Nat \ {0}
  BY <1>1, Powers DEF Decimation
<1>4. QED BY <1>2, <1>3 DEF TrueTick

\* Writing a field leaves the other fields.
LEMMA FieldSet == ASSUME NEW b, b = [f \in Fields |-> b[f]], NEW f \in Fields, NEW x
                  PROVE  LET c == WithField(b, f, x) IN
                         /\ c = [g \in Fields |-> c[g]]
                         /\ c[f] = x
                         /\ \A g \in Fields \ {f} : c[g] = b[g]
  BY DEF WithField

\* A board of which something else is set is a board.
LEMMA Scratch ==
  ASSUME NEW b, IsBoard(b), NEW f \in {"got", "value", "room", "words"}, NEW x,
         f = "value" => x \in Int, NEW c, c = WithField(b, f, x)
  PROVE  IsBoard(c) /\ c[f] = x /\ \A g \in Fields \ {f} : c[g] = b[g]
<1>1. f \in Fields /\ b = [g \in Fields |-> b[g]]
  BY DEF Fields, IsBoard
<1>2. c = [g \in Fields |-> c[g]] /\ c[f] = x /\ \A g \in Fields \ {f} : c[g] = b[g]
  BY <1>1, FieldSet
<1>3. \A g \in {"par", "super", "vega", "switched", "parsets", "gensets", "entry", "val",
                "budget"} : c[g] = b[g]
  BY <1>2 DEF Fields
<1>a. c["value"] \in Int
  BY <1>2 DEF IsBoard, Fields
<1>4. IsBoard(c)
  BY <1>2, <1>3, <1>a DEF IsBoard, ParsetParams, GensetParams
<1>5. QED BY <1>2, <1>4

\* The types of what functions use.
LEMMA BoardTypes ==
  ASSUME NEW b, IsBoard(b)
  PROVE  /\ b = [f \in Fields |-> b[f]]
         /\ b.par \in [Params -> Int]
         /\ b.entry \in [NameSet -> States] /\ b.val \in [NameSet -> Int]
         /\ b.value \in Int /\ b.budget \in Nat
  BY DEF IsBoard

\* Setting a register.
LEMMA RegisterSet ==
  ASSUME NEW b, IsBoard(b), NEW p \in Params, NEW x \in RegisterValues(p),
         NEW c, c = WithRegister(b, p, x)
  PROVE  /\ IsBoard(c)
         /\ c.par = [b.par EXCEPT ![p] = x]
         /\ \A g \in Fields \ {"par"} : c[g] = b[g]
<1>1. b = [g \in Fields |-> b[g]] /\ "par" \in Fields
  BY DEF Fields, IsBoard
<1>2. /\ c = [g \in Fields |-> c[g]] /\ c.par = [b.par EXCEPT ![p] = x]
      /\ \A g \in Fields \ {"par"} : c[g] = b[g]
  BY <1>1 DEF WithRegister
<1>3. \A g \in {"super", "vega", "switched", "parsets", "gensets", "entry", "val",
                "value", "budget"} : c[g] = b[g]
  BY <1>2 DEF Fields
<1>4. c.par \in [Params -> Int] /\ \A q \in Params : c.par[q] \in RegisterValues(q)
  <2>1. b.par \in [Params -> Int] /\ \A q \in Params : b.par[q] \in RegisterValues(q)
    BY DEF IsBoard
  <2>2. x \in Int
    BY ParamTypes
  <2>3. QED BY <1>2, <2>1, <2>2
<1>5. IsBoard(c)
  BY <1>2, <1>3, <1>4 DEF IsBoard, ParsetParams, GensetParams
<1>6. QED BY <1>2, <1>5

\* A command that failed.
LEMMA BudgetSpent ==
  ASSUME NEW b, IsBoard(b), NEW x \in Nat, NEW c, c = WithField(b, "budget", x)
  PROVE  /\ IsBoard(c)
         /\ c.budget = x
         /\ \A g \in Fields \ {"budget"} : c[g] = b[g]
<1>1. b = [g \in Fields |-> b[g]] /\ "budget" \in Fields
  BY DEF Fields, IsBoard
<1>2. /\ c = [g \in Fields |-> c[g]] /\ c["budget"] = x
      /\ \A g \in Fields \ {"budget"} : c[g] = b[g]
  BY <1>1, FieldSet
<1>3. \A g \in {"par", "super", "vega", "switched", "parsets", "gensets", "entry", "val",
                "value"} : c[g] = b[g]
  BY <1>2 DEF Fields
<1>4. IsBoard(c)
  BY <1>2, <1>3 DEF IsBoard, ParsetParams, GensetParams
<1>5. QED BY <1>2, <1>4

\* Setting an entry.
LEMMA EntriesSet ==
  ASSUME NEW b, IsBoard(b), NEW e \in [NameSet -> States], NEW v \in [NameSet -> Int],
         e["clock_speed"] = "synced" => v["clock_speed"] > 0,
         NEW c, c = WithEntries(b, e, v)
  PROVE  /\ IsBoard(c)
         /\ c.entry = e /\ c.val = v
         /\ \A g \in Fields \ {"entry", "val"} : c[g] = b[g]
<1>1. b = [g \in Fields |-> b[g]] /\ "entry" \in Fields /\ "val" \in Fields
  BY DEF Fields, IsBoard
<1>2. /\ c = [g \in Fields |-> c[g]] /\ c.entry = e /\ c.val = v
      /\ \A g \in Fields \ {"entry", "val"} : c[g] = b[g]
  BY <1>1 DEF WithEntries
<1>3. \A g \in {"par", "super", "vega", "switched", "parsets", "gensets", "value",
                "budget"} : c[g] = b[g]
  BY <1>2 DEF Fields
<1>4. IsBoard(c)
  BY <1>2, <1>3 DEF IsBoard, ParsetParams, GensetParams
<1>5. QED BY <1>2, <1>4

-----------------------------------------------------------------------------
(* The same registers give the same values. *)

\* A value is made of its registers, of what sort of board it is, and no more.
LEMMA SameActual ==
  ASSUME NEW b, NEW c, b.super = c.super, b.vega = c.vega, b.switched = c.switched,
         NEW n \in NameSet, \A p \in Sources(n) : b.par[p] = c.par[p],
         n \notin {"bytes_per_bin", "adc_trace_wait"}
  PROVE  Actual(b, n) = Actual(c, n)
<1> USE DEF Actual, Sources, Register, ClockRegister, FilterRegister, HalfRegister
<1>1. CASE n \in DOMAIN Register
  BY <1>1
<1>2. CASE n \in DOMAIN ClockRegister
  BY <1>2
<1>3. CASE n \in DOMAIN FilterRegister
  BY <1>3 DEF TrueTick, Decimation
<1>4. CASE n \in DOMAIN HalfRegister
  BY <1>4
<1>5. CASE n \in {"clock_speed", "baseline_length", "gain", "auto_adjust_offset"}
  BY <1>5 DEF BaseGain
<1>6. CASE n \in {"peakint_offset", "peaksam_offset"}
  BY <1>6 DEF TrueTick, Decimation, Length
<1>7. CASE n \in {"preset_value", "preamp_value"}
  BY <1>7
<1>8. QED
  BY <1>1, <1>2, <1>3, <1>4, <1>5, <1>6, <1>7, NamesAre

\* The same registers make a number true or not.
LEMMA SameFit ==
  ASSUME NEW b, NEW c, b.super = c.super, b.vega = c.vega, b.switched = c.switched,
         NEW n \in NameSet, \A p \in Sources(n) : b.par[p] = c.par[p], NEW x
  PROVE  Fits(b, n, x) <=> Fits(c, n, x)
<1>1. n = "preset_value" => "PRESET" \in Sources(n)
  BY DEF Sources, Register, ClockRegister, FilterRegister, HalfRegister
<1>2. n \in HostValues(b) <=> n \in HostValues(c)
  BY <1>1 DEF HostValues
<1>3. CASE n \in {"bytes_per_bin", "adc_trace_wait"}
  BY <1>3 DEF Fits, HostValues
<1>4. CASE n \notin {"bytes_per_bin", "adc_trace_wait"}
  BY <1>2, <1>4, SameActual DEF Fits
<1>5. QED BY <1>3, <1>4

\* The registers of each name, written out.
LEMMA SourcesAre ==
  /\ Sources("parset") = {"PARSET"} /\ Sources("genset") = {"GENSET"}
  /\ Sources("fippi") = {"FIPPI"} /\ Sources("trigger_threshold") = {"THRESHT"}
  /\ Sources("baseline_threshold") = {"THRESHB"}
  /\ Sources("energy_threshold") = {"THRESHE"}
  /\ Sources("number_mca_channels") = {"MCALEN"}
  /\ Sources("mca_bin_width") = {"BINWIDTH"} /\ Sources("polarity") = {"POLARITY"}
  /\ Sources("fipcontrol") = {"FIPCONTROL"} /\ Sources("runtasks") = {"RUNTASKS"}
  /\ Sources("peak_mode") = {"PEAKMODE"} /\ Sources("baseline_factor") = {"BFACTOR"}
  /\ Sources("trace_trigger_type") = {"TRACETRIG"}
  /\ Sources("trace_trigger_position") = {"TRACEPRETRIG"}
  /\ Sources("number_of_scas") = {"NUMSCA"} /\ Sources("sca0_lo") = {"SCA0LO"}
  /\ Sources("sca1_hi") = {"SCA1HI"} /\ Sources("preset_type") = {"PRESET"}
  /\ Sources("trigger_peak_time") = {"FASTLEN", "CLOCK"}
  /\ Sources("trigger_gap_time") = {"FASTGAP", "CLOCK"}
  /\ Sources("max_width") = {"MAXWIDTH", "CLOCK"}
  /\ Sources("energy_gap_time") = {"SLOWGAP", "CLOCK", "FIPPI"}
  /\ Sources("peaking_time") = {"SLOWLEN", "CLOCK", "FIPPI"}
  /\ Sources("peak_interval") = {"PEAKINT", "CLOCK", "FIPPI"}
  /\ Sources("peak_sample") = {"PEAKSAM", "CLOCK", "FIPPI"}
  /\ Sources("gain_trim") = {"GAINTWEAK"} /\ Sources("sca_time_on") = {"SCATIMEON"}
  /\ Sources("sca_time_off") = {"SCATIMEOFF"} /\ Sources("high_voltage") = {"VOLTS"}
  /\ Sources("clock_speed") = {"CLOCK"}
  /\ Sources("peakint_offset") = {"PEAKINT", "SLOWLEN", "SLOWGAP", "CLOCK", "FIPPI"}
  /\ Sources("peaksam_offset") = {"PEAKSAM", "SLOWLEN", "SLOWGAP", "CLOCK", "FIPPI"}
  /\ Sources("baseline_length") = {"BLFILTER"}
  /\ Sources("gain") = {"SWGAIN", "DGAINBASE", "GAINBASE"}
  /\ Sources("auto_adjust_offset") = {"RUNTASKS"}
  /\ Sources("preset_value") = {"PRESETLEN", "PRESET"}
  /\ Sources("preamp_value") = {"CODEVAR", "RESETINT", "TAURC", "CLOCK"}
  /\ Sources("bytes_per_bin") = {} /\ Sources("adc_trace_wait") = {}
  BY DEF Sources, Register, ClockRegister, FilterRegister, HalfRegister

\* They are registers.
LEMMA SourcesType == \A n \in NameSet : Sources(n) \subseteq Params
<1> SUFFICES ASSUME NEW n \in NameSet PROVE Sources(n) \subseteq Params
  OBVIOUS
<1>1. \A p \in {"PARSET", "GENSET", "FIPPI", "THRESHT", "THRESHB", "THRESHE", "MCALEN",
               "BINWIDTH", "POLARITY", "FIPCONTROL", "RUNTASKS", "PEAKMODE", "BFACTOR",
               "TRACETRIG", "TRACEPRETRIG", "NUMSCA", "SCA0LO", "SCA1HI", "PRESET",
               "FASTLEN", "FASTGAP", "MAXWIDTH", "SLOWGAP", "SLOWLEN", "PEAKINT",
               "PEAKSAM", "GAINTWEAK", "SCATIMEON", "SCATIMEOFF", "VOLTS", "CLOCK",
               "BLFILTER", "SWGAIN", "DGAINBASE", "GAINBASE", "PRESETLEN", "CODEVAR",
               "RESETINT", "TAURC"} : p \in Params
  BY DEF Params, FilterParams, EnergyParams, SpectrumParams, GlobalParams
<1>2. QED BY <1>1, SourcesAre, NamesAre

-----------------------------------------------------------------------------
(* Steps. *)

\* What two boards with the same clock believe of it.
LEMMA ClockBelief ==
  ASSUME NEW b, NEW c, SameBoard(b, c), SameClock(b, c)
  PROVE  Good(b, "clock_speed") <=> Good(c, "clock_speed")
<1>1. "clock_speed" \in NameSet
  BY NamesAre
<1>2. \A p \in Sources("clock_speed") : b.par[p] = c.par[p]
  BY SourcesAre DEF SameClock
<1>3. CASE b.entry["clock_speed"] = "synced"
  <2>1. Fits(b, "clock_speed", b.val["clock_speed"])
          <=> Fits(c, "clock_speed", b.val["clock_speed"])
    BY <1>1, <1>2, SameFit DEF SameBoard
  <2>2. QED BY <1>3, <2>1 DEF Good, Agrees, SameClock
<1>4. CASE b.entry["clock_speed"] # "synced"
  BY <1>4 DEF Good, SameClock
<1>5. QED BY <1>3, <1>4

\* A board is the same board as itself.
LEMMA BoardSelf == ASSUME NEW b, IsBoard(b) PROVE SameBoard(b, b)
  BY BoardTypes DEF SameBoard

\* Being the same board is transitive.
LEMMA BoardThen ==
  ASSUME NEW b, NEW c, NEW d, IsBoard(b), SameBoard(b, c), SameBoard(c, d)
  PROVE  SameBoard(b, d)
<1>1. b.budget \in Int /\ c.budget \in Int /\ d.budget \in Int
  BY BoardTypes DEF SameBoard
<1>2. QED BY <1>1 DEF SameBoard

\* Doing nothing is a step of a board.
LEMMA StepSelf == ASSUME NEW b, IsBoard(b), NEW R, NEW N PROVE Step(b, b, R, N)
  BY BoardSelf DEF Step, SameClock, Tells, Kept, Good

\* An entry is true as long as its registers stay.
LEMMA AgreesStay ==
  ASSUME NEW b, NEW c, SameBoard(b, c), NEW n \in NameSet, Agrees(b, n),
         c.val[n] = b.val[n], \A p \in Sources(n) : c.par[p] = b.par[p]
  PROVE  Agrees(c, n)
  BY SameFit DEF SameBoard, Agrees

\* Two steps that write the same registers and entries are one.
LEMMA StepThen ==
  ASSUME NEW b, NEW c, NEW d, IsBoard(b), NEW R, NEW N,
         Step(b, c, R, N), Step(c, d, R, N)
  PROVE  Step(b, d, R, N)
<1>1. SameBoard(b, c) /\ SameBoard(c, d) /\ SameClock(b, c) /\ SameClock(c, d)
  BY DEF Step
<1>2. SameBoard(b, d)
  BY <1>1, BoardThen
<1>3. SameClock(b, d)
  <2>1. b.par["CLOCK"] = d.par["CLOCK"]
    BY <1>1 DEF SameClock
  <2>2. CASE b.entry["clock_speed"] = "synced"
    BY <1>1, <2>1, <2>2 DEF SameClock
  <2>3. CASE b.entry["clock_speed"] # "synced"
    <3>1. Good(c, "clock_speed")
      BY <1>1, <2>3 DEF SameClock
    <3>2. Good(d, "clock_speed")
      BY <1>1, <3>1, ClockBelief
    <3>3. QED BY <2>1, <2>3, <3>2 DEF SameClock
  <2>4. QED BY <2>2, <2>3
<1>4. \A p \in Params \ R : d.par[p] = b.par[p]
  BY DEF Step
<1>5. ASSUME NEW n \in NameSet \ N PROVE Tells(b, d, n, R)
  <2>1. Tells(b, c, n, R) /\ Tells(c, d, n, R)
    BY DEF Step
  <2>2. CASE d.entry[n] # "synced"
    BY <2>2 DEF Tells
  <2>3. CASE Learned(c, d, n, R)
    BY <2>3, <1>1, ClockBelief DEF Tells, Learned
  <2>4. CASE Kept(c, d, n)
    <3>1. CASE Kept(b, c, n)
      BY <2>4, <3>1 DEF Tells, Kept
    <3>2. CASE c.entry[n] # "synced"
      BY <2>4, <3>2 DEF Tells, Kept
    <3>3. CASE Learned(b, c, n, R)
      <4>1. \A p \in Sources(n) : d.par[p] = c.par[p]
        BY <3>3, SourcesType DEF Learned, Step
      <4>2. Agrees(c, n) => Agrees(d, n)
        BY <1>1, <2>4, <4>1, AgreesStay DEF Kept
      <4>3. QED BY <3>3, <4>2 DEF Tells, Learned
    <3>4. QED BY <2>1, <3>1, <3>2, <3>3 DEF Tells
  <2>5. QED BY <2>1, <2>2, <2>3, <2>4 DEF Tells
<1>6. QED BY <1>2, <1>3, <1>4, <1>5 DEF Step

\* What follows an outcome that succeeded.
LEMMA OutThen ==
  ASSUME NEW b, IsBoard(b), NEW z, NEW o, NEW R, NEW N,
         Out(b, z, R, N), z.ok, Out(z.m, o, R, N)
  PROVE  Out(b, o, R, N)
<1>1. SameBoard(b, o.m)
  BY BoardThen DEF Out
<1>2. ASSUME o.ok \/ o.m.budget = b.budget
      PROVE  o.m.budget = b.budget /\ Step(b, o.m, R, N)
  <2>1. z.m.budget = b.budget /\ Step(b, z.m, R, N)
    BY DEF Out
  <2>2. o.m.budget = z.m.budget /\ Step(z.m, o.m, R, N)
    BY <1>2, <2>1 DEF Out
  <2>3. QED BY <2>1, <2>2, StepThen
<1>3. QED BY <1>1, <1>2 DEF Out

\* The same of a step before a function, and of a step after it.
LEMMA StepOut ==
  ASSUME NEW b, IsBoard(b), NEW c, NEW o, NEW R, NEW N,
         Step(b, c, R, N), c.budget = b.budget, Out(c, o, R, N)
  PROVE  Out(b, o, R, N)
<1>1. SameBoard(b, o.m)
  BY BoardThen DEF Out, Step
<1>2. ASSUME o.ok \/ o.m.budget = b.budget
      PROVE  o.m.budget = b.budget /\ Step(b, o.m, R, N)
  <2>1. o.m.budget = c.budget /\ Step(c, o.m, R, N)
    BY <1>2 DEF Out
  <2>2. QED BY <2>1, StepThen
<1>3. QED BY <1>1, <1>2 DEF Out

-----------------------------------------------------------------------------
(* Single operations as outcomes. *)

\* The only outcome of Done.
LEMMA DoneIs == ASSUME NEW c, NEW o, o \in Done(c) PROVE o.ok = TRUE /\ o.m = c
  BY DEF Done
\* The only outcome of Refused.
LEMMA RefusedIs == ASSUME NEW c, NEW o, o \in Refused(c) PROVE o.ok = FALSE /\ o.m = c
  BY DEF Refused

\* A call that ends well after a step is an outcome.
LEMMA DoneOut ==
  ASSUME NEW b, NEW c, NEW o, o \in Done(c), NEW R, NEW N, Step(b, c, R, N),
         c.budget = b.budget
  PROVE  Out(b, o, R, N) /\ o.ok /\ o.m = c
  BY DoneIs DEF Out, Step

\* A call that is refused after a step is an outcome.
LEMMA RefusedOut ==
  ASSUME NEW b, NEW c, NEW o, o \in Refused(c), NEW R, NEW N, Step(b, c, R, N),
         c.budget = b.budget
  PROVE  Out(b, o, R, N) /\ ~o.ok /\ o.m = c
  BY RefusedIs DEF Out, Step

\* The board refuses at once.
LEMMA RefusedAtOnce ==
  ASSUME NEW b, IsBoard(b), NEW o, o \in Refused(b), NEW R, NEW N
  PROVE  Out(b, o, R, N) /\ ~o.ok /\ o.m = b
  BY StepSelf, RefusedOut

\* A fault that is spent leaves a board with fewer of them.
LEMMA SpentBoard ==
  ASSUME NEW b, NEW n, IsBoard(b), SameBoard(b, n), b.budget # 0,
         NEW c, c = WithField(n, "budget", b.budget - 1)
  PROVE  SameBoard(b, c) /\ c.budget < b.budget
<1>1. IsBoard(n) /\ b.budget \in Nat /\ b.budget - 1 \in Nat /\ b.budget - 1 < b.budget
  BY BoardTypes DEF SameBoard
<1> DEFINE x == b.budget - 1
<1>a. x \in Nat /\ c = WithField(n, "budget", x)
  BY <1>1
<1> HIDE DEF x
<1>b. IsBoard(c) /\ c.budget = x /\ \A g \in Fields \ {"budget"} : c[g] = n[g]
  <2>1. IsBoard(n)
    BY <1>1
  <2>2. QED BY <2>1, <1>a, BudgetSpent
<1>2. IsBoard(c) /\ c.budget = b.budget - 1 /\ \A g \in Fields \ {"budget"} : c[g] = n[g]
  BY <1>b DEF x
<1>3. c.super = n.super /\ c.vega = n.vega /\ c.switched = n.switched /\ c.entry = n.entry
  BY <1>2 DEF Fields
<1>4. QED BY <1>1, <1>2, <1>3 DEF SameBoard

\* A command does what it does, or fails and spends of the budget.
LEMMA CommandOut ==
  ASSUME NEW b, IsBoard(b), NEW n, NEW o, o \in Command(b, n), NEW R, NEW N,
         Step(b, n, R, N), n.budget = b.budget
  PROVE  Out(b, o, R, N) /\ (o.ok => o.m = n)
<1>1. CASE o \in Done(n)
  BY <1>1, DoneOut
<1>2. CASE b.budget # 0 /\ o \in Refused(WithField(b, "budget", b.budget - 1))
  <2>1. ~o.ok /\ o.ok \in BOOLEAN /\ o.m = WithField(b, "budget", b.budget - 1)
    BY <1>2, RefusedIs
  <2>2. SameBoard(b, o.m) /\ o.m.budget < b.budget
    BY <1>2, <2>1, SpentBoard, BoardSelf
  <2>3. o.m.budget # b.budget
    BY <2>2, BoardTypes
  <2>4. QED BY <2>1, <2>2, <2>3 DEF Out
<1>3. CASE b.budget # 0 /\ o \in Refused(WithField(n, "budget", b.budget - 1))
  <2>1. ~o.ok /\ o.ok \in BOOLEAN /\ o.m = WithField(n, "budget", b.budget - 1)
    BY <1>3, RefusedIs
  <2>2. SameBoard(b, o.m) /\ o.m.budget < b.budget
    BY <1>3, <2>1, SpentBoard DEF Step
  <2>3. o.m.budget # b.budget
    BY <2>2, BoardTypes
  <2>4. QED BY <2>1, <2>2, <2>3 DEF Out
<1>4. QED BY <1>1, <1>2, <1>3 DEF Command, WithField

\* What is written into a field that nothing depends on.
LEMMA ScratchStep ==
  ASSUME NEW b, IsBoard(b), NEW f \in {"got", "value", "room", "words"}, NEW x,
         f = "value" => x \in Int, NEW c, c = WithField(b, f, x), NEW R, NEW N
  PROVE  /\ Step(b, c, R, N) /\ c[f] = x /\ \A g \in Fields \ {f} : c[g] = b[g]
         /\ c.budget = b.budget /\ c.par = b.par /\ c.entry = b.entry /\ c.val = b.val
<1>1. IsBoard(c) /\ c[f] = x /\ \A g \in Fields \ {f} : c[g] = b[g]
  BY Scratch
<1>2. \A g \in {"par", "super", "vega", "switched", "entry", "val", "budget"} : c[g] = b[g]
  BY <1>1 DEF Fields
<1>3. SameBoard(b, c)
  BY <1>1, <1>2, BoardTypes DEF SameBoard
<1>4. b.entry["clock_speed"] # "synced" => Good(c, "clock_speed")
  BY <1>2 DEF Good
<1>5. Step(b, c, R, N)
  BY <1>2, <1>3, <1>4 DEF Step, SameClock, Tells, Kept
<1>6. QED BY <1>1, <1>2, <1>5

\* Writing a register, other than the clock's, is a step that writes it.
LEMMA RegisterStep ==
  ASSUME NEW b, IsBoard(b), NEW p \in Params, NEW x \in RegisterValues(p),
         NEW c, c = WithRegister(b, p, x), NEW R, NEW N, p \in R, p # "CLOCK"
  PROVE  /\ Step(b, c, R, N) /\ c.par = [b.par EXCEPT ![p] = x]
         /\ \A g \in Fields \ {"par"} : c[g] = b[g]
         /\ c.budget = b.budget /\ c.entry = b.entry /\ c.val = b.val
<1>1. IsBoard(c) /\ c.par = [b.par EXCEPT ![p] = x] /\ \A g \in Fields \ {"par"} : c[g] = b[g]
  BY RegisterSet
<1>2. \A g \in {"super", "vega", "switched", "entry", "val", "budget"} : c[g] = b[g]
  BY <1>1 DEF Fields
<1>3. SameBoard(b, c)
  BY <1>1, <1>2, BoardTypes DEF SameBoard
<1>4. b.entry["clock_speed"] # "synced" => Good(c, "clock_speed")
  BY <1>2 DEF Good
<1>5. b.par \in [Params -> Int]
  BY BoardTypes
<1>6. \A q \in Params \ R : c.par[q] = b.par[q]
  BY <1>1, <1>5
<1>7. c.par["CLOCK"] = b.par["CLOCK"]
  BY <1>1, <1>5 DEF Params, GlobalParams
<1>8. Step(b, c, R, N)
  BY <1>2, <1>3, <1>4, <1>6, <1>7 DEF Step, SameClock, Tells, Kept
<1>9. QED BY <1>1, <1>2, <1>8

\* Reading a register changes nothing and answers with what is in it.
LEMMA ReadOut ==
  ASSUME NEW b, IsBoard(b), NEW p \in Params, NEW o, o \in Read(b, p), NEW R, NEW N
  PROVE  /\ Out(b, o, R, N)
         /\ o.ok => /\ o.m = WithField(b, "got", b.par[p]) /\ o.m.got = b.par[p]
                    /\ o.m.got \in Int /\ o.m.par = b.par /\ o.m.entry = b.entry
                    /\ o.m.val = b.val
<1> DEFINE c == WithField(b, "got", b.par[p])
<1>1. o \in Command(b, c)
  BY DEF Read, WithField
<1>2. c = WithField(b, "got", b.par[p])
  OBVIOUS
<1> HIDE DEF c
<1>3. /\ Step(b, c, R, N) /\ c.budget = b.budget /\ c["got"] = b.par[p]
      /\ c.par = b.par /\ c.entry = b.entry /\ c.val = b.val
  BY <1>2, ScratchStep
<1>4. Out(b, o, R, N) /\ (o.ok => o.m = c)
  BY <1>1, <1>3, CommandOut
<1>5. b.par[p] \in Int
  BY BoardTypes
<1>6. QED BY <1>2, <1>3, <1>4, <1>5

\* Writing a register writes that one or, when it fails, is a step still.
LEMMA WriteOut ==
  ASSUME NEW b, IsBoard(b), NEW p \in Params, NEW x \in RegisterValues(p), NEW o,
         o \in Write(b, p, x), NEW R, NEW N, p \in R, p # "CLOCK"
  PROVE  /\ Out(b, o, R, N)
         /\ o.ok => /\ o.m.par = [b.par EXCEPT ![p] = x] /\ o.m.par[p] = x
                    /\ \A g \in Fields \ {"par"} : o.m[g] = b[g]
                    /\ o.m.got = b.got /\ o.m.value = b.value
                    /\ o.m.entry = b.entry /\ o.m.val = b.val
<1> DEFINE c == WithRegister(b, p, x)
<1>1. o \in Command(b, c)
  BY DEF Write, WithRegister
<1>2. c = WithRegister(b, p, x)
  OBVIOUS
<1> HIDE DEF c
<1>3. /\ Step(b, c, R, N) /\ c.par = [b.par EXCEPT ![p] = x]
      /\ \A g \in Fields \ {"par"} : c[g] = b[g]
      /\ c.budget = b.budget /\ c.entry = b.entry /\ c.val = b.val
  BY <1>2, RegisterStep
<1>4. Out(b, o, R, N) /\ (o.ok => o.m = c)
  BY <1>1, <1>3, CommandOut
<1>5. c["got"] = b["got"] /\ c["value"] = b["value"] /\ c.par[p] = x
  BY <1>3, BoardTypes DEF Fields
<1>6. QED BY <1>3, <1>4, <1>5

\* p has been written.
Wrote(b, o, p, x, R, N) ==
    /\ Out(b, o, R, N)
    /\ o.ok => /\ o.m.par = [b.par EXCEPT ![p] = x] /\ o.m.par[p] = x
               /\ o.m.got = b.got /\ o.m.value = b.value
               /\ o.m.entry = b.entry /\ o.m.val = b.val

\* The same, as the relation the setters use.
LEMMA WriteFine ==
  ASSUME NEW b, IsBoard(b), NEW p \in Params, NEW x \in RegisterValues(p), NEW o,
         o \in Write(b, p, x), NEW R, NEW N, p \in R, p # "CLOCK"
  PROVE  Wrote(b, o, p, x, R, N)
  BY WriteOut DEF Wrote

\* A set ends with its value.
LEMMA ValuedOut ==
  ASSUME NEW b, IsBoard(b), NEW v \in Int, NEW o, o \in Valued(b, v), NEW R, NEW N
  PROVE  /\ Out(b, o, R, N) /\ o.ok /\ o.m.value = v
         /\ o.m.par = b.par /\ o.m.entry = b.entry /\ o.m.val = b.val
<1> DEFINE c == WithField(b, "value", v)
<1>1. o \in Done(c)
  BY DEF Valued, WithField
<1>2. c = WithField(b, "value", v)
  OBVIOUS
<1> HIDE DEF c
<1>3. /\ Step(b, c, R, N) /\ c.budget = b.budget /\ c["value"] = v
      /\ c.par = b.par /\ c.entry = b.entry /\ c.val = b.val
  BY <1>2, ScratchStep
<1>4. Out(b, o, R, N) /\ o.ok /\ o.m = c
  BY <1>1, <1>3, DoneOut
<1>5. QED BY <1>3, <1>4

\* A get ends with what it got.
LEMMA GotOut ==
  ASSUME NEW b, IsBoard(b), NEW v, NEW c, c = WithField(b, "got", v), NEW o,
         o \in Done(c), NEW R, NEW N
  PROVE  /\ Out(b, o, R, N) /\ o.ok /\ o.m.got = v
         /\ o.m.par = b.par /\ o.m.entry = b.entry /\ o.m.val = b.val
<1>3. /\ Step(b, c, R, N) /\ c.budget = b.budget /\ c["got"] = v
      /\ c.par = b.par /\ c.entry = b.entry /\ c.val = b.val
  BY ScratchStep
<1>4. Out(b, o, R, N) /\ o.ok /\ o.m = c
  BY <1>3, DoneOut
<1>5. QED BY <1>3, <1>4

-----------------------------------------------------------------------------
(* The cache. *)

\* The entries are what is new.
Recorded(b, c, e, v) ==
    /\ c.entry = e /\ c.val = v /\ c.budget = b.budget /\ c.par = b.par
    /\ \A g \in Fields \ {"entry", "val"} : c[g] = b[g]

\* Entries that a step may leave where the registers of R change.
Tenable(b, e, v, R, N) ==
    /\ e \in [NameSet -> States] /\ v \in [NameSet -> Int]
    /\ \A n \in NameSet : e[n] = "absent" <=> b.entry[n] = "absent"
    /\ b.entry["clock_speed"] = "synced" =>
           e["clock_speed"] = "synced" /\ v["clock_speed"] = b.val["clock_speed"]
    /\ e["clock_speed"] = "synced" /\ b.entry["clock_speed"] # "synced" =>
           v["clock_speed"] > 0 /\ Fits(b, "clock_speed", v["clock_speed"])
    /\ \A n \in NameSet \ N :
           \/ e[n] = b.entry[n] /\ v[n] = b.val[n]
           \/ e[n] # "synced"
           \/ Sources(n) \cap R = {} /\ (Good(b, "clock_speed") => Fits(b, n, v[n]))

\* What may be done to the entries alone.
LEMMA EntriesStep ==
  ASSUME NEW b, IsBoard(b), NEW e, NEW v, NEW R, NEW N, Tenable(b, e, v, R, N),
         NEW c, c = WithEntries(b, e, v)
  PROVE  Step(b, c, R, N) /\ Recorded(b, c, e, v)
<1> USE DEF Tenable
<1>0. "clock_speed" \in NameSet
  BY NamesAre
<1>1. e["clock_speed"] = "synced" => v["clock_speed"] > 0
  BY DEF IsBoard
<1>2. /\ IsBoard(c) /\ c.entry = e /\ c.val = v
      /\ \A g \in Fields \ {"entry", "val"} : c[g] = b[g]
  BY <1>1, EntriesSet
<1>3. \A g \in {"par", "super", "vega", "switched", "budget"} : c[g] = b[g]
  BY <1>2 DEF Fields
<1>4. SameBoard(b, c)
  BY <1>2, <1>3, BoardTypes DEF SameBoard
<1>5. ASSUME NEW n \in NameSet, NEW x PROVE Fits(b, n, x) <=> Fits(c, n, x)
  BY <1>3, SameFit
<1>6. SameClock(b, c)
  BY <1>0, <1>2, <1>3, <1>5 DEF SameClock, Good, Agrees
<1>7. \A n \in NameSet \ N : Tells(b, c, n, R)
  BY <1>2, <1>5 DEF Tells, Kept, Learned, Agrees
<1>8. QED BY <1>2, <1>3, <1>4, <1>6, <1>7 DEF Step, Recorded

\* Entries may be forgotten.
Forgets(b, e) ==
    /\ e \in [NameSet -> States]
    /\ \A n \in NameSet : e[n] = "absent" <=> b.entry[n] = "absent"
    /\ e["clock_speed"] = b.entry["clock_speed"]
    /\ \A n \in NameSet : e[n] = b.entry[n] \/ e[n] # "synced"

\* Forgetting entries is a step.
LEMMA ForgottenStep ==
  ASSUME NEW b, IsBoard(b), NEW e, Forgets(b, e),
         NEW c, c = WithEntries(b, e, b.val), NEW R, NEW N
  PROVE  Step(b, c, R, N) /\ Recorded(b, c, e, b.val)
<1> DEFINE v == b.val
<1> USE DEF Forgets
<1>1. v \in [NameSet -> Int] /\ c = WithEntries(b, e, v)
  BY BoardTypes
<1>2. \A n \in NameSet : (e[n] = b.entry[n] /\ v[n] = b.val[n]) \/ e[n] # "synced"
  OBVIOUS
<1>3. v = b.val /\ v["clock_speed"] = b.val["clock_speed"]
  OBVIOUS
<1> HIDE DEF v
<1>4. \A n \in NameSet \ N :
         \/ e[n] = b.entry[n] /\ v[n] = b.val[n]
         \/ e[n] # "synced"
         \/ Sources(n) \cap R = {} /\ (Good(b, "clock_speed") => Fits(b, n, v[n]))
  BY <1>2
<1>5. Step(b, c, R, N) /\ Recorded(b, c, e, v)
  <2>1. Tenable(b, e, v, R, N)
    BY <1>1, <1>3, <1>4 DEF Tenable
  <2>2. QED BY <1>1, <2>1, EntriesStep
<1>6. QED BY <1>3, <1>5 DEF Recorded

\* UDXP_INVALIDATE: the entry is not synced afterwards, the others stay.
LEMMA InvalidateOut ==
  ASSUME NEW b, IsBoard(b), NEW n \in NameSet \ {"clock_speed"}, NEW o,
         o \in Invalidate(b, n), NEW R, NEW N
  PROVE  /\ Out(b, o, R, N) /\ o.m.par = b.par /\ o.m.got = b.got
         /\ o.ok => o.m.entry[n] = "unknown"
         /\ \A m \in NameSet \ {n} : Kept(b, o.m, m)
         /\ Kept(b, o.m, n) \/ o.m.entry[n] = "unknown"
<1>1. CASE b.entry[n] = "absent"
  BY <1>1, RefusedAtOnce DEF Invalidate, Kept
<1>2. CASE b.entry[n] # "absent"
  <2> DEFINE e == [b.entry EXCEPT ![n] = "unknown"]
             c == WithEntries(b, e, b.val)
  <2>1. /\ b = [f \in Fields |-> b[f]] /\ b.val \in [NameSet -> Int]
        /\ b.entry \in [NameSet -> States]
    BY BoardTypes
  <2>2. [b EXCEPT !.entry[n] = "unknown"] = c
    BY <2>1 DEF WithEntries, Fields
  <2>3. o \in Done(c)
    BY <1>2, <2>2 DEF Invalidate
  <2>4. e \in [NameSet -> States]
    BY <2>1 DEF States
  <2>5. \A m \in NameSet : e[m] = "absent" <=> b.entry[m] = "absent"
    BY <1>2, <2>1
  <2>6. e["clock_speed"] = b.entry["clock_speed"]
    BY <2>1, NamesAre
  <2>7. \A m \in NameSet : e[m] = b.entry[m] \/ e[m] # "synced"
    BY <2>1
  <2>8. e[n] = "unknown" /\ \A m \in NameSet \ {n} : e[m] = b.entry[m]
    BY <2>1
  <2>9. c = WithEntries(b, e, b.val)
    OBVIOUS
  <2> HIDE DEF e, c
  <2>10. Step(b, c, R, N) /\ Recorded(b, c, e, b.val)
    <3>1. Forgets(b, e)
      BY <2>4, <2>5, <2>6, <2>7 DEF Forgets
    <3>2. QED BY <2>9, <3>1, ForgottenStep
  <2>11. c["got"] = b["got"]
    BY <2>10 DEF Fields, Recorded
  <2>12. Out(b, o, R, N) /\ o.ok /\ o.m = c
    BY <2>3, <2>10, DoneOut DEF Recorded
  <2>13. QED BY <2>8, <2>10, <2>11, <2>12 DEF Kept, Recorded
<1>3. QED BY <1>1, <1>2

\* The same of several, up to the first that is not there.
LEMMA ForgetThoseOut ==
  ASSUME NEW b, IsBoard(b), NEW ns \in Seq(NameSet), NEW S, "clock_speed" \notin S,
         NEW o, o \in ForgetThose(b, ns, S), NEW R, NEW N
  PROVE  /\ Out(b, o, R, N) /\ o.m.par = b.par /\ o.m.got = b.got
         /\ o.ok => \A n \in S \cap ToSet(ns) : o.m.entry[n] = "unknown"
         /\ \A m \in NameSet : Kept(b, o.m, m) \/ o.m.entry[m] = "unknown"
         /\ \A m \in NameSet \ S : Kept(b, o.m, m)
<1> DEFINE missing == {i \in DOMAIN ns : ns[i] \in S /\ b.entry[ns[i]] = "absent"}
           reached == {ns[i] : i \in {j \in DOMAIN ns : \A g \in missing : j < g}}
           e == [n \in DOMAIN b.entry |->
                    IF n \in reached \cap S THEN "unknown" ELSE b.entry[n]]
           c == WithEntries(b, e, b.val)
<1>1. /\ b = [f \in Fields |-> b[f]] /\ b.val \in [NameSet -> Int]
      /\ b.entry \in [NameSet -> States]
  BY BoardTypes
<1>2. [b EXCEPT !.entry = e] = c
  BY <1>1 DEF WithEntries, Fields
<1>3. o \in (IF missing = {} THEN Done(c) ELSE Refused(c))
  BY <1>2 DEF ForgetThose
<1>4. DOMAIN ns \subseteq Int /\ \A i \in DOMAIN ns : ns[i] \in NameSet
  OBVIOUS
<1>5. e \in [NameSet -> States]
  BY <1>1 DEF States
<1>6. \A m \in NameSet : m \in reached \cap S => b.entry[m] # "absent"
  <2>1. ASSUME NEW j \in DOMAIN ns, \A g \in missing : j < g, ns[j] \in S
        PROVE  b.entry[ns[j]] # "absent"
    BY <1>4, <2>1
  <2>2. QED BY <2>1
<1>7. \A m \in NameSet : e[m] = IF m \in reached \cap S THEN "unknown" ELSE b.entry[m]
  BY <1>1
<1>8. missing = {} => \A m \in S \cap ToSet(ns) : m \in reached /\ m \in NameSet
  BY <1>4 DEF ToSet
<1>9. c = WithEntries(b, e, b.val)
  OBVIOUS
<1> HIDE DEF e, c, reached, missing
<1>10. \A m \in NameSet : e[m] = "absent" <=> b.entry[m] = "absent"
  BY <1>6, <1>7
<1>11. e["clock_speed"] = b.entry["clock_speed"]
  BY <1>7, NamesAre
<1>12. \A m \in NameSet : e[m] = b.entry[m] \/ e[m] = "unknown"
  BY <1>7
<1>13. Step(b, c, R, N) /\ Recorded(b, c, e, b.val)
  <2>1. Forgets(b, e)
    BY <1>5, <1>10, <1>11, <1>12 DEF Forgets
  <2>2. QED BY <1>9, <2>1, ForgottenStep
<1>14. c["got"] = b["got"]
  BY <1>13 DEF Fields, Recorded
<1>15. Out(b, o, R, N) /\ o.m = c /\ (o.ok => missing = {})
  BY <1>3, <1>13, DoneOut, RefusedOut DEF Recorded
<1>16. o.ok => \A n \in S \cap ToSet(ns) : o.m.entry[n] = "unknown"
  BY <1>7, <1>8, <1>13, <1>15 DEF Recorded
<1>17. \A m \in NameSet : Kept(b, c, m) \/ c.entry[m] = "unknown"
  BY <1>12, <1>13 DEF Kept, Recorded
<1>18. \A m \in NameSet \ S : Kept(b, c, m)
  BY <1>7, <1>13 DEF Kept, Recorded
<1>19. QED BY <1>13, <1>14, <1>15, <1>16, <1>17, <1>18 DEF Recorded
\* A number enters the defaults.
LEMMA LearnStep ==
  ASSUME NEW a, IsBoard(a), NEW n \in NameSet, a.entry[n] # "absent", NEW x \in Int,
         NEW R, NEW N,
         n = "clock_speed" =>
             a.entry[n] # "synced" /\ x > 0 /\ Fits(a, n, x),
         n \in N \/ (Sources(n) \cap R = {} /\ (Good(a, "clock_speed") => Fits(a, n, x))),
         NEW e, e = [a.entry EXCEPT ![n] = "synced"],
         NEW v, v = [a.val EXCEPT ![n] = x],
         NEW c, c = WithEntries(a, e, v)
  PROVE  Step(a, c, R, N) /\ Recorded(a, c, e, v)
<1>1. a.entry \in [NameSet -> States] /\ a.val \in [NameSet -> Int]
  BY BoardTypes
<1>2. e \in [NameSet -> States] /\ v \in [NameSet -> Int]
  BY <1>1 DEF States
<1>3. /\ e[n] = "synced" /\ v[n] = x
      /\ \A m \in NameSet \ {n} : e[m] = a.entry[m] /\ v[m] = a.val[m]
  BY <1>1
<1>4. \A m \in NameSet : e[m] = "absent" <=> a.entry[m] = "absent"
  BY <1>3
<1>5. "clock_speed" \in NameSet
  BY NamesAre
<1>6. a.entry["clock_speed"] = "synced" =>
          e["clock_speed"] = "synced" /\ v["clock_speed"] = a.val["clock_speed"]
  BY <1>3, <1>5
<1>7. e["clock_speed"] = "synced" /\ a.entry["clock_speed"] # "synced" =>
          v["clock_speed"] > 0 /\ Fits(a, "clock_speed", v["clock_speed"])
  BY <1>3, <1>5
<1>8. \A m \in NameSet \ N :
          \/ e[m] = a.entry[m] /\ v[m] = a.val[m]
          \/ e[m] # "synced"
          \/ Sources(m) \cap R = {} /\ (Good(a, "clock_speed") => Fits(a, m, v[m]))
  BY <1>3
<1>9. Tenable(a, e, v, R, N)
  BY <1>2, <1>4, <1>6, <1>7, <1>8 DEF Tenable
<1>10. QED BY <1>9, EntriesStep

\* What a getter answers.
GetFine(b, o, n, R, N) ==
    /\ Out(b, o, R, N)
    /\ o.ok => /\ o.m.got \in Int
               /\ Good(o.m, "clock_speed") => Fits(o.m, n, o.m.got)

\* What is answered through the defaults.
Acquired(b, o, n) ==
    o.ok => /\ o.m.got \in Int
            /\ b.entry[n] = "synced" => o.m.got = b.val[n] /\ o.m.par = b.par
            /\ b.entry[n] # "synced" =>
                  (Good(o.m, "clock_speed") => Fits(o.m, n, o.m.got))
            /\ \/ o.m.entry[n] = "absent"
               \/ o.m.entry[n] = "synced" /\ o.m.val[n] = o.m.got

\* Getting a value: the remembered entry, or what the getter reads, which is remembered.
LEMMA AcquireOut ==
  ASSUME NEW b, IsBoard(b), NEW n \in NameSet, NEW R, NEW N, NEW outs,
         n \in N \/ Sources(n) \cap R = {},
         \A z \in outs : GetFine(b, z, n, R, N),
         n = "clock_speed" =>
             \A z \in outs : z.ok => /\ z.m.got > 0 /\ Fits(z.m, n, z.m.got)
                                     /\ z.m.entry = b.entry,
         NEW o, o \in UdxpGetAcquisitionValues(b, n, outs)
  PROVE  Out(b, o, R, N) /\ Acquired(b, o, n)
<1>1. CASE b.entry[n] = "synced"
  <2> DEFINE c == WithField(b, "got", b.val[n])
  <2>1. o \in Done(c)
    BY <1>1 DEF UdxpGetAcquisitionValues, WithField
  <2>2. c = WithField(b, "got", b.val[n])
    OBVIOUS
  <2> HIDE DEF c
  <2>3. /\ Out(b, o, R, N) /\ o.ok /\ o.m.got = b.val[n]
        /\ o.m.par = b.par /\ o.m.entry = b.entry /\ o.m.val = b.val
    BY <2>1, <2>2, GotOut
  <2>4. b.val[n] \in Int
    BY BoardTypes
  <2>5. QED BY <1>1, <2>3, <2>4 DEF Acquired
<1>2. CASE b.entry[n] # "synced"
  <2> DEFINE F(a) == Done(IF a.entry[n] = "absent" THEN a
                          ELSE [a EXCEPT !.entry[n] = "synced", !.val[n] = a.got])
  <2>1. PICK z \in outs : o \in IF z.ok THEN F(z.m) ELSE {z}
    BY <1>2 DEF UdxpGetAcquisitionValues, Then
  <2>2. GetFine(b, z, n, R, N) /\ Out(b, z, R, N)
    BY <2>1 DEF GetFine
  <2>3. CASE ~z.ok
    BY <2>1, <2>2, <2>3 DEF Acquired
  <2>4. CASE z.ok
    <3>1. IsBoard(z.m) /\ z.m.got \in Int
      BY <2>2, <2>4 DEF Out, SameBoard, GetFine
    <3>2. CASE z.m.entry[n] = "absent"
      <4>1. o.ok /\ o.m = z.m
        BY <2>1, <2>4, <3>2, DoneIs
      <4>2. Out(z.m, o, R, N)
        BY <2>1, <2>4, <3>1, <3>2, StepSelf, DoneOut
      <4>3. Out(b, o, R, N)
        BY <2>2, <2>4, <4>2, OutThen
      <4>4. QED BY <1>2, <2>2, <2>4, <3>1, <3>2, <4>1, <4>3 DEF GetFine, Acquired
    <3>3. CASE z.m.entry[n] # "absent"
      <4> DEFINE e == [z.m.entry EXCEPT ![n] = "synced"]
                 v == [z.m.val EXCEPT ![n] = z.m.got]
                 c == WithEntries(z.m, e, v)
      <4>1. o \in Done(c)
        <5>1. o \in Done([z.m EXCEPT !.entry[n] = "synced", !.val[n] = z.m.got])
          BY <2>1, <2>4, <3>3
        <5>2. [z.m EXCEPT !.entry[n] = "synced", !.val[n] = z.m.got] = c
          <6>1. z.m = [f \in Fields |-> z.m[f]]
            BY <3>1, BoardTypes
          <6>2. QED BY <6>1 DEF WithEntries, Fields
        <5>3. QED BY <5>1, <5>2
      <4>2. Good(z.m, "clock_speed") => Fits(z.m, n, z.m.got)
        BY <2>2, <2>4 DEF GetFine
      <4>3. n = "clock_speed" => /\ z.m.entry[n] # "synced" /\ z.m.got > 0
                                 /\ Fits(z.m, n, z.m.got)
        BY <1>2, <2>1, <2>4
      <4>4. e[n] = "synced" /\ v[n] = z.m.got
        BY <3>1, BoardTypes
      <4>5. e = [z.m.entry EXCEPT ![n] = "synced"] /\ v = [z.m.val EXCEPT ![n] = z.m.got]
            /\ c = WithEntries(z.m, e, v)
        OBVIOUS
      <4> HIDE DEF e, v, c
      <4>6. Step(z.m, c, R, N) /\ Recorded(z.m, c, e, v)
        BY <3>1, <3>3, <4>2, <4>3, <4>5, LearnStep
      <4>7. Out(z.m, o, R, N) /\ o.ok /\ o.m = c
        BY <4>1, <4>6, DoneOut DEF Recorded
      <4>8. Out(b, o, R, N)
        BY <2>2, <2>4, <4>7, OutThen
      <4>9. c["got"] = z.m["got"] /\ c.par = z.m.par
        BY <4>6 DEF Recorded, Fields
      <4>10. SameBoard(z.m, c) /\ SameClock(z.m, c)
        BY <4>6 DEF Step
      <4>11. Good(c, "clock_speed") => Good(z.m, "clock_speed")
        BY <4>10, ClockBelief
      <4>12. Fits(z.m, n, z.m.got) => Fits(c, n, z.m.got)
        BY <4>9, <4>10, SameFit DEF SameBoard
      <4>13. c.entry[n] = "synced" /\ c.val[n] = z.m.got
        BY <4>4, <4>6 DEF Recorded
      <4>14. QED BY <1>2, <3>1, <4>2, <4>7, <4>8, <4>9, <4>11, <4>12, <4>13 DEF Acquired
    <3>4. QED BY <3>2, <3>3
  <2>5. QED BY <2>3, <2>4
<1>3. QED BY <1>1, <1>2

\* An entry keeps what it is while another is asked for.
LEMMA AcquireKeeps ==
  ASSUME NEW b, IsBoard(b), NEW n \in NameSet, NEW m \in NameSet \ {n}, NEW outs,
         \A z \in outs : z.ok => IsBoard(z.m) /\ Kept(b, z.m, m) /\ z.m.par = b.par,
         NEW o, o \in UdxpGetAcquisitionValues(b, n, outs), o.ok
  PROVE  Kept(b, o.m, m) /\ o.m.par = b.par
<1>1. CASE b.entry[n] = "synced"
  <2>1. o.m = [b EXCEPT !.got = b.val[n]]
    BY <1>1, DoneIs DEF UdxpGetAcquisitionValues
  <2>2. b = [f \in Fields |-> b[f]]
    BY BoardTypes
  <2>3. QED BY <2>1, <2>2 DEF Kept, Fields
<1>2. CASE b.entry[n] # "synced"
  <2> DEFINE F(a) == Done(IF a.entry[n] = "absent" THEN a
                          ELSE [a EXCEPT !.entry[n] = "synced", !.val[n] = a.got])
  <2>1. PICK z \in outs : o \in IF z.ok THEN F(z.m) ELSE {z}
    BY <1>2 DEF UdxpGetAcquisitionValues, Then
  <2>2. z.ok /\ o \in F(z.m)
    BY <2>1
  <2>3. IsBoard(z.m) /\ Kept(b, z.m, m) /\ z.m.par = b.par
    BY <2>1, <2>2
  <2>4. CASE z.m.entry[n] = "absent"
    <3>1. o.m = z.m
      BY <2>2, <2>4, DoneIs
    <3>2. QED BY <2>3, <3>1
  <2>5. CASE z.m.entry[n] # "absent"
    <3>1. o.m = [z.m EXCEPT !.entry[n] = "synced", !.val[n] = z.m.got]
      BY <2>2, <2>5, DoneIs
    <3>2. /\ z.m = [f \in Fields |-> z.m[f]]
          /\ z.m.entry \in [NameSet -> States] /\ z.m.val \in [NameSet -> Int]
      BY <2>3, BoardTypes
    <3>3. QED BY <2>3, <3>1, <3>2 DEF Kept, Fields
  <2>6. QED BY <2>4, <2>5
<1>3. QED BY <1>1, <1>2
-----------------------------------------------------------------------------
(* The getters. *)

\* The values, written out.
LEMMA ActualIs ==
  ASSUME NEW b
  PROVE  /\ Actual(b, "parset") = b.par["PARSET"]
         /\ Actual(b, "genset") = b.par["GENSET"]
         /\ Actual(b, "fippi") = b.par["FIPPI"]
         /\ Actual(b, "trigger_threshold") = b.par["THRESHT"]
         /\ Actual(b, "baseline_threshold") = b.par["THRESHB"]
         /\ Actual(b, "energy_threshold") = b.par["THRESHE"]
         /\ Actual(b, "number_mca_channels") = b.par["MCALEN"]
         /\ Actual(b, "mca_bin_width") = b.par["BINWIDTH"]
         /\ Actual(b, "polarity") = b.par["POLARITY"]
         /\ Actual(b, "fipcontrol") = b.par["FIPCONTROL"]
         /\ Actual(b, "runtasks") = b.par["RUNTASKS"]
         /\ Actual(b, "peak_mode") = b.par["PEAKMODE"]
         /\ Actual(b, "baseline_factor") = b.par["BFACTOR"]
         /\ Actual(b, "trace_trigger_type") = b.par["TRACETRIG"]
         /\ Actual(b, "trace_trigger_position") = b.par["TRACEPRETRIG"]
         /\ Actual(b, "number_of_scas") = b.par["NUMSCA"]
         /\ Actual(b, "sca0_lo") = b.par["SCA0LO"]
         /\ Actual(b, "sca1_hi") = b.par["SCA1HI"]
         /\ Actual(b, "preset_type") = b.par["PRESET"]
         /\ Actual(b, "trigger_peak_time") = b.par["FASTLEN"] * Period(b.par["CLOCK"])
         /\ Actual(b, "trigger_gap_time") = b.par["FASTGAP"] * Period(b.par["CLOCK"])
         /\ Actual(b, "max_width") = b.par["MAXWIDTH"] * Period(b.par["CLOCK"])
         /\ Actual(b, "energy_gap_time") = b.par["SLOWGAP"] * TrueTick(b)
         /\ Actual(b, "peaking_time") = b.par["SLOWLEN"] * TrueTick(b)
         /\ Actual(b, "peak_interval") = b.par["PEAKINT"] * TrueTick(b)
         /\ Actual(b, "peak_sample") = b.par["PEAKSAM"] * TrueTick(b)
         /\ Actual(b, "gain_trim") = 2 * b.par["GAINTWEAK"]
         /\ Actual(b, "sca_time_on") = 2 * b.par["SCATIMEON"]
         /\ Actual(b, "sca_time_off") = 2 * b.par["SCATIMEOFF"]
         /\ Actual(b, "high_voltage") = 2 * b.par["VOLTS"]
         /\ Actual(b, "clock_speed") = Period(b.par["CLOCK"])
         /\ Actual(b, "peakint_offset") = (b.par["PEAKINT"] - Length(b)) * TrueTick(b)
         /\ Actual(b, "peaksam_offset") = (Length(b) - b.par["PEAKSAM"]) * TrueTick(b)
         /\ Actual(b, "baseline_length") = BaselineScale \div b.par["BLFILTER"]
         /\ Actual(b, "gain") = 2 * BaseGain(b)
         /\ Actual(b, "auto_adjust_offset") = (b.par["RUNTASKS"] \div 2) % 2
         /\ Actual(b, "preset_value") = b.par["PRESETLEN"] * Unit(b.par["PRESET"])
         /\ Actual(b, "preamp_value") =
               IF b.par["CODEVAR"] = 0 THEN b.par["RESETINT"]
               ELSE b.par["TAURC"] * (IF b.super THEN Period(b.par["CLOCK"]) ELSE Period(1))
  BY DEF Actual, Register, ClockRegister, FilterRegister, HalfRegister

\* What the board has fits.
LEMMA ActualFits == ASSUME NEW b, NEW n PROVE Fits(b, n, Actual(b, n))
  BY DEF Fits

\* A value that is neither the host's nor kept as it was asked for fits as it is.
LEMMA FitsIs ==
  ASSUME NEW b, NEW n \in NameSet \ (HostValues(b) \cup Unrounded \cup {"auto_adjust_offset"}),
         NEW x
  PROVE  Fits(b, n, x) <=> x = Actual(b, n)
  BY DEF Fits

\* What does not touch a board's registers and entries.
Same(b, c) == c.par = b.par /\ c.entry = b.entry /\ c.val = b.val

\* A getter that answers with a number computed from what it read.
LEMMA FieldThen ==
  ASSUME NEW b, IsBoard(b), NEW z, NEW R, NEW N, Out(b, z, R, N),
         NEW x, NEW o, o \in (IF z.ok THEN Done(WithField(z.m, "got", x)) ELSE {z})
  PROVE  /\ Out(b, o, R, N)
         /\ o.ok => z.ok /\ o.m.got = x /\ Same(z.m, o.m)
<1>1. CASE z.ok
  <2> DEFINE c == WithField(z.m, "got", x)
  <2>1. o \in Done(c) /\ c = WithField(z.m, "got", x)
    BY <1>1
  <2>2. IsBoard(z.m)
    BY DEF Out, SameBoard
  <2> HIDE DEF c
  <2>3. /\ Out(z.m, o, R, N) /\ o.ok /\ o.m.got = x
        /\ o.m.par = z.m.par /\ o.m.entry = z.m.entry /\ o.m.val = z.m.val
    BY <2>1, <2>2, GotOut
  <2>4. QED BY <1>1, <2>3, OutThen DEF Same
<1>2. CASE ~z.ok
  BY <1>2
<1>3. QED BY <1>1, <1>2

\* The speed of the clock, as the board has it.
LEMMA ClockSpdOut ==
  ASSUME NEW b, IsBoard(b), NEW o, o \in UdxpGetClockSpd(b), NEW R, NEW N
  PROVE  /\ GetFine(b, o, "clock_speed", R, N)
         /\ o.ok => /\ o.m.got > 0 /\ Fits(o.m, "clock_speed", o.m.got)
                    /\ Same(b, o.m)
<1>1. PICK z \in Read(b, "CLOCK") :
          o \in IF z.ok THEN Done([z.m EXCEPT !.got = Period(z.m.got)]) ELSE {z}
  BY DEF UdxpGetClockSpd, Got, Then
<1>2. "CLOCK" \in Params
  BY DEF Params, GlobalParams
<1>3. /\ Out(b, z, R, N)
      /\ z.ok => z.m.got = b.par["CLOCK"] /\ Same(b, z.m)
  BY <1>1, <1>2, ReadOut DEF Same
<1> DEFINE x == Period(z.m.got)
<1>4. o \in IF z.ok THEN Done(WithField(z.m, "got", x)) ELSE {z}
  BY <1>1 DEF WithField
<1>5. Out(b, o, R, N) /\ (o.ok => z.ok /\ o.m.got = x /\ Same(z.m, o.m))
  BY <1>3, <1>4, FieldThen
<1>6. ASSUME o.ok PROVE /\ o.m.got \in Int /\ o.m.got > 0
                        /\ Fits(o.m, "clock_speed", o.m.got) /\ Same(b, o.m)
  <2>1. Same(b, o.m) /\ o.m.got = Period(b.par["CLOCK"])
    BY <1>3, <1>5, <1>6 DEF Same
  <2>2. o.m.got = Actual(o.m, "clock_speed")
    BY <2>1, ActualIs DEF Same
  <2>3. Period(b.par["CLOCK"]) \in Nat \ {0}
    BY ClockTypes
  <2>4. QED BY <2>1, <2>2, <2>3, ActualFits
<1>7. QED BY <1>5, <1>6 DEF GetFine

\* Only the clock's entry may be new.
Quiet(b, c) == c.par = b.par /\ \A m \in NameSet \ {"clock_speed"} : Kept(b, c, m)

\* The clock's period, from its entry or from the board.
LEMMA ClockOut ==
  ASSUME NEW b, IsBoard(b), NEW R, NEW N, "CLOCK" \notin R, NEW o, o \in Clock(b)
  PROVE  /\ Out(b, o, R, N)
         /\ o.ok => /\ o.m.got \in Nat \ {0} /\ Quiet(b, o.m)
                    /\ Good(o.m, "clock_speed") => o.m.got = Period(o.m.par["CLOCK"])
<1> DEFINE outs == UdxpGetClockSpd(b)
<1>1. \A z \in outs : /\ GetFine(b, z, "clock_speed", R, N)
                      /\ z.ok => /\ z.m.got > 0 /\ Fits(z.m, "clock_speed", z.m.got)
                                 /\ Same(b, z.m)
  BY ClockSpdOut
<1>2. o \in UdxpGetAcquisitionValues(b, "clock_speed", outs)
  BY DEF Clock
<1>3. "clock_speed" \in NameSet /\ Sources("clock_speed") \cap R = {}
  BY NamesAre, SourcesAre
<1>4. \A z \in outs : z.ok => /\ z.m.got > 0 /\ Fits(z.m, "clock_speed", z.m.got)
                              /\ z.m.entry = b.entry
  BY <1>1 DEF Same
<1>5. \A z \in outs : z.ok => IsBoard(z.m)
  BY <1>1 DEF GetFine, Out, SameBoard
<1> HIDE DEF outs
<1>6. Out(b, o, R, N) /\ Acquired(b, o, "clock_speed")
  BY <1>1, <1>2, <1>3, <1>4, AcquireOut
<1>7. ASSUME o.ok PROVE Quiet(b, o.m)
  <2>1. \A m \in NameSet : \A z \in outs :
            z.ok => IsBoard(z.m) /\ Kept(b, z.m, m) /\ z.m.par = b.par
    BY <1>1, <1>5 DEF Same, Kept
  <2>2. \A m \in NameSet \ {"clock_speed"} : Kept(b, o.m, m) /\ o.m.par = b.par
    BY <1>2, <1>3, <1>7, <2>1, AcquireKeeps
  <2>3. "genset" \in NameSet \ {"clock_speed"}
    BY NamesAre
  <2>4. QED BY <2>2, <2>3 DEF Quiet
<1>8. ASSUME o.ok PROVE /\ o.m.got \in Nat \ {0}
                        /\ Good(o.m, "clock_speed") => o.m.got = Period(o.m.par["CLOCK"])
  <2>1. Step(b, o.m, R, N) /\ IsBoard(o.m)
    BY <1>6, <1>8 DEF Out, SameBoard
  <2>2. SameBoard(b, o.m) /\ SameClock(b, o.m)
    BY <2>1 DEF Step
  <2>3. \A x : Fits(o.m, "clock_speed", x) => x = Period(o.m.par["CLOCK"])
    BY ActualIs DEF Fits, HostValues, Unrounded
  <2>4. Period(o.m.par["CLOCK"]) \in Nat \ {0}
    BY <2>1, ClockTypes
  <2>5. o.m.got \in Int
    BY <1>6, <1>8 DEF Acquired
  <2>6. CASE b.entry["clock_speed"] = "synced"
    <3>1. o.m.got = b.val["clock_speed"] /\ b.val["clock_speed"] > 0
      BY <1>6, <1>8, <2>6 DEF Acquired, IsBoard
    <3>2. o.m.entry["clock_speed"] = "synced" /\ o.m.val["clock_speed"] = o.m.got
      BY <2>2, <2>6, <3>1 DEF SameClock
    <3>3. QED BY <2>3, <2>5, <3>1, <3>2 DEF Good, Agrees
  <2>7. CASE b.entry["clock_speed"] # "synced"
    <3>1. Good(o.m, "clock_speed")
      BY <2>2, <2>7 DEF SameClock
    <3>2. Fits(o.m, "clock_speed", o.m.got)
      BY <1>6, <1>8, <2>7, <3>1 DEF Acquired
    <3>3. QED BY <2>3, <2>4, <2>5, <3>1, <3>2
  <2>8. QED BY <2>6, <2>7
<1>9. QED BY <1>6, <1>7, <1>8

\* The tick of the filters.
LEMMA TickOut ==
  ASSUME NEW b, IsBoard(b), NEW R, NEW N, "CLOCK" \notin R, NEW o, o \in UdxpGetClockTick(b)
  PROVE  /\ Out(b, o, R, N)
         /\ o.ok => /\ o.m.got \in Nat \ {0} /\ Quiet(b, o.m)
                    /\ Good(o.m, "clock_speed") => o.m.got = TrueTick(o.m)
<1>1. PICK z \in Clock(b) :
          o \in IF z.ok THEN Command(z.m, [z.m EXCEPT !.got = @ * PowerOfTwo(Decimation(z.m))])
                ELSE {z}
  BY DEF UdxpGetClockTick, Then
<1>2. /\ Out(b, z, R, N)
      /\ z.ok => /\ z.m.got \in Nat \ {0} /\ Quiet(b, z.m)
                 /\ Good(z.m, "clock_speed") => z.m.got = Period(z.m.par["CLOCK"])
  BY <1>1, ClockOut
<1>3. CASE ~z.ok
  BY <1>1, <1>2, <1>3
<1>4. CASE z.ok
  <2> DEFINE x == z.m.got * PowerOfTwo(Decimation(z.m))
             c == WithField(z.m, "got", x)
  <2>1. IsBoard(z.m)
    BY <1>2 DEF Out, SameBoard
  <2>2. [z.m EXCEPT !.got = @ * PowerOfTwo(Decimation(z.m))] = c
    BY <2>1, BoardTypes DEF WithField, Fields
  <2>3. o \in Command(z.m, c) /\ c = WithField(z.m, "got", x)
    BY <1>1, <1>4, <2>2
  <2>4. x \in Nat \ {0}
    BY <1>2, <1>4, <2>1, ClockTypes
  <2>5. Good(z.m, "clock_speed") => x = TrueTick(z.m)
    BY <1>2, <1>4 DEF TrueTick
  <2> HIDE DEF c, x
  <2>6. /\ Step(z.m, c, R, N) /\ c["got"] = x /\ c.budget = z.m.budget
        /\ c.par = z.m.par /\ c.entry = z.m.entry /\ c.val = z.m.val
    BY <2>1, <2>3, ScratchStep
  <2>7. Out(z.m, o, R, N) /\ (o.ok => o.m = c)
    BY <2>1, <2>3, <2>6, CommandOut
  <2>8. Out(b, o, R, N)
    BY <1>2, <1>4, <2>7, OutThen
  <2>9. Good(c, "clock_speed") => Good(z.m, "clock_speed")
    BY <2>6, ClockBelief DEF Step
  <2>10. TrueTick(c) = TrueTick(z.m)
    BY <2>6 DEF TrueTick, Decimation
  <2>11. Quiet(b, c)
    BY <1>2, <1>4, <2>6 DEF Quiet, Kept
  <2>12. QED BY <2>4, <2>5, <2>6, <2>7, <2>8, <2>9, <2>10, <2>11
<1>5. QED BY <1>3, <1>4
\* The registers that the functions name.
LEMMA ParamsAre ==
  \A p \in {"PARSET", "GENSET", "FIPPI", "THRESHT", "THRESHB", "THRESHE", "MCALEN",
            "BINWIDTH", "POLARITY", "FIPCONTROL", "RUNTASKS", "PEAKMODE", "BFACTOR",
            "TRACETRIG", "TRACEPRETRIG", "NUMSCA", "SCA0LO", "SCA1HI", "PRESET",
            "FASTLEN", "FASTGAP", "MAXWIDTH", "SLOWGAP", "SLOWLEN", "PEAKINT",
            "PEAKSAM", "GAINTWEAK", "SCATIMEON", "SCATIMEOFF", "VOLTS", "CLOCK",
            "BLFILTER", "SWGAIN", "DGAINBASE", "GAINBASE", "PRESETLEN", "CODEVAR",
            "RESETINT", "TAURC", "TRACEWAIT"} : p \in Params
  BY DEF Params, FilterParams, EnergyParams, SpectrumParams, GlobalParams

\* The last step of a getter: what it answers.
LEMMA EndGet ==
  ASSUME NEW b, IsBoard(b), NEW n \in NameSet, NEW R, NEW N, NEW z, Out(b, z, R, N),
         NEW x, z.ok => x \in Int /\ (Good(z.m, "clock_speed") => Fits(z.m, n, x)),
         NEW o, o \in (IF z.ok THEN Done([z.m EXCEPT !.got = x]) ELSE {z})
  PROVE  /\ GetFine(b, o, n, R, N)
         /\ o.ok => z.ok /\ o.m.got = x /\ Same(z.m, o.m)
<1>1. o \in IF z.ok THEN Done(WithField(z.m, "got", x)) ELSE {z}
  BY DEF WithField
<1>2. Out(b, o, R, N) /\ (o.ok => z.ok /\ o.m.got = x /\ Same(z.m, o.m))
  BY <1>1, FieldThen
<1>3. ASSUME o.ok PROVE /\ o.m.got \in Int
                        /\ Good(o.m, "clock_speed") => Fits(o.m, n, o.m.got)
  <2>1. z.ok /\ o.m.got = x /\ Same(z.m, o.m)
    BY <1>2, <1>3
  <2>2. SameBoard(b, z.m) /\ SameBoard(b, o.m)
    BY <1>2 DEF Out
  <2>3. \A m \in NameSet : \A y : Fits(z.m, m, y) <=> Fits(o.m, m, y)
    BY <2>1, <2>2, SameFit DEF Same, SameBoard
  <2>4. Good(o.m, "clock_speed") => Good(z.m, "clock_speed")
    BY <2>1, <2>3, NamesAre DEF Good, Agrees, Same
  <2>5. QED BY <2>1, <2>3, <2>4
<1>4. QED BY <1>2, <1>3 DEF GetFine

\* A value that is a register.
LEMMA ReadGet ==
  ASSUME NEW b, IsBoard(b), NEW n \in NameSet, NEW p \in Params, NEW R, NEW N,
         \A c : Actual(c, n) = c.par[p], NEW o, o \in Read(b, p)
  PROVE  GetFine(b, o, n, R, N)
<1>1. /\ Out(b, o, R, N)
      /\ o.ok => o.m.got = b.par[p] /\ o.m.got \in Int /\ o.m.par = b.par
  BY ReadOut
<1>2. o.ok => o.m.got = Actual(o.m, n)
  BY <1>1
<1>3. QED BY <1>1, <1>2, ActualFits DEF GetFine

\* A value that is made of one register.
LEMMA OneGet ==
  ASSUME NEW b, IsBoard(b), NEW n \in NameSet, NEW p \in Params, NEW R, NEW N,
         NEW z \in Read(b, p), NEW x \in Int, Fits(b, n, x),
         NEW o, o \in (IF z.ok THEN Done([z.m EXCEPT !.got = x]) ELSE {z})
  PROVE  GetFine(b, o, n, R, N)
<1>1. Out(b, z, R, N) /\ (z.ok => z.m.par = b.par)
  BY ReadOut
<1>2. SameBoard(b, z.m)
  BY <1>1 DEF Out
<1>3. z.ok => Fits(z.m, n, x)
  BY <1>1, <1>2, SameFit DEF SameBoard
<1>4. QED BY <1>1, <1>3, EndGet

\* t is the filters' tick, and nothing else is new.
Ticked(b, y, t, R, N) ==
    /\ Out(b, y, R, N)
    /\ y.ok => /\ y.m.par = b.par /\ Quiet(b, y.m) /\ t \in Nat \ {0}
               /\ Good(y.m, "clock_speed") => t = TrueTick(y.m)

\* A register and the tick, in either order.
LEMMA ReadTick ==
  ASSUME NEW b, IsBoard(b), NEW p \in Params, NEW R, NEW N, "CLOCK" \notin R,
         NEW z \in Read(b, p), z.ok, NEW y \in UdxpGetClockTick(z.m)
  PROVE  /\ z.m.got = b.par[p] /\ b.par[p] \in Int
         /\ Ticked(b, y, y.m.got, R, N)
<1>1. Out(b, z, R, N) /\ z.m.got = b.par[p] /\ z.m.got \in Int /\ Same(b, z.m)
  BY ReadOut DEF Same
<1>2. IsBoard(z.m)
  BY <1>1 DEF Out, SameBoard
<1>3. /\ Out(z.m, y, R, N)
      /\ y.ok => /\ y.m.got \in Nat \ {0} /\ Quiet(z.m, y.m)
                 /\ Good(y.m, "clock_speed") => y.m.got = TrueTick(y.m)
  BY <1>2, TickOut
<1>4. Out(b, y, R, N)
  BY <1>1, <1>3, OutThen
<1>5. QED BY <1>1, <1>3, <1>4 DEF Ticked, Quiet, Same, Kept

\* A tick and a register: the two reads most getters of times begin with.
LEMMA TickRead ==
  ASSUME NEW b, IsBoard(b), NEW p \in Params, NEW R, NEW N, "CLOCK" \notin R,
         NEW z \in UdxpGetClockTick(b), z.ok, NEW y \in Read(z.m, p)
  PROVE  /\ b.par[p] \in Int /\ z.m.par = b.par /\ (y.ok => y.m.got = b.par[p])
         /\ Ticked(b, y, z.m.got, R, N)
<1>1. /\ Out(b, z, R, N) /\ z.m.got \in Nat \ {0} /\ Quiet(b, z.m)
      /\ Good(z.m, "clock_speed") => z.m.got = TrueTick(z.m)
  BY TickOut
<1>2. IsBoard(z.m) /\ SameBoard(b, z.m)
  BY <1>1 DEF Out, SameBoard
<1>3. /\ Out(z.m, y, R, N)
      /\ y.ok => y.m.got = z.m.par[p] /\ Same(z.m, y.m)
  BY <1>2, ReadOut DEF Same
<1>4. Out(b, y, R, N)
  BY <1>1, <1>3, OutThen
<1>5. y.ok => (Good(y.m, "clock_speed") => Good(z.m, "clock_speed"))
  BY <1>3, ClockBelief DEF Out, Step
<1>6. y.ok => TrueTick(y.m) = TrueTick(z.m)
  BY <1>3 DEF TrueTick, Decimation, Same
<1>7. b.par[p] \in Int
  BY BoardTypes
<1>8. QED BY <1>1, <1>3, <1>4, <1>5, <1>6, <1>7 DEF Ticked, Quiet, Same, Kept

\* The gap time read is the board's.
LEMMA EGapTimeGet ==
  ASSUME NEW b, IsBoard(b), NEW R, NEW N, "CLOCK" \notin R, NEW o, o \in UdxpGetEGapTime(b)
  PROVE  GetFine(b, o, "energy_gap_time", R, N)
<1>1. PICK z \in Read(b, "SLOWGAP") :
          o \in IF z.ok THEN Then(UdxpGetClockTick(z.m), LAMBDA c :
                                  Done([c EXCEPT !.got = z.m.got * c.got]))
                ELSE {z}
  BY DEF UdxpGetEGapTime, UdxpGetParameter, Then
<1>2. "SLOWGAP" \in Params /\ "energy_gap_time" \in NameSet
  BY ParamsAre, NamesAre
<1>3. CASE ~z.ok
  BY <1>1, <1>2, <1>3, ReadOut DEF GetFine
<1>4. CASE z.ok
  <2>1. PICK y \in UdxpGetClockTick(z.m) :
            o \in IF y.ok THEN Done([y.m EXCEPT !.got = z.m.got * y.m.got]) ELSE {y}
    BY <1>1, <1>4 DEF Then
  <2>2. /\ z.m.got = b.par["SLOWGAP"] /\ b.par["SLOWGAP"] \in Int
        /\ Ticked(b, y, y.m.got, R, N)
    BY <1>2, <1>4, ReadTick
  <2> DEFINE x == z.m.got * y.m.got
  <2>3. y.ok => x \in Int
    BY <2>2 DEF Ticked
  <2>4. y.ok /\ Good(y.m, "clock_speed") => x = Actual(y.m, "energy_gap_time")
    BY <2>2, ActualIs DEF Ticked
  <2>5. o \in IF y.ok THEN Done([y.m EXCEPT !.got = x]) ELSE {y}
    BY <2>1
  <2> HIDE DEF x
  <2>6. y.ok /\ Good(y.m, "clock_speed") => Fits(y.m, "energy_gap_time", x)
    BY <2>4, ActualFits
  <2>7. Out(b, y, R, N)
    BY <2>2 DEF Ticked
  <2>8. QED BY <1>2, <2>3, <2>5, <2>6, <2>7, EndGet
<1>5. QED BY <1>3, <1>4

\* The peaking time read is the board's.
LEMMA PeakingTimeGet ==
  ASSUME NEW b, IsBoard(b), NEW R, NEW N, "CLOCK" \notin R, NEW o, o \in UdxpGetPeakingTime(b)
  PROVE  GetFine(b, o, "peaking_time", R, N)
<1>1. PICK z \in UdxpGetClockTick(b) :
          o \in IF z.ok THEN Then(Read(z.m, "SLOWLEN"), LAMBDA c :
                                  Done([c EXCEPT !.got = c.got * z.m.got]))
                ELSE {z}
  BY DEF UdxpGetPeakingTime, UdxpGetParameter, Got, Then
<1>2. "SLOWLEN" \in Params /\ "peaking_time" \in NameSet
  BY ParamsAre, NamesAre
<1>3. CASE ~z.ok
  BY <1>1, <1>2, <1>3, TickOut DEF GetFine
<1>4. CASE z.ok
  <2>1. PICK y \in Read(z.m, "SLOWLEN") :
            o \in IF y.ok THEN Done([y.m EXCEPT !.got = y.m.got * z.m.got]) ELSE {y}
    BY <1>1, <1>4 DEF Then
  <2>2. /\ b.par["SLOWLEN"] \in Int /\ (y.ok => y.m.got = b.par["SLOWLEN"])
        /\ Ticked(b, y, z.m.got, R, N)
    BY <1>2, <1>4, TickRead
  <2> DEFINE x == y.m.got * z.m.got
  <2>3. y.ok => x \in Int
    BY <2>2 DEF Ticked
  <2>4. y.ok /\ Good(y.m, "clock_speed") => x = Actual(y.m, "peaking_time")
    BY <2>2, ActualIs DEF Ticked
  <2>5. o \in IF y.ok THEN Done([y.m EXCEPT !.got = x]) ELSE {y}
    BY <2>1
  <2> HIDE DEF x
  <2>6. y.ok /\ Good(y.m, "clock_speed") => Fits(y.m, "peaking_time", x)
    BY <2>4, ActualFits
  <2>7. Out(b, y, R, N)
    BY <2>2 DEF Ticked
  <2>8. QED BY <1>2, <2>3, <2>5, <2>6, <2>7, EndGet
<1>5. QED BY <1>3, <1>4
\* The two timers.
LEMMA TimerGet ==
  ASSUME NEW b, IsBoard(b), NEW R, NEW N, "CLOCK" \notin R,
         NEW p \in {"PEAKINT", "PEAKSAM"},
         NEW n, n = IF p = "PEAKINT" THEN "peak_interval" ELSE "peak_sample", NEW o,
         o \in IF p = "PEAKINT" THEN UdxpGetPeakInt(b) ELSE UdxpGetPeakSam(b)
  PROVE  GetFine(b, o, n, R, N)
<1>1. PICK z \in Read(b, p) :
          o \in IF z.ok THEN Then(UdxpGetClockTick(z.m), LAMBDA c :
                                  Done([c EXCEPT !.got = z.m.got * c.got]))
                ELSE {z}
  <2>1. CASE p = "PEAKINT"
    BY <2>1 DEF UdxpGetPeakInt, UdxpGetFilterParam, Got, Then
  <2>2. CASE p = "PEAKSAM"
    BY <2>2 DEF UdxpGetPeakSam, UdxpGetFilterParam, Got, Then
  <2>3. QED BY <2>1, <2>2
<1>2. p \in Params /\ n \in NameSet
  BY ParamsAre, NamesAre
<1>3. CASE ~z.ok
  BY <1>1, <1>2, <1>3, ReadOut DEF GetFine
<1>4. CASE z.ok
  <2>1. PICK y \in UdxpGetClockTick(z.m) :
            o \in IF y.ok THEN Done([y.m EXCEPT !.got = z.m.got * y.m.got]) ELSE {y}
    BY <1>1, <1>4 DEF Then
  <2>2. /\ z.m.got = b.par[p] /\ b.par[p] \in Int
        /\ Ticked(b, y, y.m.got, R, N)
    BY <1>2, <1>4, ReadTick
  <2> DEFINE x == z.m.got * y.m.got
  <2>a. z.m.got \in Int /\ (y.ok => y.m.got \in Int)
    BY <2>2 DEF Ticked
  <2>3. y.ok => x \in Int
    BY <2>a
  <2>4. y.ok /\ Good(y.m, "clock_speed") => x = Actual(y.m, n)
    <3>1. Actual(y.m, n) = y.m.par[p] * TrueTick(y.m)
      BY ActualIs
    <3>2. QED BY <2>2, <3>1 DEF Ticked
  <2>5. o \in IF y.ok THEN Done([y.m EXCEPT !.got = x]) ELSE {y}
    BY <2>1
  <2> HIDE DEF x
  <2>6. y.ok /\ Good(y.m, "clock_speed") => Fits(y.m, n, x)
    BY <2>4, ActualFits
  <2>7. Out(b, y, R, N)
    BY <2>2 DEF Ticked
  <2>8. QED BY <1>2, <2>3, <2>5, <2>6, <2>7, EndGet
<1>5. QED BY <1>3, <1>4

\* A filter's length and gap, and the steps of a timer, are numbers.
LEMMA LengthType == ASSUME NEW b, IsBoard(b)
                    PROVE  /\ Length(b) \in Int /\ b.par["PEAKINT"] \in Int
                           /\ b.par["PEAKSAM"] \in Int
  BY BoardTypes, ParamsAre DEF Length

\* The two offsets.
LEMMA OffsetGet ==
  ASSUME NEW b, IsBoard(b), NEW R, NEW N, "CLOCK" \notin R,
         NEW p \in {"PEAKINT", "PEAKSAM"},
         NEW n, n = IF p = "PEAKINT" THEN "peakint_offset" ELSE "peaksam_offset",
         NEW o,
         o \in IF p = "PEAKINT" THEN UdxpGetPeakIntOffset(b) ELSE UdxpGetPeakSamOffset(b)
  PROVE  /\ GetFine(b, o, n, R, N)
         /\ o.ok => Quiet(b, o.m)
<1> DEFINE G(c, x, t) == IF p = "PEAKINT" THEN (x - c.par["SLOWLEN"] - c.par["SLOWGAP"]) * t
                         ELSE (c.par["SLOWLEN"] + c.par["SLOWGAP"] - x) * t
<1>1. PICK z \in UdxpGetClockTick(b) :
          o \in IF z.ok THEN Then(Read(z.m, p), LAMBDA c :
                                  Done([c EXCEPT !.got = G(z.m, c.got, z.m.got)]))
                ELSE {z}
  <2>1. CASE p = "PEAKINT"
    BY <2>1 DEF UdxpGetPeakIntOffset, Got, Then
  <2>2. CASE p = "PEAKSAM"
    BY <2>2 DEF UdxpGetPeakSamOffset, Got, Then
  <2>3. QED BY <2>1, <2>2
<1>2. p \in Params /\ n \in NameSet
  BY ParamsAre, NamesAre
<1>3. CASE ~z.ok
  BY <1>1, <1>2, <1>3, TickOut DEF GetFine
<1>4. CASE z.ok
  <2>1. PICK y \in Read(z.m, p) :
            o \in IF y.ok THEN Done([y.m EXCEPT !.got = G(z.m, y.m.got, z.m.got)]) ELSE {y}
    BY <1>1, <1>4 DEF Then
  <2>2. /\ b.par[p] \in Int /\ z.m.par = b.par /\ (y.ok => y.m.got = b.par[p])
        /\ Ticked(b, y, z.m.got, R, N)
    BY <1>2, <1>4, TickRead
  <2> DEFINE x == G(z.m, y.m.got, z.m.got)
  <2>3. b.par["SLOWLEN"] \in Int /\ b.par["SLOWGAP"] \in Int
    BY BoardTypes, ParamsAre
  <2>4. y.ok => x \in Int
    BY <2>2, <2>3 DEF Ticked
  <2>5. y.ok /\ Good(y.m, "clock_speed") => x = Actual(y.m, n)
    <3>1. CASE p = "PEAKINT"
      <4>1. Actual(y.m, n) = (y.m.par["PEAKINT"] - (y.m.par["SLOWLEN"] + y.m.par["SLOWGAP"]))
                               * TrueTick(y.m)
        BY <3>1, ActualIs DEF Length
      <4>2. y.ok /\ Good(y.m, "clock_speed") =>
              x = (y.m.par["PEAKINT"] - y.m.par["SLOWLEN"] - y.m.par["SLOWGAP"]) * TrueTick(y.m)
        BY <2>2, <3>1 DEF Ticked
      <4>3. y.ok => y.m.par["PEAKINT"] - y.m.par["SLOWLEN"] - y.m.par["SLOWGAP"]
                      = y.m.par["PEAKINT"] - (y.m.par["SLOWLEN"] + y.m.par["SLOWGAP"])
        BY <2>2, <2>3, <3>1 DEF Ticked
      <4>4. QED BY <4>1, <4>2, <4>3
    <3>2. CASE p = "PEAKSAM"
      <4>1. Actual(y.m, n) = (Length(y.m) - y.m.par["PEAKSAM"]) * TrueTick(y.m)
        <5>1. n = "peaksam_offset"
          BY <3>2
        <5>2. QED BY <5>1, ActualIs
      <4>2. y.ok /\ Good(y.m, "clock_speed") =>
              x = (y.m.par["SLOWLEN"] + y.m.par["SLOWGAP"] - y.m.par["PEAKSAM"]) * TrueTick(y.m)
        BY <2>2, <3>2 DEF Ticked
      <4>3. y.ok => y.m.par["SLOWLEN"] + y.m.par["SLOWGAP"] - y.m.par["PEAKSAM"]
                      = Length(y.m) - y.m.par["PEAKSAM"]
        BY <2>2, <2>3, <3>2 DEF Ticked, Length
      <4>4. QED BY <4>1, <4>2, <4>3
    <3>3. QED BY <3>1, <3>2
  <2>6. o \in IF y.ok THEN Done([y.m EXCEPT !.got = x]) ELSE {y}
    BY <2>1
  <2> HIDE DEF x
  <2>7. y.ok /\ Good(y.m, "clock_speed") => Fits(y.m, n, x)
    BY <2>5, ActualFits
  <2>8. Out(b, y, R, N)
    BY <2>2 DEF Ticked
  <2>9. GetFine(b, o, n, R, N) /\ (o.ok => y.ok /\ o.m.got = x /\ Same(y.m, o.m))
    BY <1>2, <2>4, <2>6, <2>7, <2>8, EndGet
  <2>10. QED BY <2>2, <2>9 DEF Ticked, Same, Quiet, Kept
<1>5. QED BY <1>3, <1>4

\* A number of clock ticks.
LEMMA TicksGet ==
  ASSUME NEW b, IsBoard(b), NEW R, NEW N, "CLOCK" \notin R,
         NEW p \in Params, NEW n \in NameSet,
         \A c : Actual(c, n) = c.par[p] * Period(c.par["CLOCK"]),
         NEW o, o \in Ticks(b, p)
  PROVE  GetFine(b, o, n, R, N)
<1>1. PICK z \in Clock(b) :
          o \in IF z.ok THEN Then(Read(z.m, p), LAMBDA c :
                                  Done([c EXCEPT !.got = c.got * z.m.got]))
                ELSE {z}
  BY DEF Ticks, UdxpGetFilterParam, Got, Then
<1>2. /\ Out(b, z, R, N)
      /\ z.ok => /\ z.m.got \in Nat \ {0} /\ Quiet(b, z.m)
                 /\ Good(z.m, "clock_speed") => z.m.got = Period(z.m.par["CLOCK"])
  BY ClockOut
<1>3. CASE ~z.ok
  BY <1>1, <1>2, <1>3 DEF GetFine
<1>4. CASE z.ok
  <2>1. PICK y \in Read(z.m, p) :
            o \in IF y.ok THEN Done([y.m EXCEPT !.got = y.m.got * z.m.got]) ELSE {y}
    BY <1>1, <1>4 DEF Then
  <2>2. IsBoard(z.m)
    BY <1>2 DEF Out, SameBoard
  <2>3. /\ Out(z.m, y, R, N)
        /\ y.ok => y.m.got = z.m.par[p] /\ y.m.got \in Int /\ Same(z.m, y.m)
    BY <2>2, ReadOut DEF Same
  <2>4. Out(b, y, R, N)
    BY <1>2, <1>4, <2>3, OutThen
  <2>5. y.ok => (Good(y.m, "clock_speed") => Good(z.m, "clock_speed"))
    BY <2>3, ClockBelief DEF Out, Step
  <2> DEFINE x == y.m.got * z.m.got
  <2>6. y.ok => x \in Int
    BY <1>2, <1>4, <2>3
  <2>7. y.ok /\ Good(y.m, "clock_speed") => x = Actual(y.m, n)
    BY <1>2, <1>4, <2>3, <2>5 DEF Same
  <2>8. o \in IF y.ok THEN Done([y.m EXCEPT !.got = x]) ELSE {y}
    BY <2>1
  <2> HIDE DEF x
  <2>9. y.ok /\ Good(y.m, "clock_speed") => Fits(y.m, n, x)
    BY <2>7, ActualFits
  <2>10. QED BY <2>4, <2>6, <2>8, <2>9, EndGet
<1>5. QED BY <1>3, <1>4
\* A getter after another function.
LEMMA GetThen ==
  ASSUME NEW b, IsBoard(b), NEW n, NEW R, NEW N, NEW z, Out(b, z, R, N), z.ok,
         NEW o, GetFine(z.m, o, n, R, N)
  PROVE  GetFine(b, o, n, R, N)
<1>1. Out(b, o, R, N)
  BY OutThen DEF GetFine
<1>2. QED BY <1>1 DEF GetFine

\* The baseline length read is the board's.
LEMMA BaseLenGet ==
  ASSUME NEW b, IsBoard(b), NEW R, NEW N, NEW o, o \in UdxpGetBaseLen(b)
  PROVE  GetFine(b, o, "baseline_length", R, N)
<1>1. PICK z \in Read(b, "BLFILTER") :
          o \in IF z.ok THEN Done([z.m EXCEPT !.got = BaselineScale \div z.m.got]) ELSE {z}
  BY DEF UdxpGetBaseLen, Got, Then
<1>2. "BLFILTER" \in Params /\ "baseline_length" \in NameSet
  BY ParamsAre, NamesAre
<1> DEFINE x == BaselineScale \div b.par["BLFILTER"]
<1>3. b.par["BLFILTER"] \in Nat \ {0}
  BY <1>2 DEF IsBoard, RegisterValues
<1>4. x \in Int
  BY <1>3, DivisionType, LimitsAssumption
<1>5. z.ok => z.m.got = b.par["BLFILTER"]
  BY <1>2, ReadOut
<1>6. o \in IF z.ok THEN Done([z.m EXCEPT !.got = x]) ELSE {z}
  BY <1>1, <1>5
<1>7. x = Actual(b, "baseline_length")
  BY ActualIs
<1> HIDE DEF x
<1>8. Fits(b, "baseline_length", x)
  BY <1>7, ActualFits
<1>9. QED BY <1>2, <1>4, <1>6, <1>8, OneGet

\* Values of two units a step.
LEMMA HalfGet ==
  ASSUME NEW b, IsBoard(b), NEW R, NEW N,
         NEW n \in {"gain_trim", "sca_time_on", "sca_time_off", "high_voltage"},
         NEW p, p = HalfRegister[n], NEW z \in Read(b, p),
         NEW o, o \in (IF z.ok THEN Done([z.m EXCEPT !.got = 2 * z.m.got]) ELSE {z})
  PROVE  GetFine(b, o, n, R, N)
<1>1. p \in Params /\ n \in NameSet
  BY ParamsAre, NamesAre DEF HalfRegister
<1> DEFINE x == 2 * b.par[p]
<1>2. x \in Int
  BY <1>1, BoardTypes
<1>3. o \in IF z.ok THEN Done([z.m EXCEPT !.got = x]) ELSE {z}
  BY <1>1, ReadOut
<1>4. x = Actual(b, n)
  BY ActualIs DEF HalfRegister
<1> HIDE DEF x
<1>5. Fits(b, n, x)
  BY <1>4, ActualFits
<1>6. QED BY <1>1, <1>2, <1>3, <1>5, OneGet

\* The times of the SCA pulses read are the board's.
LEMMA ScaTimeGet ==
  ASSUME NEW b, IsBoard(b), NEW R, NEW N, NEW n \in {"sca_time_on", "sca_time_off"}, NEW o,
         o \in IF n = "sca_time_on" THEN UdxpGetScaTimeOn(b) ELSE UdxpGetScaTimeOff(b)
  PROVE  GetFine(b, o, n, R, N)
<1>1. CASE ~b.super
  <2>1. o \in Refused(b)
    BY <1>1 DEF UdxpGetScaTimeOn, UdxpGetScaTimeOff
  <2>2. QED BY <2>1, RefusedAtOnce DEF GetFine
<1>2. CASE b.super
  <2>1. PICK z \in Read(b, HalfRegister[n]) :
            o \in IF z.ok THEN Done([z.m EXCEPT !.got = 2 * z.m.got]) ELSE {z}
    <3>1. CASE n = "sca_time_on"
      <4>1. HalfRegister[n] = "SCATIMEON"
        BY <3>1 DEF HalfRegister
      <4>2. QED BY <1>2, <3>1, <4>1 DEF UdxpGetScaTimeOn, UdxpGetParameter, Got, Then
    <3>2. CASE n = "sca_time_off"
      <4>1. HalfRegister[n] = "SCATIMEOFF"
        BY <3>2 DEF HalfRegister
      <4>2. QED BY <1>2, <3>2, <4>1 DEF UdxpGetScaTimeOff, UdxpGetParameter, Got, Then
    <3>3. QED BY <3>1, <3>2
  <2>2. QED BY <2>1, HalfGet
<1>3. QED BY <1>1, <1>2

\* The high voltage read is the board's.
LEMMA HighVoltageGet ==
  ASSUME NEW b, IsBoard(b), b.got \in Int, NEW R, NEW N, NEW o, o \in UdxpGetHighVoltage(b)
  PROVE  GetFine(b, o, "high_voltage", R, N)
<1>1. CASE ~b.vega
  <2>1. o \in Done(b)
    BY <1>1 DEF UdxpGetHighVoltage
  <2>2. Out(b, o, R, N) /\ o.ok /\ o.m = b
    BY <2>1, StepSelf, DoneOut
  <2>3. Fits(b, "high_voltage", b.got)
    BY <1>1 DEF Fits, HostValues
  <2>4. QED BY <2>2, <2>3 DEF GetFine
<1>2. CASE b.vega
  <2>1. PICK z \in Read(b, HalfRegister["high_voltage"]) :
            o \in IF z.ok THEN Done([z.m EXCEPT !.got = 2 * z.m.got]) ELSE {z}
    BY <1>2 DEF UdxpGetHighVoltage, Got, Then, HalfRegister
  <2>2. QED BY <2>1, HalfGet
<1>3. QED BY <1>1, <1>2

\* auto_adjust_offset read is the bit of RUNTASKS.
LEMMA AutoAdjustGet ==
  ASSUME NEW b, IsBoard(b), NEW R, NEW N, NEW o, o \in UdxpGetAutoAdjust(b)
  PROVE  GetFine(b, o, "auto_adjust_offset", R, N)
<1>1. PICK z \in Read(b, "RUNTASKS") :
          o \in IF z.ok THEN Done([z.m EXCEPT !.got = (z.m.got \div 2) % 2]) ELSE {z}
  BY DEF UdxpGetAutoAdjust, UdxpGetParameter, Got, Then
<1>2. "RUNTASKS" \in Params /\ "auto_adjust_offset" \in NameSet
  BY ParamsAre, NamesAre
<1> DEFINE x == (b.par["RUNTASKS"] \div 2) % 2
<1>3. b.par["RUNTASKS"] \in Int
  BY <1>2, BoardTypes
<1>4. x \in Int
  BY <1>3
<1>5. o \in IF z.ok THEN Done([z.m EXCEPT !.got = x]) ELSE {z}
  BY <1>1, <1>2, ReadOut
<1>6. x = Actual(b, "auto_adjust_offset")
  BY ActualIs
<1> HIDE DEF x
<1>7. Fits(b, "auto_adjust_offset", x)
  BY <1>6, ActualFits
<1>8. QED BY <1>2, <1>4, <1>5, <1>7, OneGet

\* The preset's value read is the board's.
LEMMA PresetValueGet ==
  ASSUME NEW b, IsBoard(b), NEW R, NEW N, NEW o, o \in UdxpGetPresetValue(b)
  PROVE  GetFine(b, o, "preset_value", R, N)
<1> DEFINE x == IF b.par["PRESET"] = 0 THEN 0 ELSE b.par["PRESETLEN"] * Unit(b.par["PRESET"])
<1>1. PICK z \in Read(b, "PRESETLEN") :
          o \in IF z.ok
                THEN Done([z.m EXCEPT !.got = IF b.par["PRESET"] = 0 THEN 0
                                              ELSE z.m.got * Unit(b.par["PRESET"])])
                ELSE {z}
  BY DEF UdxpGetPresetValue, Got, Then
<1>2. "PRESETLEN" \in Params /\ "preset_value" \in NameSet
  BY ParamsAre, NamesAre
<1>3. b.par["PRESETLEN"] \in Int
  BY <1>2, BoardTypes
<1>4. x \in Int
  BY <1>3 DEF Unit
<1>5. o \in IF z.ok THEN Done([z.m EXCEPT !.got = x]) ELSE {z}
  BY <1>1, <1>2, ReadOut
<1>6. x = Actual(b, "preset_value") \/ "preset_value" \in HostValues(b)
  BY ActualIs DEF HostValues
<1> HIDE DEF x
<1>7. Fits(b, "preset_value", x)
  BY <1>6 DEF Fits
<1>8. QED BY <1>2, <1>4, <1>5, <1>7, OneGet

\* Reading the gain mode changes nothing.
LEMMA GainModeOut ==
  ASSUME NEW b, IsBoard(b), NEW R, NEW N, NEW z, z \in UdxpGetGainMode(b)
  PROVE  Out(b, z, R, N) /\ (z.ok => z.m = b)
  BY StepSelf, CommandOut DEF UdxpGetGainMode

\* The base gain read is the board's.
LEMMA GainbaseGet ==
  ASSUME NEW b, IsBoard(b), NEW R, NEW N, NEW o, o \in UdxpGetGainbase(b)
  PROVE  GetFine(b, o, "gain", R, N) /\ (o.ok => Same(b, o.m))
<1>1. PICK z \in UdxpGetGainMode(b) :
          o \in IF z.ok THEN Command(z.m, [z.m EXCEPT !.got = 2 * BaseGain(z.m)]) ELSE {z}
  BY DEF UdxpGetGainbase, Then
<1>2. Out(b, z, R, N) /\ (z.ok => z.m = b)
  BY GainModeOut
<1>3. CASE ~z.ok
  BY <1>1, <1>2, <1>3 DEF GetFine
<1>4. CASE z.ok
  <2> DEFINE x == 2 * BaseGain(b)
             c == WithField(b, "got", x)
  <2>1. o \in Command(b, c) /\ c = WithField(b, "got", x)
    BY <1>1, <1>2, <1>4 DEF WithField
  <2>2. x \in Int
    BY BoardTypes, ParamsAre DEF BaseGain
  <2>3. x = Actual(b, "gain")
    BY ActualIs
  <2> HIDE DEF c, x
  <2>4. /\ Step(b, c, R, N) /\ c["got"] = x /\ c.budget = b.budget
        /\ c.par = b.par /\ c.entry = b.entry /\ c.val = b.val
    BY <2>1, ScratchStep
  <2>5. Out(b, o, R, N) /\ (o.ok => o.m = c)
    BY <2>1, <2>4, CommandOut
  <2>6. Fits(b, "gain", x)
    BY <2>3, ActualFits
  <2>7. Fits(c, "gain", x)
    BY <2>4, <2>6, SameFit, NamesAre DEF Step, SameBoard
  <2>8. QED BY <2>2, <2>4, <2>5, <2>7 DEF GetFine, Same
<1>5. QED BY <1>3, <1>4

\* The gain trim read is the board's.
LEMMA GainTrimGet ==
  ASSUME NEW b, IsBoard(b), NEW R, NEW N, NEW o, o \in UdxpGetGainTrim(b)
  PROVE  GetFine(b, o, "gain_trim", R, N)
<1>1. PICK z \in UdxpGetGainMode(b) :
          o \in IF z.ok THEN Then(Read(z.m, "GENSET"), LAMBDA c :
                   Then(Read(c, "GAINTWEAK"), LAMBDA e : Done([e EXCEPT !.got = 2 * @])))
                ELSE {z}
  BY DEF UdxpGetGainTrim, UdxpGetGenset, Got, Then
<1>2. Out(b, z, R, N) /\ (z.ok => z.m = b)
  BY GainModeOut
<1>3. CASE ~z.ok
  BY <1>1, <1>2, <1>3 DEF GetFine
<1>4. CASE z.ok
  <2>1. PICK y \in Read(b, "GENSET") :
            o \in IF y.ok THEN Then(Read(y.m, "GAINTWEAK"), LAMBDA e :
                                    Done([e EXCEPT !.got = 2 * @]))
                  ELSE {y}
    BY <1>1, <1>2, <1>4 DEF Then
  <2>2. "GENSET" \in Params
    BY ParamsAre
  <2>3. Out(b, y, R, N)
    BY <2>2, ReadOut
  <2>4. CASE ~y.ok
    BY <2>1, <2>3, <2>4 DEF GetFine
  <2>5. CASE y.ok
    <3>1. PICK x \in Read(y.m, "GAINTWEAK") :
              o \in IF x.ok THEN Done([x.m EXCEPT !.got = 2 * @]) ELSE {x}
      BY <2>1, <2>5 DEF Then
    <3>2. IsBoard(y.m)
      BY <2>3 DEF Out, SameBoard
    <3>3. HalfRegister["gain_trim"] = "GAINTWEAK"
      BY DEF HalfRegister
    <3>4. GetFine(y.m, o, "gain_trim", R, N)
      BY <3>1, <3>2, <3>3, HalfGet
    <3>5. QED BY <2>3, <2>5, <3>4, GetThen
  <2>6. QED BY <2>4, <2>5
<1>5. QED BY <1>3, <1>4
\* The number of SCAs, which may be corrected as it is read.
LEMMA NumScasGet ==
  ASSUME NEW b, IsBoard(b), NEW R, NEW N, "NUMSCA" \in R, NEW o, o \in UdxpGetNumScas(b)
  PROVE  GetFine(b, o, "number_of_scas", R, N)
<1>1. PICK z \in Read(b, "NUMSCA") :
          o \in IF z.ok
                THEN IF z.m.got <= MaxScas THEN Done(z.m)
                     ELSE Then(Write(z.m, "NUMSCA", MaxScas), LAMBDA c :
                               Done([c EXCEPT !.got = MaxScas]))
                ELSE {z}
  BY DEF UdxpGetNumScas, UdxpGetMaxSCALength, UdxpGetParameter, UdxpSetParameter, Then
<1>2. "NUMSCA" \in Params /\ "number_of_scas" \in NameSet /\ MaxScas \in Int
  BY ParamsAre, NamesAre, LimitsAssumption
<1>3. /\ Out(b, z, R, N)
      /\ z.ok => z.m.got = b.par["NUMSCA"] /\ z.m.got \in Int /\ z.m.par = b.par
  BY <1>2, ReadOut
<1>4. CASE ~z.ok
  BY <1>1, <1>3, <1>4 DEF GetFine
<1>5. CASE z.ok /\ z.m.got <= MaxScas
  <2>1. o.ok = TRUE /\ o.m = z.m
    BY <1>1, <1>5, DoneIs
  <2>2. z.m.got = Actual(z.m, "number_of_scas")
    BY <1>3, <1>5, ActualIs
  <2>3. IsBoard(z.m)
    BY <1>3 DEF Out, SameBoard
  <2>4. Out(z.m, o, R, N)
    BY <1>1, <1>5, <2>3, StepSelf, DoneOut
  <2>5. Out(b, o, R, N)
    BY <1>3, <1>5, <2>4, OutThen
  <2>6. QED BY <1>3, <1>5, <2>1, <2>2, <2>5, ActualFits DEF GetFine
<1>6. CASE z.ok /\ ~(z.m.got <= MaxScas)
  <2>1. PICK y \in Write(z.m, "NUMSCA", MaxScas) :
            o \in IF y.ok THEN Done([y.m EXCEPT !.got = MaxScas]) ELSE {y}
    BY <1>1, <1>6 DEF Then
  <2>2. IsBoard(z.m) /\ MaxScas \in RegisterValues("NUMSCA") /\ "NUMSCA" # "CLOCK"
    BY <1>2, <1>3 DEF Out, SameBoard, RegisterValues
  <2>3. Out(z.m, y, R, N) /\ (y.ok => y.m.par["NUMSCA"] = MaxScas)
    <3>1. Wrote(z.m, y, "NUMSCA", MaxScas, R, N)
      BY <1>2, <2>1, <2>2, WriteFine
    <3>2. QED BY <3>1 DEF Wrote
  <2>4. Out(b, y, R, N)
    BY <1>3, <1>6, <2>3, OutThen
  <2>5. y.ok => Fits(y.m, "number_of_scas", MaxScas)
    <3>1. Actual(y.m, "number_of_scas") = y.m.par["NUMSCA"]
      BY ActualIs
    <3>2. QED BY <2>3, <3>1, ActualFits
  <2>6. QED BY <1>2, <2>1, <2>4, <2>5, EndGet
<1>7. QED BY <1>4, <1>5, <1>6

\* The number of SCAs that the calls on one of them look up.
LEMMA NumScasOut ==
  ASSUME NEW b, IsBoard(b), NEW R, NEW N, "NUMSCA" \in R, "number_of_scas" \in N,
         NEW o, o \in NumScas(b)
  PROVE  Out(b, o, R, N) /\ Acquired(b, o, "number_of_scas")
<1> DEFINE outs == UdxpGetNumScas(b)
<1>1. \A z \in outs : GetFine(b, z, "number_of_scas", R, N)
  BY NumScasGet
<1>2. o \in UdxpGetAcquisitionValues(b, "number_of_scas", outs)
  BY DEF NumScas
<1>3. "number_of_scas" \in NameSet
  BY NamesAre
<1> HIDE DEF outs
<1>4. QED BY <1>1, <1>2, <1>3, AcquireOut

\* The limit of an SCA read is the board's.
LEMMA ScaGet ==
  ASSUME NEW b, IsBoard(b), NEW R, NEW N, "NUMSCA" \in R, "number_of_scas" \in N,
         NEW n \in {"sca0_lo", "sca1_hi"}, NEW o, o \in UdxpGetSca(b, ScaParam(n))
  PROVE  GetFine(b, o, n, R, N)
<1> DEFINE p == ScaParam(n)
<1>1. p \in Params /\ n \in NameSet /\ \A c : Actual(c, n) = c.par[p]
  BY ParamsAre, NamesAre, ActualIs DEF ScaParam
<1>2. PICK z \in NumScas(b) :
          o \in IF z.ok THEN IF ScaNumber(p) >= z.m.got THEN Refused(z.m) ELSE Read(z.m, p)
                ELSE {z}
  BY DEF UdxpGetSca, Then
<1> HIDE DEF p
<1>3. Out(b, z, R, N)
  BY <1>2, NumScasOut
<1>4. IsBoard(z.m)
  BY <1>3 DEF Out, SameBoard
<1>5. CASE ~z.ok
  BY <1>2, <1>3, <1>5 DEF GetFine
<1>6. CASE z.ok /\ ScaNumber(p) >= z.m.got
  <2>1. GetFine(z.m, o, n, R, N)
    BY <1>2, <1>4, <1>6, RefusedAtOnce DEF GetFine
  <2>2. QED BY <1>3, <1>6, <2>1, GetThen
<1>7. CASE z.ok /\ ~(ScaNumber(p) >= z.m.got)
  <2>1. GetFine(z.m, o, n, R, N)
    BY <1>1, <1>2, <1>4, <1>7, ReadGet
  <2>2. QED BY <1>3, <1>7, <2>1, GetThen
<1>8. QED BY <1>5, <1>6, <1>7

\* The clock of the decay time.
TauUnit(b) == IF b.super THEN Period(b.par["CLOCK"]) ELSE Period(1)

\* The unit of the RC time is the clock's.
LEMMA TauClockOut ==
  ASSUME NEW b, IsBoard(b), NEW R, NEW N, "CLOCK" \notin R, NEW o, o \in TauClock(b)
  PROVE  /\ Out(b, o, R, N)
         /\ o.ok => /\ o.m.got \in Nat \ {0} /\ Quiet(b, o.m)
                    /\ Good(o.m, "clock_speed") => o.m.got = TauUnit(o.m)
<1>1. CASE b.super
  <2>1. /\ Out(b, o, R, N)
        /\ o.ok => /\ o.m.got \in Nat \ {0} /\ Quiet(b, o.m)
                   /\ Good(o.m, "clock_speed") => o.m.got = Period(o.m.par["CLOCK"])
    BY <1>1, ClockOut DEF TauClock
  <2>2. o.m.super
    BY <1>1, <2>1 DEF Out, SameBoard
  <2>3. QED BY <2>1, <2>2 DEF TauUnit
<1>2. CASE ~b.super
  <2> DEFINE x == Period(1)
             c == WithField(b, "got", x)
  <2>1. o \in Done(c) /\ c = WithField(b, "got", x)
    BY <1>2 DEF TauClock, WithField
  <2>2. x \in Nat \ {0}
    BY Powers DEF Period
  <2>3. x = Period(1)
    OBVIOUS
  <2> HIDE DEF c, x
  <2>4. /\ Out(b, o, R, N) /\ o.ok /\ o.m.got = x
        /\ o.m.par = b.par /\ o.m.entry = b.entry /\ o.m.val = b.val
    BY <2>1, GotOut
  <2>5. ~o.m.super
    BY <1>2, <2>4 DEF Out, SameBoard
  <2>6. QED BY <2>2, <2>3, <2>4, <2>5 DEF TauUnit, Quiet, Kept
<1>3. QED BY <1>1, <1>2

\* The RC decay time read is the board's, of an RC variant.
LEMMA RCTauGet ==
  ASSUME NEW b, IsBoard(b), NEW R, NEW N, "CLOCK" \notin R, b.par["CODEVAR"] # 0,
         NEW o, o \in UdxpGetRCTau(b)
  PROVE  GetFine(b, o, "preamp_value", R, N)
<1>1. PICK z \in Read(b, "TAURC") :
          o \in IF z.ok THEN Then(TauClock(z.m), LAMBDA c :
                                  Done([c EXCEPT !.got = z.m.got * c.got]))
                ELSE {z}
  BY DEF UdxpGetRCTau, Got, Then
<1>2. "TAURC" \in Params /\ "preamp_value" \in NameSet
  BY ParamsAre, NamesAre
<1>3. /\ Out(b, z, R, N)
      /\ z.ok => z.m.got = b.par["TAURC"] /\ z.m.got \in Int /\ z.m.par = b.par
  BY <1>2, ReadOut
<1>4. CASE ~z.ok
  BY <1>1, <1>3, <1>4 DEF GetFine
<1>5. CASE z.ok
  <2>1. PICK y \in TauClock(z.m) :
            o \in IF y.ok THEN Done([y.m EXCEPT !.got = z.m.got * y.m.got]) ELSE {y}
    BY <1>1, <1>5 DEF Then
  <2>2. IsBoard(z.m)
    BY <1>3 DEF Out, SameBoard
  <2>3. /\ Out(z.m, y, R, N)
        /\ y.ok => /\ y.m.got \in Nat \ {0} /\ Quiet(z.m, y.m)
                   /\ Good(y.m, "clock_speed") => y.m.got = TauUnit(y.m)
    BY <2>2, TauClockOut
  <2>4. Out(b, y, R, N)
    BY <1>3, <1>5, <2>3, OutThen
  <2> DEFINE x == z.m.got * y.m.got
  <2>5. y.ok => x \in Int
    BY <1>3, <1>5, <2>3
  <2>6. Actual(y.m, "preamp_value") = IF y.m.par["CODEVAR"] = 0 THEN y.m.par["RESETINT"]
                                      ELSE y.m.par["TAURC"] * TauUnit(y.m)
    BY ActualIs DEF TauUnit
  <2>7. y.ok => y.m.par = b.par
    BY <1>3, <1>5, <2>3 DEF Quiet
  <2>8. y.ok /\ Good(y.m, "clock_speed") => x = Actual(y.m, "preamp_value")
    BY <1>3, <1>5, <2>3, <2>6, <2>7
  <2>9. o \in IF y.ok THEN Done([y.m EXCEPT !.got = x]) ELSE {y}
    BY <2>1
  <2> HIDE DEF x
  <2>10. y.ok /\ Good(y.m, "clock_speed") => Fits(y.m, "preamp_value", x)
    BY <2>8, ActualFits
  <2>11. QED BY <1>2, <2>4, <2>5, <2>9, <2>10, EndGet
<1>6. QED BY <1>4, <1>5

\* The preamplifier's value read is the board's, of both variants.
LEMMA PreampValGet ==
  ASSUME NEW b, IsBoard(b), NEW R, NEW N, "CLOCK" \notin R, NEW o, o \in UdxpGetPreampVal(b)
  PROVE  GetFine(b, o, "preamp_value", R, N)
<1>1. PICK z \in Read(b, "CODEVAR") :
          o \in IF z.ok THEN IF z.m.got = 0 THEN Read(z.m, "RESETINT") ELSE UdxpGetRCTau(z.m)
                ELSE {z}
  BY DEF UdxpGetPreampVal, UdxpQueryPreampType, UdxpGetParameter, UdxpGetResetInterval, Then
<1>2. "CODEVAR" \in Params /\ "RESETINT" \in Params /\ "preamp_value" \in NameSet
  BY ParamsAre, NamesAre
<1>3. Out(b, z, R, N) /\ (z.ok => z.m.got = b.par["CODEVAR"] /\ z.m.par = b.par)
  BY <1>2, ReadOut
<1>4. IsBoard(z.m)
  BY <1>3 DEF Out, SameBoard
<1>5. CASE ~z.ok
  BY <1>1, <1>3, <1>5 DEF GetFine
<1>6. CASE z.ok /\ z.m.got = 0
  <2>1. o \in Read(z.m, "RESETINT")
    BY <1>1, <1>6
  <2>2. /\ Out(z.m, o, R, N)
        /\ o.ok => o.m.got = z.m.par["RESETINT"] /\ o.m.got \in Int /\ o.m.par = z.m.par
    BY <1>2, <1>4, <2>1, ReadOut
  <2>3. o.ok => o.m.got = Actual(o.m, "preamp_value")
    BY <1>3, <1>6, <2>2, ActualIs
  <2>4. GetFine(z.m, o, "preamp_value", R, N)
    BY <2>2, <2>3, ActualFits DEF GetFine
  <2>5. QED BY <1>3, <1>6, <2>4, GetThen
<1>7. CASE z.ok /\ z.m.got # 0
  <2>1. z.m.par["CODEVAR"] # 0 /\ o \in UdxpGetRCTau(z.m)
    BY <1>1, <1>3, <1>7
  <2>2. GetFine(z.m, o, "preamp_value", R, N)
    BY <1>4, <2>1, RCTauGet
  <2>3. QED BY <1>3, <1>7, <2>2, GetThen
<1>8. QED BY <1>5, <1>6, <1>7

\* Values of the host.
LEMMA BytePerBinGet ==
  ASSUME NEW b, IsBoard(b), NEW R, NEW N, NEW o, o \in UdxpGetBytePerBin(b)
  PROVE  GetFine(b, o, "bytes_per_bin", R, N)
<1> DEFINE x == 3
           c == WithField(b, "got", x)
<1>1. o \in Done(c) /\ c = WithField(b, "got", x)
  BY DEF UdxpGetBytePerBin, WithField
<1>2. x \in Int
  OBVIOUS
<1> HIDE DEF c, x
<1>3. Out(b, o, R, N) /\ o.ok /\ o.m.got = x
  BY <1>1, GotOut
<1>4. Fits(o.m, "bytes_per_bin", o.m.got)
  BY DEF Fits, HostValues
<1>5. QED BY <1>2, <1>3, <1>4 DEF GetFine

\* The wait of a trace read is the board's.
LEMMA ADCWaitGet ==
  ASSUME NEW b, IsBoard(b), NEW R, NEW N, "CLOCK" \notin R, NEW o, o \in UdxpGetADCWait(b)
  PROVE  GetFine(b, o, "adc_trace_wait", R, N)
<1>1. Out(b, o, R, N) /\ (o.ok => o.m.got \in Nat \ {0})
  BY ClockOut DEF UdxpGetADCWait
<1>2. Fits(o.m, "adc_trace_wait", o.m.got)
  BY DEF Fits, HostValues
<1>3. QED BY <1>1, <1>2 DEF GetFine


\* The values that are one register each.
LEMMA RegisterGet ==
  ASSUME NEW b, IsBoard(b), NEW n \in NameSet, NEW R, NEW N,
         n \in DOMAIN Register \ {"number_of_scas", "sca0_lo", "sca1_hi"},
         NEW o, o \in GetFN(b, n)
  PROVE  GetFine(b, o, n, R, N)
<1>1. CASE n = "parset"
  <2>1. o \in Read(b, "PARSET") /\ "PARSET" \in Params /\ \A c : Actual(c, n) = c.par["PARSET"]
    BY <1>1, ParamsAre, ActualIs DEF GetFN, UdxpGetParset
  <2>2. QED BY <2>1, ReadGet
<1>2. CASE n = "genset"
  <2>1. o \in Read(b, "GENSET") /\ "GENSET" \in Params /\ \A c : Actual(c, n) = c.par["GENSET"]
    BY <1>2, ParamsAre, ActualIs DEF GetFN, UdxpGetGenset
  <2>2. QED BY <2>1, ReadGet
<1>3. CASE n = "fippi"
  <2>1. o \in Read(b, "FIPPI") /\ "FIPPI" \in Params /\ \A c : Actual(c, n) = c.par["FIPPI"]
    BY <1>3, ParamsAre, ActualIs DEF GetFN, UdxpGetFiPPI
  <2>2. QED BY <2>1, ReadGet
<1>4. CASE n = "trigger_threshold"
  <2>1. o \in Read(b, "THRESHT") /\ "THRESHT" \in Params /\ \A c : Actual(c, n) = c.par["THRESHT"]
    BY <1>4, ParamsAre, ActualIs DEF GetFN, UdxpGetTThresh
  <2>2. QED BY <2>1, ReadGet
<1>5. CASE n = "baseline_threshold"
  <2>1. o \in Read(b, "THRESHB") /\ "THRESHB" \in Params /\ \A c : Actual(c, n) = c.par["THRESHB"]
    BY <1>5, ParamsAre, ActualIs DEF GetFN, UdxpGetBThresh
  <2>2. QED BY <2>1, ReadGet
<1>6. CASE n = "energy_threshold"
  <2>1. o \in Read(b, "THRESHE") /\ "THRESHE" \in Params /\ \A c : Actual(c, n) = c.par["THRESHE"]
    BY <1>6, ParamsAre, ActualIs DEF GetFN, UdxpGetEThresh
  <2>2. QED BY <2>1, ReadGet
<1>7. CASE n = "number_mca_channels"
  <2>1. o \in Read(b, "MCALEN") /\ "MCALEN" \in Params /\ \A c : Actual(c, n) = c.par["MCALEN"]
    BY <1>7, ParamsAre, ActualIs DEF GetFN, UdxpGetNumMCA
  <2>2. QED BY <2>1, ReadGet
<1>8. CASE n = "mca_bin_width"
  <2>1. o \in Read(b, "BINWIDTH") /\ "BINWIDTH" \in Params /\ \A c : Actual(c, n) = c.par["BINWIDTH"]
    BY <1>8, ParamsAre, ActualIs DEF GetFN, UdxpGetBinWidth
  <2>2. QED BY <2>1, ReadGet
<1>9. CASE n = "polarity"
  <2>1. o \in Read(b, "POLARITY") /\ "POLARITY" \in Params /\ \A c : Actual(c, n) = c.par["POLARITY"]
    BY <1>9, ParamsAre, ActualIs DEF GetFN, UdxpGetPreampPol
  <2>2. QED BY <2>1, ReadGet
<1>10. CASE n = "fipcontrol"
  <2>1. o \in Read(b, "FIPCONTROL") /\ "FIPCONTROL" \in Params /\ \A c : Actual(c, n) = c.par["FIPCONTROL"]
    BY <1>10, ParamsAre, ActualIs DEF GetFN, UdxpGetFipControl
  <2>2. QED BY <2>1, ReadGet
<1>11. CASE n = "runtasks"
  <2>1. o \in Read(b, "RUNTASKS") /\ "RUNTASKS" \in Params /\ \A c : Actual(c, n) = c.par["RUNTASKS"]
    BY <1>11, ParamsAre, ActualIs DEF GetFN, UdxpGetRuntasks
  <2>2. QED BY <2>1, ReadGet
<1>12. CASE n = "peak_mode"
  <2>1. o \in Read(b, "PEAKMODE") /\ "PEAKMODE" \in Params /\ \A c : Actual(c, n) = c.par["PEAKMODE"]
    BY <1>12, ParamsAre, ActualIs DEF GetFN, UdxpGetPeakMode, UdxpGetFilterParam
  <2>2. QED BY <2>1, ReadGet
<1>13. CASE n = "baseline_factor"
  <2>1. o \in Read(b, "BFACTOR") /\ "BFACTOR" \in Params /\ \A c : Actual(c, n) = c.par["BFACTOR"]
    BY <1>13, ParamsAre, ActualIs DEF GetFN, UdxpGetBFactor, UdxpGetFilterParam
  <2>2. QED BY <2>1, ReadGet
<1>14. CASE n = "trace_trigger_type"
  <2>1. o \in Read(b, "TRACETRIG") /\ "TRACETRIG" \in Params /\ \A c : Actual(c, n) = c.par["TRACETRIG"]
    BY <1>14, ParamsAre, ActualIs DEF GetFN, UdxpGetTriggerType, UdxpGetParameter
  <2>2. QED BY <2>1, ReadGet
<1>15. CASE n = "trace_trigger_position"
  <2>1. o \in Read(b, "TRACEPRETRIG") /\ "TRACEPRETRIG" \in Params /\ \A c : Actual(c, n) = c.par["TRACEPRETRIG"]
    BY <1>15, ParamsAre, ActualIs DEF GetFN, UdxpGetTriggerPosition, UdxpGetParameter
  <2>2. QED BY <2>1, ReadGet
<1>16. CASE n = "preset_type"
  <2>1. o \in Read(b, "PRESET") /\ "PRESET" \in Params /\ \A c : Actual(c, n) = c.par["PRESET"]
    BY <1>16, ParamsAre, ActualIs DEF GetFN, UdxpGetPresetType, UdxpGetParameter
  <2>2. QED BY <2>1, ReadGet
<1>17. QED BY <1>1, <1>2, <1>3, <1>4, <1>5, <1>6, <1>7, <1>8, <1>9, <1>10, <1>11, <1>12, <1>13, <1>14, <1>15, <1>16 DEF Register

\* Every getter answers what the board has.
LEMMA GetFNFine ==
  ASSUME NEW b, IsBoard(b), b.got \in Int, NEW n \in NameSet, NEW R, NEW N,
         "CLOCK" \notin R,
         n \in {"number_of_scas", "sca0_lo", "sca1_hi"} =>
             "NUMSCA" \in R /\ "number_of_scas" \in N,
         NEW o, o \in GetFN(b, n)
  PROVE  GetFine(b, o, n, R, N)
<1>1. CASE n \in DOMAIN Register \ {"number_of_scas", "sca0_lo", "sca1_hi"}
  BY <1>1, RegisterGet
<1>2. CASE n = "trigger_peak_time"
  <2>1. o \in Ticks(b, "FASTLEN") /\ "FASTLEN" \in Params
    BY <1>2, ParamsAre DEF GetFN, UdxpGetTPeakTime
  <2>2. \A c : Actual(c, n) = c.par["FASTLEN"] * Period(c.par["CLOCK"])
    BY <1>2, ActualIs
  <2>3. QED BY <2>1, <2>2, TicksGet
<1>3. CASE n = "trigger_gap_time"
  <2>1. o \in Ticks(b, "FASTGAP") /\ "FASTGAP" \in Params
    BY <1>3, ParamsAre DEF GetFN, UdxpGetTGapTime
  <2>2. \A c : Actual(c, n) = c.par["FASTGAP"] * Period(c.par["CLOCK"])
    BY <1>3, ActualIs
  <2>3. QED BY <2>1, <2>2, TicksGet
<1>4. CASE n = "max_width"
  <2>1. o \in Ticks(b, "MAXWIDTH") /\ "MAXWIDTH" \in Params
    BY <1>4, ParamsAre DEF GetFN, UdxpGetMaxWidth
  <2>2. \A c : Actual(c, n) = c.par["MAXWIDTH"] * Period(c.par["CLOCK"])
    BY <1>4, ActualIs
  <2>3. QED BY <2>1, <2>2, TicksGet
<1>5. CASE n = "clock_speed"
  <2>1. o \in UdxpGetClockSpd(b)
    BY <1>5 DEF GetFN
  <2>2. QED BY <1>5, <2>1, ClockSpdOut
<1>6. CASE n = "energy_gap_time"
  <2>1. o \in UdxpGetEGapTime(b)
    BY <1>6 DEF GetFN
  <2>2. QED BY <1>6, <2>1, EGapTimeGet
<1>7. CASE n = "peaking_time"
  <2>1. o \in UdxpGetPeakingTime(b)
    BY <1>7 DEF GetFN
  <2>2. QED BY <1>7, <2>1, PeakingTimeGet
<1>8. CASE n = "baseline_length"
  <2>1. o \in UdxpGetBaseLen(b)
    BY <1>8 DEF GetFN
  <2>2. QED BY <1>8, <2>1, BaseLenGet
<1>9. CASE n = "bytes_per_bin"
  <2>1. o \in UdxpGetBytePerBin(b)
    BY <1>9 DEF GetFN
  <2>2. QED BY <1>9, <2>1, BytePerBinGet
<1>10. CASE n = "adc_trace_wait"
  <2>1. o \in UdxpGetADCWait(b)
    BY <1>10 DEF GetFN
  <2>2. QED BY <1>10, <2>1, ADCWaitGet
<1>11. CASE n = "gain_trim"
  <2>1. o \in UdxpGetGainTrim(b)
    BY <1>11 DEF GetFN
  <2>2. QED BY <1>11, <2>1, GainTrimGet
<1>12. CASE n = "gain"
  <2>1. o \in UdxpGetGainbase(b)
    BY <1>12 DEF GetFN
  <2>2. QED BY <1>12, <2>1, GainbaseGet
<1>13. CASE n = "preamp_value"
  <2>1. o \in UdxpGetPreampVal(b)
    BY <1>13 DEF GetFN
  <2>2. QED BY <1>13, <2>1, PreampValGet
<1>14. CASE n = "auto_adjust_offset"
  <2>1. o \in UdxpGetAutoAdjust(b)
    BY <1>14 DEF GetFN
  <2>2. QED BY <1>14, <2>1, AutoAdjustGet
<1>15. CASE n = "preset_value"
  <2>1. o \in UdxpGetPresetValue(b)
    BY <1>15 DEF GetFN
  <2>2. QED BY <1>15, <2>1, PresetValueGet
<1>16. CASE n = "high_voltage"
  <2>1. o \in UdxpGetHighVoltage(b)
    BY <1>16 DEF GetFN
  <2>2. QED BY <1>16, <2>1, HighVoltageGet
<1>17. CASE n = "number_of_scas"
  <2>1. o \in UdxpGetNumScas(b)
    BY <1>17 DEF GetFN
  <2>2. QED BY <1>17, <2>1, NumScasGet
<1>18. CASE n = "sca_time_on"
  <2>1. o \in UdxpGetScaTimeOn(b)
    BY <1>18 DEF GetFN
  <2>2. QED BY <1>18, <2>1, ScaTimeGet
<1>19. CASE n = "sca_time_off"
  <2>1. o \in UdxpGetScaTimeOff(b)
    BY <1>19 DEF GetFN
  <2>2. QED BY <1>19, <2>1, ScaTimeGet
<1>20. CASE n = "peak_interval"
  <2>1. o \in UdxpGetPeakInt(b)
    BY <1>20 DEF GetFN
  <2>2. QED BY <1>20, <2>1, TimerGet
<1>21. CASE n = "peak_sample"
  <2>1. o \in UdxpGetPeakSam(b)
    BY <1>21 DEF GetFN
  <2>2. QED BY <1>21, <2>1, TimerGet
<1>22. CASE n = "peakint_offset"
  <2>1. o \in UdxpGetPeakIntOffset(b)
    BY <1>22 DEF GetFN
  <2>2. QED BY <1>22, <2>1, OffsetGet
<1>23. CASE n = "peaksam_offset"
  <2>1. o \in UdxpGetPeakSamOffset(b)
    BY <1>23 DEF GetFN
  <2>2. QED BY <1>23, <2>1, OffsetGet
<1>24. CASE n \in {"sca0_lo", "sca1_hi"}
  <2>1. o \in UdxpGetSca(b, ScaParam(n))
    BY <1>24 DEF GetFN
  <2>2. QED BY <1>24, <2>1, ScaGet
<1>25. QED
  BY <1>1, <1>2, <1>3, <1>4, <1>5, <1>6, <1>7, <1>8, <1>9, <1>10, <1>11, <1>12, <1>13, <1>14, <1>15, <1>16, <1>17, <1>18, <1>19, <1>20, <1>21, <1>22, <1>23, <1>24, NamesAre DEF Register

-----------------------------------------------------------------------------
(* The registers that a set writes, the entries it forgets, and those it looks *)
(* after in another way.                                                       *)

Writes(n) ==
    CASE n = "parset" -> FilterParams \cup EnergyParams \cup {"PARSET"}
      [] n = "genset" -> SpectrumParams \cup EnergyParams \cup {"GENSET"}
      [] n = "fippi" -> FilterParams \cup EnergyParams \cup {"FIPPI"}
      [] n = "energy_gap_time" -> {"SLOWGAP", "PEAKINT", "PEAKSAM"}
      [] n \in Offsets -> {"PEAKINT", "PEAKSAM"}
      [] n = "trigger_peak_time" -> {"FASTLEN", "FASTGAP"}
      [] n = "trigger_gap_time" -> {"FASTGAP"}
      [] n = "max_width" -> {"MAXWIDTH"}
      [] n = "peak_interval" -> {"PEAKINT"}
      [] n = "peak_sample" -> {"PEAKSAM"}
      [] n = "baseline_length" -> {"BLFILTER"}
      [] n = "gain" -> {"GAINBASE", "SWGAIN", "DGAINBASE"}
      [] n = "preamp_value" -> {"RESETINT", "TAURC"}
      [] n = "auto_adjust_offset" -> {"RUNTASKS"}
      [] n = "preset_value" -> {"PRESET", "PRESETLEN"}
      [] n \in {"sca0_lo", "sca1_hi"} -> {ScaParam(n), "NUMSCA"}
      [] n \in DOMAIN HalfRegister -> {HalfRegister[n]}
      [] n \in DOMAIN Register \ {"parset", "genset", "fippi", "baseline_factor",
                                  "sca0_lo", "sca1_hi"} -> {Register[n]}
      [] OTHER -> {}

Forgotten(n) ==
    CASE n = "parset" -> {"energy_gap_time", "trigger_peak_time", "trigger_gap_time",
               "baseline_length", "trigger_threshold", "baseline_threshold",
               "energy_threshold", "gain_trim", "peak_interval", "peak_sample",
               "peak_mode", "peakint_offset", "peaksam_offset", "max_width",
               "peaking_time", "baseline_factor"}
      [] n = "genset" -> {"number_mca_channels", "mca_bin_width", "number_of_scas", "gain",
               "trigger_threshold", "baseline_threshold", "energy_threshold", "gain_trim"}
      [] n = "fippi" -> ParsetMembers
      [] n = "energy_gap_time" \/ n \in Offsets -> {"peak_sample", "peak_interval"}
      [] n = "peak_interval" -> {"peakint_offset"}
      [] n = "peak_sample" -> {"peaksam_offset"}
      [] OTHER -> {}

Shared(n) ==
    CASE n = "energy_gap_time" \/ n \in Offsets -> Offsets
      [] n = "trigger_peak_time" -> {"trigger_gap_time"}
      [] n = "preset_value" -> {"preset_type"}
      [] n \in {"sca0_lo", "sca1_hi"} -> {"number_of_scas"}
      [] OTHER -> {}

\* What a setter does.
SetFine(b, o, n, R, N, F) ==
    /\ Out(b, o, R, N)
    /\ o.ok => /\ Good(o.m, "clock_speed") => Fits(o.m, n, o.m.value)
               /\ \A m \in F : o.m.entry[m] # "synced"

\* The entries of N that were true are true, unless a call failed half way.
Held(b, o, N) ==
    Good(b, "clock_speed") /\ o.m.budget = b.budget /\ (o.ok \/ o.m.par = b.par) =>
        \A m \in N : Good(b, m) => Good(o.m, m)

-----------------------------------------------------------------------------
(* The setters. *)

\* The last step of a setter: the value it has made of the request.
LEMMA EndSet ==
  ASSUME NEW b, IsBoard(b), NEW n \in NameSet, NEW R, NEW N, NEW F, NEW z, Out(b, z, R, N),
         NEW v,
         z.ok => /\ v \in Int
                 /\ Good(z.m, "clock_speed") => Fits(z.m, n, v)
                 /\ \A m \in F : z.m.entry[m] # "synced",
         NEW o, o \in (IF z.ok THEN Valued(z.m, v) ELSE {z})
  PROVE  SetFine(b, o, n, R, N, F) /\ (o.ok => z.ok /\ Same(z.m, o.m))
<1>1. CASE ~z.ok
  BY <1>1 DEF SetFine
<1>2. CASE z.ok
  <2>1. IsBoard(z.m) /\ o \in Valued(z.m, v) /\ v \in Int
    BY <1>2 DEF Out, SameBoard
  <2>2. /\ Out(z.m, o, R, N) /\ o.ok /\ o.m.value = v
        /\ o.m.par = z.m.par /\ o.m.entry = z.m.entry /\ o.m.val = z.m.val
    BY <2>1, ValuedOut
  <2>3. Out(b, o, R, N)
    BY <1>2, <2>2, OutThen
  <2>4. SameBoard(b, z.m) /\ SameBoard(b, o.m)
    BY <2>3 DEF Out
  <2>5. \A m \in NameSet : \A y : Fits(z.m, m, y) <=> Fits(o.m, m, y)
    BY <2>2, <2>4, SameFit DEF SameBoard
  <2>6. Good(o.m, "clock_speed") => Good(z.m, "clock_speed")
    BY <2>2, <2>5, NamesAre DEF Good, Agrees
  <2>7. QED BY <1>2, <2>2, <2>3, <2>5, <2>6 DEF SetFine, Same
<1>3. QED BY <1>1, <1>2

\* A setter that refuses at once.
LEMMA RefusedSet ==
  ASSUME NEW b, IsBoard(b), NEW o, o \in Refused(b), NEW n, NEW R, NEW N, NEW F
  PROVE  SetFine(b, o, n, R, N, F) /\ o.m = b
  BY RefusedAtOnce DEF SetFine

\* A setter of one register.
LEMMA WriteSet ==
  ASSUME NEW b, IsBoard(b), NEW n \in NameSet, NEW p \in Params, NEW R, NEW N, p \in R,
         p # "CLOCK", NEW x \in RegisterValues(p), NEW v \in Int, NEW z \in Write(b, p, x),
         z.ok /\ z.m.par = [b.par EXCEPT ![p] = x] /\ z.m.par[p] = x
           /\ Good(z.m, "clock_speed") => Fits(z.m, n, v),
         NEW o, o \in (IF z.ok THEN Valued(z.m, v) ELSE {z})
  PROVE  SetFine(b, o, n, R, N, {})
<1>1. Wrote(b, z, p, x, R, N)
  BY WriteFine
<1>2. Out(b, z, R, N) /\ (z.ok /\ Good(z.m, "clock_speed") => Fits(z.m, n, v))
  BY <1>1 DEF Wrote
<1> DEFINE F == {}
<1>3. z.ok => /\ v \in Int
              /\ Good(z.m, "clock_speed") => Fits(z.m, n, v)
              /\ \A m \in F : z.m.entry[m] # "synced"
  BY <1>2
<1> HIDE DEF F
<1>4. SetFine(b, o, n, R, N, F)
  BY <1>2, <1>3, EndSet
<1>5. QED BY <1>4 DEF F

\* The names whose value is one register, written as it is asked for.
Plain == {"trigger_threshold", "baseline_threshold", "energy_threshold",
          "number_mca_channels", "mca_bin_width", "polarity", "fipcontrol", "runtasks",
          "peak_mode", "trace_trigger_type", "trace_trigger_position", "number_of_scas",
          "preset_type"}

\* A setter that writes one register makes its entry true.
LEMMA PlainSet ==
  ASSUME NEW b, IsBoard(b), NEW n \in Plain \cup {"sca0_lo", "sca1_hi"}, NEW v \in Int,
         NEW p, p = Register[n],
         NEW R, NEW N, p \in R, NEW z \in Write(b, p, v),
         NEW o, o \in (IF z.ok THEN Valued(z.m, v) ELSE {z})
  PROVE  SetFine(b, o, n, R, N, {})
<1>1. n \in NameSet /\ p \in Params /\ p # "CLOCK"
  BY NamesAre, ParamsAre DEF Plain, Register
<1>2. v \in RegisterValues(p)
  BY DEF Plain, Register, RegisterValues
<1>3. Actual(z.m, n) = z.m.par[p]
  BY ActualIs DEF Plain, Register
<1>4. z.ok /\ z.m.par = [b.par EXCEPT ![p] = v] /\ z.m.par[p] = v => Fits(z.m, n, v)
  BY <1>3, ActualFits
<1>5. QED BY <1>1, <1>2, <1>4, WriteSet

\* They either refuse or write.
LEMMA PlainSetFN ==
  ASSUME NEW b, IsBoard(b), NEW n \in Plain, NEW v \in Int, NEW R, NEW N, Register[n] \in R,
         NEW o, o \in SetFN(b, n, v)
  PROVE  SetFine(b, o, n, R, N, {})
<1> DEFINE Writing == \E z \in Write(b, Register[n], v) :
                         o \in IF z.ok THEN Valued(z.m, v) ELSE {z}
<1>1. o \in Refused(b) \/ Writing
  <2>1. CASE n = "trigger_threshold"
    <3>1. Register[n] = "THRESHT"
      BY <2>1 DEF Register
    <3>2. QED BY <2>1, <3>1 DEF SetFN, UdxpSetTThresh, SetThreshold, Then
  <2>2. CASE n = "baseline_threshold"
    <3>1. Register[n] = "THRESHB"
      BY <2>2 DEF Register
    <3>2. QED BY <2>2, <3>1 DEF SetFN, UdxpSetBThresh, SetThreshold, Then
  <2>3. CASE n = "energy_threshold"
    <3>1. Register[n] = "THRESHE"
      BY <2>3 DEF Register
    <3>2. QED BY <2>3, <3>1 DEF SetFN, UdxpSetEThresh, SetThreshold, Then
  <2>4. CASE n = "number_mca_channels"
    <3>1. Register[n] = "MCALEN"
      BY <2>4 DEF Register
    <3>2. QED BY <2>4, <3>1 DEF SetFN, UdxpSetNumMCA, Then
  <2>5. CASE n = "mca_bin_width"
    <3>1. Register[n] = "BINWIDTH"
      BY <2>5 DEF Register
    <3>2. QED BY <2>5, <3>1 DEF SetFN, UdxpSetBinWidth, Then
  <2>6. CASE n = "polarity"
    <3>1. Register[n] = "POLARITY"
      BY <2>6 DEF Register
    <3>2. QED BY <2>6, <3>1 DEF SetFN, UdxpSetPreampPol, Then
  <2>7. CASE n = "fipcontrol"
    <3>1. Register[n] = "FIPCONTROL"
      BY <2>7 DEF Register
    <3>2. QED BY <2>7, <3>1 DEF SetFN, UdxpSetFipControl, Then
  <2>8. CASE n = "runtasks"
    <3>1. Register[n] = "RUNTASKS"
      BY <2>8 DEF Register
    <3>2. QED BY <2>8, <3>1 DEF SetFN, UdxpSetRuntasks, Then
  <2>9. CASE n = "peak_mode"
    <3>1. Register[n] = "PEAKMODE"
      BY <2>9 DEF Register
    <3>2. QED BY <2>9, <3>1 DEF SetFN, UdxpSetPeakMode, UdxpSetFilterParam, Then
  <2>10. CASE n = "trace_trigger_type"
    <3>1. Register[n] = "TRACETRIG"
      BY <2>10 DEF Register
    <3>2. QED BY <2>10, <3>1 DEF SetFN, UdxpSetTriggerType, UdxpSetParameter, Then
  <2>11. CASE n = "trace_trigger_position"
    <3>1. Register[n] = "TRACEPRETRIG"
      BY <2>11 DEF Register
    <3>2. QED BY <2>11, <3>1 DEF SetFN, UdxpSetTriggerPosition, UdxpSetParameter, Then
  <2>12. CASE n = "number_of_scas"
    <3>1. Register[n] = "NUMSCA"
      BY <2>12 DEF Register
    <3>2. QED BY <2>12, <3>1 DEF SetFN, UdxpSetNumScas, UdxpSetParameter, Then
  <2>13. CASE n = "preset_type"
    <3>1. Register[n] = "PRESET"
      BY <2>13 DEF Register
    <3>2. QED BY <2>13, <3>1 DEF SetFN, UdxpSetPresetType, UdxpSetParameter, Then
  <2>14. QED BY <2>1, <2>2, <2>3, <2>4, <2>5, <2>6, <2>7, <2>8, <2>9, <2>10, <2>11, <2>12, <2>13 DEF Plain
<1>2. CASE o \in Refused(b)
  BY <1>2, RefusedSet
<1>3. CASE Writing
  BY <1>3, PlainSet
<1>4. QED BY <1>1, <1>2, <1>3

\* A setter after another function.
LEMMA ThenSet ==
  ASSUME NEW b, IsBoard(b), NEW n, NEW R, NEW N, NEW F, NEW z, Out(b, z, R, N), z.ok,
         NEW o, SetFine(z.m, o, n, R, N, F)
  PROVE  SetFine(b, o, n, R, N, F)
<1>1. Out(b, o, R, N)
  BY OutThen DEF SetFine
<1>2. QED BY <1>1 DEF SetFine

\* Times and voltages that are kept as asked for and set in whole units of two.
LEMMA HalfSet ==
  ASSUME NEW b, IsBoard(b), NEW n \in {"sca_time_on", "sca_time_off", "high_voltage"},
         NEW v \in Int, NEW R, NEW N, HalfRegister[n] \in R, NEW o, o \in SetFN(b, n, v)
  PROVE  SetFine(b, o, n, R, N, {})
<1> DEFINE p == HalfRegister[n]
           Writing == \E z \in Write(b, p, v \div 2) :
                         o \in IF z.ok THEN Valued(z.m, v) ELSE {z}
<1>1. o \in Refused(b) \/ Writing
  <2>1. CASE n = "sca_time_on"
    <3>1. p = "SCATIMEON"
      BY <2>1 DEF HalfRegister
    <3>2. QED BY <2>1, <3>1 DEF SetFN, UdxpSetScaTimeOn, UdxpSetParameter, Then
  <2>2. CASE n = "sca_time_off"
    <3>1. p = "SCATIMEOFF"
      BY <2>2 DEF HalfRegister
    <3>2. QED BY <2>2, <3>1 DEF SetFN, UdxpSetScaTimeOff, UdxpSetParameter, Then
  <2>3. CASE n = "high_voltage"
    <3>1. p = "VOLTS"
      BY <2>3 DEF HalfRegister
    <3>2. QED BY <2>3, <3>1 DEF SetFN, UdxpSetHighVoltage, Then
  <2>4. QED BY <2>1, <2>2, <2>3
<1>2. CASE o \in Refused(b)
  BY <1>2, RefusedSet
<1>3. CASE Writing
  <2>1. PICK z \in Write(b, p, v \div 2) : o \in IF z.ok THEN Valued(z.m, v) ELSE {z}
    BY <1>3
  <2>2. n \in NameSet /\ p \in Params /\ p # "CLOCK" /\ n \in Unrounded
    BY NamesAre, ParamsAre DEF HalfRegister, Unrounded
  <2>3. Actual(z.m, n) = 2 * z.m.par[p]
    BY ActualIs DEF HalfRegister
  <2>a. v \div 2 \in Int /\ v - 2 * (v \div 2) \in {0, 1}
    OBVIOUS
  <2> DEFINE x == v \div 2
  <2>4. x \in RegisterValues(p)
    BY <2>a DEF RegisterValues, HalfRegister
  <2>5. x \in Int /\ v - 2 * x \in {0, 1}
    BY <2>a
  <2>b. z \in Write(b, p, x)
    OBVIOUS
  <2> HIDE DEF x, p
  <2>6. z.ok /\ z.m.par = [b.par EXCEPT ![p] = x] /\ z.m.par[p] = x
          /\ Good(z.m, "clock_speed") => Fits(z.m, n, v)
    <3>1. v = 2 * x \/ v - 2 * x \in {-1, 1}
      BY <2>5
    <3>2. QED BY <2>2, <2>3, <3>1 DEF Fits
  <2>7. p \in R
    BY DEF p
  <2>8. QED BY <2>1, <2>2, <2>4, <2>6, <2>7, <2>b, WriteSet
<1>4. QED BY <1>1, <1>2, <1>3

\* One bit of RUNTASKS is set for any number but 0.
LEMMA AutoAdjustSet ==
  ASSUME NEW b, IsBoard(b), NEW v \in Int, NEW R, NEW N, "RUNTASKS" \in R,
         NEW o, o \in UdxpSetAutoAdjust(b, v)
  PROVE  SetFine(b, o, "auto_adjust_offset", R, N, {})
<1> DEFINE n == "auto_adjust_offset"
           p == "RUNTASKS"
<1>1. PICK z \in Read(b, p) :
          o \in IF z.ok
                THEN Then(Write(z.m, p, (z.m.got % 2) + (IF v = 0 THEN 0 ELSE 2)),
                          LAMBDA c : Valued(c, v))
                ELSE {z}
  BY DEF UdxpSetAutoAdjust, UdxpGetParameter, UdxpSetParameter, Then
<1>2. p \in Params /\ n \in NameSet /\ p # "CLOCK"
  BY ParamsAre, NamesAre
<1>3. Out(b, z, R, N) /\ (z.ok => z.m.got \in Int)
  BY <1>2, ReadOut
<1>4. CASE ~z.ok
  BY <1>1, <1>3, <1>4 DEF SetFine
<1>5. CASE z.ok
  <2> DEFINE x == (z.m.got % 2) + (IF v = 0 THEN 0 ELSE 2)
  <2>1. PICK y \in Write(z.m, p, x) : o \in IF y.ok THEN Valued(y.m, v) ELSE {y}
    BY <1>1, <1>5 DEF Then
  <2>2. IsBoard(z.m)
    BY <1>3 DEF Out, SameBoard
  <2>3. x \in Int /\ (x \div 2) % 2 = IF v = 0 THEN 0 ELSE 1
    BY <1>3, <1>5
  <2>4. x \in RegisterValues(p)
    BY <2>3 DEF RegisterValues
  <2>5. Actual(y.m, n) = (y.m.par[p] \div 2) % 2
    BY ActualIs
  <2> HIDE DEF x
  <2>6. y.ok /\ y.m.par = [z.m.par EXCEPT ![p] = x] /\ y.m.par[p] = x
          /\ Good(y.m, "clock_speed") => Fits(y.m, n, v)
    BY <2>3, <2>5 DEF Fits
  <2>7. SetFine(z.m, o, n, R, N, {})
    BY <1>2, <2>1, <2>2, <2>4, <2>6, WriteSet
  <2>8. QED BY <1>3, <1>5, <2>7, ThenSet
<1>6. QED BY <1>4, <1>5

\* The inverse of a length, which a length may make zero.
LEMMA BaseLenSet ==
  ASSUME NEW b, IsBoard(b), NEW v \in Nat \ {0}, NEW R, NEW N, "BLFILTER" \in R,
         NEW o, o \in UdxpSetBaseLen(b, v)
  PROVE  SetFine(b, o, "baseline_length", R, N, {})
<1> DEFINE x == Rounded(BaselineScale, v)
           y == BaselineScale \div x
<1>1. CASE x = 0
  <2>1. o \in Refused(b)
    BY <1>1 DEF UdxpSetBaseLen
  <2>2. QED BY <2>1, RefusedSet
<1>2. CASE x # 0
  <2>1. PICK z \in Write(b, "BLFILTER", x) : o \in IF z.ok THEN Valued(z.m, y) ELSE {z}
    BY <1>2 DEF UdxpSetBaseLen, Then
  <2>2. BaselineScale \in Int /\ BaselineScale >= 0
    BY LimitsAssumption
  <2>3. x \in Int /\ x >= 0
    BY <2>2, RoundedType
  <2>4. x \in Nat \ {0} /\ x > 0
    BY <1>2, <2>3
  <2>5. y \in Int
    BY <2>2, <2>4, DivisionType
  <2>6. x \in RegisterValues("BLFILTER")
    BY <2>4 DEF RegisterValues
  <2>7. "BLFILTER" \in Params /\ "baseline_length" \in NameSet
    BY ParamsAre, NamesAre
  <2>8. Actual(z.m, "baseline_length") = BaselineScale \div z.m.par["BLFILTER"]
    BY ActualIs
  <2>9. z.m.par["BLFILTER"] = x => Fits(z.m, "baseline_length", y)
    BY <2>8, ActualFits
  <2> HIDE DEF x, y
  <2>10. QED BY <2>1, <2>5, <2>6, <2>7, <2>9, WriteSet
<1>3. QED BY <1>1, <1>2

\* A number of ticks of the clock.
LEMMA TickSet ==
  ASSUME NEW b, IsBoard(b), NEW t \in Nat \ {0},
         Good(b, "clock_speed") => t = Period(b.par["CLOCK"]),
         NEW n \in {"trigger_peak_time", "trigger_gap_time", "max_width"},
         NEW p, p = ClockRegister[n], NEW R, NEW N, p \in R, "CLOCK" \notin R, NEW x \in Int,
         NEW z \in Write(b, p, x), NEW o, o \in (IF z.ok THEN Valued(z.m, x * t) ELSE {z})
  PROVE  SetFine(b, o, n, R, N, {})
<1>1. p \in Params /\ n \in NameSet /\ p # "CLOCK" /\ x \in RegisterValues(p)
  BY ParamsAre, NamesAre DEF ClockRegister, RegisterValues
<1>2. Wrote(b, z, p, x, R, N)
  BY <1>1, WriteFine
<1>3. Actual(z.m, n) = z.m.par[p] * Period(z.m.par["CLOCK"])
  BY ActualIs DEF ClockRegister
<1> DEFINE v == x * t
<1>4. v \in Int
  OBVIOUS
<1>5. ASSUME z.ok, z.m.par[p] = x, Good(z.m, "clock_speed") PROVE Fits(z.m, n, v)
  <2>1. SameBoard(b, z.m) /\ SameClock(b, z.m)
    BY <1>2, <1>5 DEF Wrote, Out, Step
  <2>2. Good(b, "clock_speed") /\ z.m.par["CLOCK"] = b.par["CLOCK"]
    BY <1>5, <2>1, ClockBelief DEF SameClock
  <2>3. v = Actual(z.m, n)
    BY <1>3, <1>5, <2>2
  <2>4. QED BY <2>3, ActualFits
<1>6. o \in IF z.ok THEN Valued(z.m, v) ELSE {z}
  OBVIOUS
<1> HIDE DEF v
<1>7. QED BY <1>1, <1>4, <1>5, <1>6, WriteSet

\* Setters whose value is the clock's ticks, but for the trigger filter's.
LEMMA TicksSet ==
  ASSUME NEW b, IsBoard(b), NEW v \in Int, NEW n \in {"trigger_gap_time", "max_width"},
         NEW R, NEW N, ClockRegister[n] \in R, "CLOCK" \notin R, NEW o, o \in SetFN(b, n, v)
  PROVE  SetFine(b, o, n, R, N, {})
<1> DEFINE p == ClockRegister[n]
           G(a) == Smaller(Rounded(v, a.got), IF n = "max_width" THEN MaxSlow
                                              ELSE MaxFast - a.par["FASTLEN"])
<1>1. PICK z \in Clock(b) :
          o \in IF z.ok THEN Then(Write(z.m, p, G(z.m)), LAMBDA c : Valued(c, G(z.m) * z.m.got))
                ELSE {z}
  <2>1. CASE n = "trigger_gap_time"
    <3>1. p = "FASTGAP" /\ n # "max_width"
      BY <2>1 DEF ClockRegister
    <3>2. QED BY <2>1, <3>1 DEF SetFN, UdxpSetTGapTime, UdxpSetFilterParam, Then
  <2>2. CASE n = "max_width"
    <3>1. p = "MAXWIDTH"
      BY <2>2 DEF ClockRegister
    <3>2. QED BY <2>2, <3>1 DEF SetFN, UdxpSetMaxWidth, UdxpSetFilterParam, Then
  <2>3. QED BY <2>1, <2>2
<1>2. /\ Out(b, z, R, N)
      /\ z.ok => /\ z.m.got \in Nat \ {0} /\ Quiet(b, z.m)
                 /\ Good(z.m, "clock_speed") => z.m.got = Period(z.m.par["CLOCK"])
  BY <1>1, ClockOut
<1>3. CASE ~z.ok
  BY <1>1, <1>2, <1>3 DEF SetFine
<1>4. CASE z.ok
  <2> DEFINE x == G(z.m)
             t == z.m.got
  <2>1. PICK y \in Write(z.m, p, x) : o \in IF y.ok THEN Valued(y.m, x * t) ELSE {y}
    BY <1>1, <1>4 DEF Then
  <2>2. IsBoard(z.m)
    BY <1>2 DEF Out, SameBoard
  <2>3. t \in Nat \ {0} /\ (Good(z.m, "clock_speed") => t = Period(z.m.par["CLOCK"]))
    BY <1>2, <1>4
  <2>4. x \in Int
    <3>1. z.m.par["FASTLEN"] \in Int /\ MaxFast \in Int /\ MaxSlow \in Int
      BY <2>2, BoardTypes, ParamsAre, LimitsAssumption
    <3>2. Rounded(v, t) \in Int
      BY <2>3, RoundedType
    <3>3. QED BY <3>1, <3>2 DEF Smaller
  <2> HIDE DEF x, t
  <2>5. SetFine(z.m, o, n, R, N, {})
    BY <2>1, <2>2, <2>3, <2>4, TickSet
  <2>6. QED BY <1>2, <1>4, <2>5, ThenSet
<1>5. QED BY <1>3, <1>4

\* The entry keeps the gain asked for, the board the nearest step.
LEMMA GainbaseSet ==
  ASSUME NEW b, IsBoard(b), NEW v \in Int, NEW R, NEW N,
         {"GAINBASE", "SWGAIN", "DGAINBASE"} \subseteq R, NEW o, o \in UdxpSetGainbase(b, v)
  PROVE  SetFine(b, o, "gain", R, N, {})
<1> DEFINE x == Rounded(v, 2)
           switch == Smaller(x \div 4, 3)
<1>1. PICK y \in UdxpGetGainMode(b) :
          o \in IF ~y.ok THEN {y}
                ELSE IF ~y.m.switched
                     THEN IF v > MaxGain THEN Refused(y.m)
                          ELSE Then(Write(y.m, "GAINBASE", x), LAMBDA c : Valued(c, v))
                     ELSE Then(Write(y.m, "SWGAIN", switch), LAMBDA c :
                          Then(Write(c, "DGAINBASE", x - 4 * switch), LAMBDA d : Valued(d, v)))
  BY DEF UdxpSetGainbase, Then
<1>2. Out(b, y, R, N) /\ (y.ok => y.m = b)
  BY GainModeOut
<1>3. /\ "GAINBASE" \in Params /\ "SWGAIN" \in Params /\ "DGAINBASE" \in Params
      /\ "gain" \in NameSet /\ "gain" \in Unrounded
  BY ParamsAre, NamesAre DEF Unrounded
<1>4. x \in Int /\ v - 2 * x \in {-1, 0, 1}
  <2>1. x \in Int
    BY RoundedType
  <2>2. 2 * x - v \in {-1, 0, 1}
    BY RoundedHalves
  <2> HIDE DEF x
  <2>3. QED BY <2>1, <2>2
<1>a. switch \in Int
  BY <1>4, DivisionType DEF Smaller
<1>5. ASSUME NEW c, Actual(c, "gain") = 2 * x PROVE Fits(c, "gain", v)
  BY <1>3, <1>4, <1>5 DEF Fits
<1> HIDE DEF x, switch
<1>6. CASE ~y.ok
  BY <1>1, <1>2, <1>6 DEF SetFine
<1>7. CASE y.ok /\ ~b.switched /\ v > MaxGain
  BY <1>1, <1>2, <1>7, RefusedSet
<1>8. CASE y.ok /\ ~b.switched /\ ~(v > MaxGain)
  <2>1. PICK z \in Write(b, "GAINBASE", x) : o \in IF z.ok THEN Valued(z.m, v) ELSE {z}
    BY <1>1, <1>2, <1>8 DEF Then
  <2>2. x \in RegisterValues("GAINBASE")
    BY <1>4 DEF RegisterValues
  <2>3. Wrote(b, z, "GAINBASE", x, R, N)
    BY <1>3, <2>1, <2>2, WriteFine
  <2>4. ASSUME z.ok PROVE Fits(z.m, "gain", v)
    <3>1. z.m.par["GAINBASE"] = x /\ z.m.switched = b.switched
      BY <2>3, <2>4 DEF Wrote, Out, SameBoard
    <3>2. BaseGain(z.m) = x
      BY <1>8, <3>1 DEF BaseGain
    <3>3. QED BY <1>5, <3>2, ActualIs
  <2>5. QED BY <1>3, <2>1, <2>2, <2>4, WriteSet
<1>9. CASE y.ok /\ b.switched
  <2>1. PICK z \in Write(b, "SWGAIN", switch) :
            o \in IF z.ok THEN Then(Write(z.m, "DGAINBASE", x - 4 * switch), LAMBDA d :
                                    Valued(d, v))
                  ELSE {z}
    BY <1>1, <1>2, <1>9 DEF Then
  <2>2. switch \in RegisterValues("SWGAIN") /\ x - 4 * switch \in RegisterValues("DGAINBASE")
    BY <1>4, <1>a DEF RegisterValues
  <2>3. Wrote(b, z, "SWGAIN", switch, R, N)
    BY <1>3, <2>1, <2>2, WriteFine
  <2>4. CASE ~z.ok
    BY <2>1, <2>3, <2>4 DEF Wrote, SetFine
  <2>5. CASE z.ok
    <3> DEFINE rest == x - 4 * switch
    <3>1. PICK w \in Write(z.m, "DGAINBASE", rest) :
              o \in IF w.ok THEN Valued(w.m, v) ELSE {w}
      BY <2>1, <2>5 DEF Then
    <3>a. rest \in RegisterValues("DGAINBASE") /\ 4 * switch + rest = x
      BY <1>4, <1>a, <2>2
    <3> HIDE DEF rest
    <3>2. IsBoard(z.m) /\ z.m.switched /\ z.m.par = [b.par EXCEPT !["SWGAIN"] = switch]
          /\ z.m.par["SWGAIN"] = switch
      BY <1>9, <2>3, <2>5 DEF Wrote, Out, SameBoard
    <3>3. Wrote(z.m, w, "DGAINBASE", rest, R, N)
      BY <1>3, <3>1, <3>2, <3>a, WriteFine
    <3>4. ASSUME w.ok PROVE Fits(w.m, "gain", v)
      <4>1. w.m.switched /\ w.m.par["DGAINBASE"] = rest
            /\ w.m.par = [z.m.par EXCEPT !["DGAINBASE"] = rest]
        BY <3>2, <3>3, <3>4 DEF Wrote, Out, SameBoard
      <4>2. w.m.par["SWGAIN"] = switch
        BY <1>3, <3>2, <4>1, BoardTypes
      <4>3. BaseGain(w.m) = x
        BY <3>a, <4>1, <4>2 DEF BaseGain
      <4>4. QED BY <1>5, <4>3, ActualIs
    <3>5. SetFine(z.m, o, "gain", R, N, {})
      BY <1>3, <3>1, <3>2, <3>4, <3>a, WriteSet
    <3>6. Out(b, z, R, N)
      BY <2>3 DEF Wrote
    <3>7. QED BY <2>5, <3>5, <3>6, ThenSet
  <2>6. QED BY <2>4, <2>5
<1>10. QED BY <1>2, <1>6, <1>7, <1>8, <1>9

\* The gain through the defaults.
LEMMA GainOut ==
  ASSUME NEW b, IsBoard(b), NEW R, NEW N, Sources("gain") \cap R = {},
         NEW o, o \in UdxpGetAcquisitionValues(b, "gain", UdxpGetGainbase(b))
  PROVE  Out(b, o, R, N) /\ Acquired(b, o, "gain")
<1> DEFINE outs == UdxpGetGainbase(b)
<1>1. \A z \in outs : GetFine(b, z, "gain", R, N)
  BY GainbaseGet
<1>2. "gain" \in NameSet /\ o \in UdxpGetAcquisitionValues(b, "gain", outs)
  BY NamesAre
<1> HIDE DEF outs
<1>3. QED BY <1>1, <1>2, AcquireOut

\* The gain trim that is set is the board's, within its rounding.
LEMMA GainTrimSet ==
  ASSUME NEW b, IsBoard(b), NEW v \in Int, NEW R, NEW N, "GAINTWEAK" \in R,
         Sources("gain") \cap R = {}, NEW o, o \in UdxpSetGainTrim(b, v)
  PROVE  SetFine(b, o, "gain_trim", R, N, {})
<1> DEFINE x == Rounded(v, 2)
<1>1. PICK y \in UdxpGetGainMode(b) :
          o \in IF ~y.ok THEN {y}
                ELSE IF v > MaxTrim THEN Refused(y.m)
                ELSE Then(UdxpGetAcquisitionValues(y.m, "gain", UdxpGetGainbase(y.m)),
                          LAMBDA c :
                          IF v + c.got > MaxGain THEN Refused(c)
                          ELSE Then(Write(c, "GAINTWEAK", x), LAMBDA d : Valued(d, 2 * x)))
  BY DEF UdxpSetGainTrim, Then
<1>2. Out(b, y, R, N) /\ (y.ok => y.m = b)
  BY GainModeOut
<1>3. "GAINTWEAK" \in Params /\ "gain_trim" \in NameSet /\ x \in Int
  BY ParamsAre, NamesAre, RoundedType
<1> DEFINE w == 2 * x
<1>4. w \in Int
  BY <1>3
<1>5. CASE ~y.ok
  BY <1>1, <1>2, <1>5 DEF SetFine
<1>6. CASE y.ok /\ v > MaxTrim
  BY <1>1, <1>2, <1>6, RefusedSet
<1>7. CASE y.ok /\ ~(v > MaxTrim)
  <2>1. PICK z \in UdxpGetAcquisitionValues(b, "gain", UdxpGetGainbase(b)) :
            o \in IF ~z.ok THEN {z}
                  ELSE IF v + z.m.got > MaxGain THEN Refused(z.m)
                  ELSE Then(Write(z.m, "GAINTWEAK", x), LAMBDA d : Valued(d, w))
    BY <1>1, <1>2, <1>7 DEF Then
  <2>2. Out(b, z, R, N)
    BY <2>1, GainOut
  <2>3. IsBoard(z.m)
    BY <2>2 DEF Out, SameBoard
  <2>4. CASE ~z.ok
    BY <2>1, <2>2, <2>4 DEF SetFine
  <2>5. CASE z.ok /\ v + z.m.got > MaxGain
    <3>1. SetFine(z.m, o, "gain_trim", R, N, {})
      BY <2>1, <2>3, <2>5, RefusedSet
    <3>2. QED BY <2>2, <2>5, <3>1, ThenSet
  <2>6. CASE z.ok /\ ~(v + z.m.got > MaxGain)
    <3>1. PICK u \in Write(z.m, "GAINTWEAK", x) : o \in IF u.ok THEN Valued(u.m, w) ELSE {u}
      BY <2>1, <2>6 DEF Then
    <3>2. Actual(u.m, "gain_trim") = 2 * u.m.par["GAINTWEAK"]
      BY ActualIs
    <3>3. u.m.par["GAINTWEAK"] = x => Fits(u.m, "gain_trim", w)
      BY <3>2, ActualFits
    <3>4. x \in RegisterValues("GAINTWEAK")
      BY <1>3 DEF RegisterValues
    <3> HIDE DEF x, w
    <3>5. SetFine(z.m, o, "gain_trim", R, N, {})
      BY <1>3, <1>4, <2>3, <3>1, <3>3, <3>4, WriteSet
    <3>6. QED BY <2>2, <2>6, <3>5, ThenSet
  <2>7. QED BY <2>4, <2>5, <2>6
<1>8. QED BY <1>5, <1>6, <1>7

\* The reset interval or the decay time of a preamplifier.
LEMMA ResetIntervalSet ==
  ASSUME NEW b, IsBoard(b), b.par["CODEVAR"] = 0, NEW v \in Int, NEW R, NEW N,
         "RESETINT" \in R, NEW o, o \in UdxpSetResetInterval(b, v)
  PROVE  SetFine(b, o, "preamp_value", R, N, {})
<1> DEFINE x == Smaller(v, MaxInterval)
<1>1. PICK z \in Write(b, "RESETINT", x) : o \in IF z.ok THEN Valued(z.m, x) ELSE {z}
  BY DEF UdxpSetResetInterval, Then
<1>2. x \in Int
  BY LimitsAssumption DEF Smaller
<1>3. x \in RegisterValues("RESETINT")
  BY <1>2 DEF RegisterValues
<1>4. "RESETINT" \in Params /\ "CODEVAR" \in Params /\ "preamp_value" \in NameSet
  BY ParamsAre, NamesAre
<1> HIDE DEF x
<1>5. ASSUME z.m.par = [b.par EXCEPT !["RESETINT"] = x] PROVE Fits(z.m, "preamp_value", x)
  <2>1. z.m.par["CODEVAR"] = 0 /\ z.m.par["RESETINT"] = x
    BY <1>4, <1>5, BoardTypes
  <2>2. Actual(z.m, "preamp_value") = x
    BY <2>1, ActualIs
  <2>3. QED BY <2>2, ActualFits
<1>6. QED BY <1>1, <1>2, <1>3, <1>4, <1>5, WriteSet

\* The RC decay time that is set is the board's, within its rounding.
LEMMA RCTauSet ==
  ASSUME NEW b, IsBoard(b), b.par["CODEVAR"] # 0, NEW v \in Int, NEW R, NEW N,
         "TAURC" \in R, "CLOCK" \notin R, NEW o, o \in UdxpSetRCTau(b, v)
  PROVE  SetFine(b, o, "preamp_value", R, N, {})
<1> DEFINE G(a) == Rounded(Smaller(v, MaxTau * a.got), a.got)
<1>1. PICK z \in TauClock(b) :
          o \in IF z.ok THEN Then(Write(z.m, "TAURC", G(z.m)), LAMBDA c :
                                  Valued(c, G(z.m) * z.m.got))
                ELSE {z}
  BY DEF UdxpSetRCTau, Then
<1>2. /\ Out(b, z, R, N)
      /\ z.ok => /\ z.m.got \in Nat \ {0} /\ Quiet(b, z.m)
                 /\ Good(z.m, "clock_speed") => z.m.got = TauUnit(z.m)
  BY <1>1, TauClockOut
<1>3. CASE ~z.ok
  BY <1>1, <1>2, <1>3 DEF SetFine
<1>4. CASE z.ok
  <2> DEFINE x == G(z.m)
             t == z.m.got
             w == x * t
  <2>1. PICK y \in Write(z.m, "TAURC", x) : o \in IF y.ok THEN Valued(y.m, w) ELSE {y}
    BY <1>1, <1>4 DEF Then
  <2>2. IsBoard(z.m) /\ z.m.par["CODEVAR"] # 0
    BY <1>2, <1>4 DEF Out, SameBoard, Quiet
  <2>3. t \in Nat \ {0} /\ (Good(z.m, "clock_speed") => t = TauUnit(z.m))
    BY <1>2, <1>4
  <2>4. x \in Int
    <3>1. MaxTau * t \in Int
      BY <2>3, LimitsAssumption
    <3>2. Smaller(v, MaxTau * t) \in Int
      BY <3>1 DEF Smaller
    <3>3. QED BY <2>3, <3>2, RoundedType
  <2>5. w \in Int
    BY <2>3, <2>4
  <2>6. /\ "TAURC" \in Params /\ "CODEVAR" \in Params /\ "CLOCK" \in Params
        /\ "preamp_value" \in NameSet /\ x \in RegisterValues("TAURC")
    BY <2>4, ParamsAre, NamesAre DEF RegisterValues
  <2>7. w = x * t
    OBVIOUS
  <2> HIDE DEF x, t, w
  <2>8. Wrote(z.m, y, "TAURC", x, R, N)
    BY <2>1, <2>2, <2>6, WriteFine
  <2>9. ASSUME y.ok, Good(y.m, "clock_speed") PROVE Fits(y.m, "preamp_value", w)
    <3>1. SameBoard(z.m, y.m) /\ SameClock(z.m, y.m)
          /\ y.m.par = [z.m.par EXCEPT !["TAURC"] = x]
      BY <2>8, <2>9 DEF Wrote, Out, Step
    <3>2. y.m.par["CODEVAR"] # 0 /\ y.m.par["TAURC"] = x /\ y.m.par["CLOCK"] = z.m.par["CLOCK"]
      BY <2>2, <2>6, <3>1, BoardTypes
    <3>3. Good(z.m, "clock_speed")
      BY <2>9, <3>1, ClockBelief
    <3>4. TauUnit(y.m) = TauUnit(z.m)
      BY <3>1, <3>2 DEF TauUnit, SameBoard
    <3>5. Actual(y.m, "preamp_value") = y.m.par["TAURC"] * TauUnit(y.m)
      BY <3>2, ActualIs DEF TauUnit
    <3>6. w = Actual(y.m, "preamp_value")
      BY <2>3, <2>7, <3>2, <3>3, <3>4, <3>5
    <3>7. QED BY <3>6, ActualFits
  <2>10. SetFine(z.m, o, "preamp_value", R, N, {})
    BY <2>1, <2>2, <2>5, <2>6, <2>9, WriteSet
  <2>11. QED BY <1>2, <1>4, <2>10, ThenSet
<1>5. QED BY <1>3, <1>4

\* The preamplifier's value that is set is the board's, of both variants.
LEMMA PreampValSet ==
  ASSUME NEW b, IsBoard(b), NEW v \in Int, NEW R, NEW N, {"RESETINT", "TAURC"} \subseteq R,
         "CLOCK" \notin R, NEW o, o \in UdxpSetPreampVal(b, v)
  PROVE  SetFine(b, o, "preamp_value", R, N, {})
<1>1. PICK z \in Read(b, "CODEVAR") :
          o \in IF ~z.ok THEN {z}
                ELSE IF z.m.got = 0 THEN UdxpSetResetInterval(z.m, v) ELSE UdxpSetRCTau(z.m, v)
  BY DEF UdxpSetPreampVal, UdxpQueryPreampType, UdxpGetParameter, Then
<1>2. "CODEVAR" \in Params
  BY ParamsAre
<1>3. Out(b, z, R, N) /\ (z.ok => z.m.got = b.par["CODEVAR"] /\ z.m.par = b.par)
  BY <1>2, ReadOut
<1>4. IsBoard(z.m)
  BY <1>3 DEF Out, SameBoard
<1>5. CASE ~z.ok
  BY <1>1, <1>3, <1>5 DEF SetFine
<1>6. CASE z.ok /\ z.m.got = 0
  <2>1. SetFine(z.m, o, "preamp_value", R, N, {})
    BY <1>1, <1>3, <1>4, <1>6, ResetIntervalSet
  <2>2. QED BY <1>3, <1>6, <2>1, ThenSet
<1>7. CASE z.ok /\ z.m.got # 0
  <2>1. SetFine(z.m, o, "preamp_value", R, N, {})
    BY <1>1, <1>3, <1>4, <1>7, RCTauSet
  <2>2. QED BY <1>3, <1>7, <2>1, ThenSet
<1>8. QED BY <1>5, <1>6, <1>7

\* The host's own values.
LEMMA TraceWaitSet ==
  ASSUME NEW b, IsBoard(b), NEW v \in Int, NEW R, NEW N, "CLOCK" \notin R,
         NEW o, o \in UdxpCheckTraceWaitRange(b, v)
  PROVE  SetFine(b, o, "adc_trace_wait", R, N, {})
<1> DEFINE G(a) == Rounded(Larger(Smaller(v, MaxWait), a.got), a.got) * a.got
<1>1. PICK z \in Clock(b) : o \in IF z.ok THEN Valued(z.m, G(z.m)) ELSE {z}
  BY DEF UdxpCheckTraceWaitRange, Then
<1>2. Out(b, z, R, N) /\ (z.ok => z.m.got \in Nat \ {0})
  BY <1>1, ClockOut
<1> DEFINE x == G(z.m)
           F == {}
<1>3. z.ok => x \in Int
  <2>1. z.ok => Larger(Smaller(v, MaxWait), z.m.got) \in Int
    BY <1>2, LimitsAssumption DEF Larger, Smaller
  <2>2. z.ok => Rounded(Larger(Smaller(v, MaxWait), z.m.got), z.m.got) \in Int
    BY <1>2, <2>1, RoundedType
  <2>3. QED BY <1>2, <2>2
<1>4. "adc_trace_wait" \in NameSet /\ o \in IF z.ok THEN Valued(z.m, x) ELSE {z}
  BY <1>1, NamesAre
<1>5. \A c, y : Fits(c, "adc_trace_wait", y)
  BY DEF Fits, HostValues
<1>6. \A m \in F : z.m.entry[m] # "synced"
  OBVIOUS
<1> HIDE DEF x, F
<1>7. SetFine(b, o, "adc_trace_wait", R, N, F)
  BY <1>2, <1>3, <1>4, <1>5, <1>6, EndSet
<1>8. QED BY <1>7 DEF F

\* The bytes per bin belong to the host and change nothing on the board.
LEMMA BytePerBinSet ==
  ASSUME NEW b, IsBoard(b), NEW v \in Int, NEW R, NEW N, NEW o, o \in UdxpSetBytePerBin(b, v)
  PROVE  SetFine(b, o, "bytes_per_bin", R, N, {})
<1>1. CASE o \in Refused(b)
  BY <1>1, RefusedSet
<1>2. CASE o \in Valued(b, v)
  <2>1. Out(b, o, R, N)
    BY <1>2, ValuedOut
  <2>2. Fits(o.m, "bytes_per_bin", o.m.value)
    BY DEF Fits, HostValues
  <2>3. QED BY <2>1, <2>2 DEF SetFine
<1>3. QED BY <1>1, <1>2 DEF UdxpSetBytePerBin

\* A timer of the peak, set by itself.
LEMMA TimerSet ==
  ASSUME NEW b, IsBoard(b), NEW v \in Nat, NEW R, NEW N, "CLOCK" \notin R,
         NEW p \in {"PEAKINT", "PEAKSAM"}, p \in R,
         NEW n, n = IF p = "PEAKINT" THEN "peak_interval" ELSE "peak_sample",
         NEW m, m = IF p = "PEAKINT" THEN "peakint_offset" ELSE "peaksam_offset", NEW o,
         o \in IF p = "PEAKINT" THEN UdxpSetPeakInt(b, v) ELSE UdxpSetPeakSam(b, v)
  PROVE  SetFine(b, o, n, R, N, {m})
<1> DEFINE G(a) == Rounded(v, a.got)
<1>1. PICK z \in UdxpGetClockTick(b) :
          o \in IF ~z.ok THEN {z}
                ELSE IF G(z.m) > MaxTimer THEN Refused(z.m)
                ELSE Then(Write(z.m, p, G(z.m)), LAMBDA c :
                     Then(Invalidate(c, m), LAMBDA d : Valued(d, G(z.m) * z.m.got)))
  <2>1. CASE p = "PEAKINT"
    BY <2>1 DEF UdxpSetPeakInt, UdxpSetFilterParam, Then
  <2>2. CASE p = "PEAKSAM"
    BY <2>2 DEF UdxpSetPeakSam, UdxpSetFilterParam, Then
  <2>3. QED BY <2>1, <2>2
<1>2. /\ p \in Params /\ n \in NameSet /\ m \in NameSet \ {"clock_speed"} /\ p # "CLOCK"
      /\ "CLOCK" \in Params /\ "FIPPI" \in Params /\ p # "FIPPI"
  BY ParamsAre, NamesAre
<1>3. /\ Out(b, z, R, N)
      /\ z.ok => /\ z.m.got \in Nat \ {0} /\ Quiet(b, z.m)
                 /\ Good(z.m, "clock_speed") => z.m.got = TrueTick(z.m)
  BY <1>1, TickOut
<1>4. IsBoard(z.m)
  BY <1>3 DEF Out, SameBoard
<1>5. CASE ~z.ok
  BY <1>1, <1>3, <1>5 DEF SetFine
<1>6. CASE z.ok /\ G(z.m) > MaxTimer
  <2>1. SetFine(z.m, o, n, R, N, {m})
    BY <1>1, <1>4, <1>6, RefusedSet
  <2>2. QED BY <1>3, <1>6, <2>1, ThenSet
<1>7. CASE z.ok /\ ~(G(z.m) > MaxTimer)
  <2> DEFINE x == G(z.m)
             t == z.m.got
             w == x * t
  <2>1. PICK y \in Write(z.m, p, x) :
            o \in IF y.ok THEN Then(Invalidate(y.m, m), LAMBDA d : Valued(d, w)) ELSE {y}
    BY <1>1, <1>7 DEF Then
  <2>2. t \in Nat \ {0} /\ (Good(z.m, "clock_speed") => t = TrueTick(z.m))
    BY <1>3, <1>7
  <2>3. x \in Int /\ x >= 0 /\ MaxTimer \in Int /\ x <= MaxTimer
    <3>1. x \in Int /\ x >= 0
      BY <2>2, RoundedType
    <3>2. MaxTimer \in Int /\ ~(x > MaxTimer)
      BY <1>7, LimitsAssumption
    <3> HIDE DEF x
    <3>3. QED BY <3>1, <3>2
  <2>4. x \in RegisterValues(p)
    BY <2>3 DEF RegisterValues
  <2>5. w \in Int /\ w = x * t
    BY <2>2, <2>3
  <2> HIDE DEF x, t, w
  <2>6. Wrote(z.m, y, p, x, R, N)
    BY <1>2, <1>4, <2>1, <2>4, WriteFine
  <2>7. Out(b, y, R, N)
    BY <1>3, <1>7, <2>6, OutThen DEF Wrote
  <2>8. CASE ~y.ok
    BY <2>1, <2>7, <2>8 DEF SetFine
  <2>9. CASE y.ok
    <3>1. PICK u \in Invalidate(y.m, m) : o \in IF u.ok THEN Valued(u.m, w) ELSE {u}
      BY <2>1, <2>9 DEF Then
    <3>2. IsBoard(y.m)
      BY <2>7 DEF Out, SameBoard
    <3>3. Out(y.m, u, R, N) /\ u.m.par = y.m.par /\ (u.ok => u.m.entry[m] = "unknown")
      BY <1>2, <3>1, <3>2, InvalidateOut
    <3>4. Out(b, u, R, N)
      BY <2>7, <2>9, <3>3, OutThen
    <3>5. ASSUME u.ok, Good(u.m, "clock_speed") PROVE Fits(u.m, n, w)
      <4>1. SameBoard(y.m, u.m) /\ SameClock(y.m, u.m) /\ SameBoard(z.m, y.m)
            /\ SameClock(z.m, y.m)
        BY <2>6, <2>9, <3>3, <3>5 DEF Wrote, Out, Step
      <4>2. Good(z.m, "clock_speed")
        BY <3>5, <4>1, ClockBelief
      <4>3. y.m.par = [z.m.par EXCEPT ![p] = x] /\ y.m.par[p] = x
        BY <2>6, <2>9 DEF Wrote
      <4>4. u.m.par["CLOCK"] = z.m.par["CLOCK"] /\ u.m.par["FIPPI"] = z.m.par["FIPPI"]
        BY <1>2, <1>4, <3>3, <4>3, BoardTypes
      <4>5. TrueTick(u.m) = TrueTick(z.m)
        BY <4>4 DEF TrueTick, Decimation
      <4>6. Actual(u.m, n) = u.m.par[p] * TrueTick(u.m)
        BY ActualIs
      <4>7. w = Actual(u.m, n)
        BY <2>2, <2>5, <3>3, <4>2, <4>3, <4>5, <4>6
      <4>8. QED BY <4>7, ActualFits
    <3> DEFINE F == {m}
    <3>6. u.ok => /\ w \in Int
                  /\ Good(u.m, "clock_speed") => Fits(u.m, n, w)
                  /\ \A g \in F : u.m.entry[g] # "synced"
      BY <2>5, <3>3, <3>5
    <3> HIDE DEF F
    <3>7. SetFine(b, o, n, R, N, F)
      BY <1>2, <3>1, <3>4, <3>6, EndSet
    <3>8. QED BY <3>7 DEF F
  <2>10. QED BY <2>8, <2>9
<1>8. QED BY <1>5, <1>6, <1>7

-----------------------------------------------------------------------------
(* Failures that only a command brings about. *)

Spent(b, o) == o.ok \/ o.m.budget # b.budget

\* A command succeeds or spends a fault.
LEMMA CommandSpent ==
  ASSUME NEW b, IsBoard(b), NEW n, IsBoard(n), NEW o, o \in Command(b, n)
  PROVE  Spent(b, o)
<1>1. CASE o \in Done(n)
  BY <1>1, DoneIs DEF Spent
<1>2. ASSUME NEW c, IsBoard(c), b.budget # 0,
             o \in Refused(WithField(c, "budget", b.budget - 1))
      PROVE  Spent(b, o)
  <2>1. o.m = WithField(c, "budget", b.budget - 1)
    BY <1>2, RefusedIs
  <2>2. b.budget \in Nat /\ b.budget - 1 \in Nat /\ b.budget - 1 # b.budget
    BY <1>2, BoardTypes
  <2> DEFINE x == b.budget - 1
  <2>3. x \in Nat /\ x # b.budget /\ o.m = WithField(c, "budget", x)
    BY <2>1, <2>2
  <2> HIDE DEF x
  <2>4. o.m.budget = x
    BY <1>2, <2>3, BudgetSpent
  <2>5. QED BY <2>3, <2>4 DEF Spent
<1>3. QED BY <1>1, <1>2 DEF Command, WithField

\* A read succeeds or spends a fault.
LEMMA ReadSpent ==
  ASSUME NEW b, IsBoard(b), NEW p \in Params, NEW o, o \in Read(b, p)
  PROVE  Spent(b, o)
<1> DEFINE c == WithField(b, "got", b.par[p])
<1>1. o \in Command(b, c) /\ c = WithField(b, "got", b.par[p])
  BY DEF Read, WithField
<1> HIDE DEF c
<1>2. IsBoard(c)
  BY <1>1, Scratch
<1>3. QED BY <1>1, <1>2, CommandSpent

\* A write succeeds or spends a fault.
LEMMA WriteSpent ==
  ASSUME NEW b, IsBoard(b), NEW p \in Params, NEW x \in RegisterValues(p), NEW o,
         o \in Write(b, p, x)
  PROVE  Spent(b, o)
<1> DEFINE c == WithRegister(b, p, x)
<1>1. o \in Command(b, c) /\ c = WithRegister(b, p, x)
  BY DEF Write, WithRegister
<1> HIDE DEF c
<1>2. IsBoard(c)
  BY <1>1, RegisterSet
<1>3. QED BY <1>1, <1>2, CommandSpent

\* Getting a value succeeds, or its getter has spent a fault.
LEMMA AcquireSpent ==
  ASSUME NEW b, NEW n, NEW outs, \A z \in outs : Spent(b, z),
         NEW o, o \in UdxpGetAcquisitionValues(b, n, outs)
  PROVE  Spent(b, o)
<1>1. CASE b.entry[n] = "synced"
  BY <1>1, DoneIs DEF UdxpGetAcquisitionValues, Spent
<1>2. CASE b.entry[n] # "synced"
  <2> DEFINE F(a) == Done(IF a.entry[n] = "absent" THEN a
                          ELSE [a EXCEPT !.entry[n] = "synced", !.val[n] = a.got])
  <2>1. PICK z \in outs : o \in IF z.ok THEN F(z.m) ELSE {z}
    BY <1>2 DEF UdxpGetAcquisitionValues, Then
  <2>2. CASE z.ok
    BY <2>1, <2>2, DoneIs DEF Spent
  <2>3. CASE ~z.ok
    BY <2>1, <2>3 DEF Spent
  <2>4. QED BY <2>2, <2>3
<1>3. QED BY <1>1, <1>2

\* What follows an outcome that succeeded.
LEMMA SpentThen ==
  ASSUME NEW b, NEW z, NEW R, NEW N, Out(b, z, R, N), z.ok, NEW o, Spent(z.m, o)
  PROVE  Spent(b, o)
  BY DEF Spent, Out

\* Reading the clock succeeds or spends a fault.
LEMMA ClockSpent ==
  ASSUME NEW b, IsBoard(b), NEW o, o \in Clock(b)
  PROVE  Spent(b, o)
<1> DEFINE outs == UdxpGetClockSpd(b)
<1>1. ASSUME NEW z \in outs PROVE Spent(b, z)
  <2>1. PICK y \in Read(b, "CLOCK") :
            z \in IF y.ok THEN Done([y.m EXCEPT !.got = Period(y.m.got)]) ELSE {y}
    BY DEF UdxpGetClockSpd, Got, Then
  <2>2. Spent(b, y)
    BY ReadSpent, ParamsAre
  <2>3. y.ok => z.ok = TRUE
    BY <2>1, DoneIs
  <2>4. QED BY <2>1, <2>2, <2>3 DEF Spent
<1>2. o \in UdxpGetAcquisitionValues(b, "clock_speed", outs)
  BY DEF Clock
<1> HIDE DEF outs
<1>3. QED BY <1>1, <1>2, AcquireSpent

\* Reading a tick succeeds or spends a fault.
LEMMA TickSpent ==
  ASSUME NEW b, IsBoard(b), NEW o, o \in UdxpGetClockTick(b)
  PROVE  Spent(b, o)
<1>1. PICK z \in Clock(b) :
          o \in IF z.ok THEN Command(z.m, [z.m EXCEPT !.got = @ * PowerOfTwo(Decimation(z.m))])
                ELSE {z}
  BY DEF UdxpGetClockTick, Then
<1>2. Out(b, z, {}, {}) /\ Spent(b, z)
  BY ClockOut, ClockSpent
<1>3. CASE ~z.ok
  BY <1>1, <1>2, <1>3
<1>4. CASE z.ok
  <2> DEFINE x == z.m.got * PowerOfTwo(Decimation(z.m))
             c == WithField(z.m, "got", x)
  <2>1. IsBoard(z.m)
    BY <1>2 DEF Out, SameBoard
  <2>2. o \in Command(z.m, c) /\ c = WithField(z.m, "got", x)
    BY <1>1, <1>4, <2>1, BoardTypes DEF WithField, Fields
  <2> HIDE DEF x, c
  <2>3. IsBoard(c)
    BY <2>1, <2>2, Scratch
  <2>4. Spent(z.m, o)
    BY <2>1, <2>2, <2>3, CommandSpent
  <2>5. QED BY <1>2, <1>4, <2>4, SpentThen
<1>5. QED BY <1>3, <1>4

\* A setter that failed by a command alone says nothing of the entries.
LEMMA SpentHeld ==
  ASSUME NEW b, NEW o, NEW N, Spent(b, o), ~o.ok
  PROVE  Held(b, o, N)
  BY DEF Spent, Held

-----------------------------------------------------------------------------
(* Entries that a setter looks after itself. *)

\* An entry that is kept is true as long as its registers stay.
LEMMA GoodKept ==
  ASSUME NEW b, NEW c, SameBoard(b, c), NEW n \in NameSet, Kept(b, c, n),
         \A p \in Sources(n) : c.par[p] = b.par[p], Good(b, n)
  PROVE  Good(c, n)
  BY AgreesStay DEF Good, Kept

\* What has been got through the defaults is true.
LEMMA AcquiredGood ==
  ASSUME NEW b, NEW z, NEW R, NEW N, Out(b, z, R, N), NEW n \in NameSet, Acquired(b, z, n),
         z.ok, Good(b, "clock_speed"), Good(b, n)
  PROVE  Fits(z.m, n, z.m.got) /\ Good(z.m, n)
<1>1. SameBoard(b, z.m) /\ SameClock(b, z.m)
  BY DEF Out, Step
<1>2. Good(z.m, "clock_speed")
  BY <1>1, ClockBelief
<1>3. Fits(z.m, n, z.m.got)
  <2>1. CASE b.entry[n] = "synced"
    <3>1. z.m.got = b.val[n] /\ z.m.par = b.par /\ Agrees(b, n)
      BY <2>1 DEF Acquired, Good
    <3>2. Fits(b, n, b.val[n]) <=> Fits(z.m, n, b.val[n])
      BY <1>1, <3>1, SameFit DEF SameBoard
    <3>3. QED BY <3>1, <3>2 DEF Agrees
  <2>2. CASE b.entry[n] # "synced"
    BY <1>2, <2>2 DEF Acquired
  <2>3. QED BY <2>1, <2>2
<1>4. QED BY <1>3 DEF Acquired, Good, Agrees

\* The gap of the trigger filter is cut, and forgotten.
LEMMA CutGapOut ==
  ASSUME NEW b, IsBoard(b), NEW x \in Int, NEW R, NEW N, "FASTGAP" \in R,
         NEW z \in Write(b, "FASTGAP", x),
         NEW o, o \in IF z.ok THEN Invalidate(z.m, "trigger_gap_time") ELSE {z}
  PROVE  /\ Out(b, o, R, N)
         /\ o.ok => o.m.par = [b.par EXCEPT !["FASTGAP"] = x]
         /\ o.m.budget = b.budget => o.m.entry["trigger_gap_time"] # "synced"
<1> DEFINE m == "trigger_gap_time"
<1>1. o \in IF z.ok THEN Invalidate(z.m, m) ELSE {z}
  OBVIOUS
<1>2. "FASTGAP" \in Params /\ x \in RegisterValues("FASTGAP") /\ m \in NameSet \ {"clock_speed"}
  BY ParamsAre, NamesAre DEF RegisterValues
<1>3. Wrote(b, z, "FASTGAP", x, R, N) /\ Spent(b, z)
  BY <1>2, WriteFine, WriteSpent
<1>4. CASE ~z.ok
  BY <1>1, <1>3, <1>4 DEF Wrote, Spent
<1>5. CASE z.ok
  <2>1. IsBoard(z.m) /\ o \in Invalidate(z.m, m)
    BY <1>1, <1>3, <1>5 DEF Wrote, Out, SameBoard
  <2>2. Out(z.m, o, R, N) /\ o.m.par = z.m.par
    BY <1>2, <2>1, InvalidateOut
  <2>3. Out(b, o, R, N)
    BY <1>3, <1>5, <2>2, OutThen DEF Wrote
  <2>4. o.m.entry[m] # "synced"
    <3>1. CASE z.m.entry[m] = "absent"
      BY <2>1, <3>1, RefusedIs DEF Invalidate
    <3>2. CASE z.m.entry[m] # "absent"
      <4>1. o.ok
        BY <2>1, <3>2, DoneIs DEF Invalidate
      <4>2. QED BY <1>2, <2>1, <4>1, InvalidateOut
    <3>3. QED BY <3>1, <3>2
  <2>5. QED BY <1>3, <1>5, <2>2, <2>3, <2>4 DEF Wrote
<1>6. QED BY <1>4, <1>5

\* The trigger's peaking time that is set is the board's, and its gap time survives.
LEMMA TPeakTimeSet ==
  ASSUME NEW b, IsBoard(b), NEW v \in Int, NEW R, NEW N, {"FASTLEN", "FASTGAP"} \subseteq R,
         "CLOCK" \notin R, NEW o, o \in UdxpSetTPeakTime(b, v)
  PROVE  SetFine(b, o, "trigger_peak_time", R, N, {}) /\ Held(b, o, {"trigger_gap_time"})
<1> DEFINE n == "trigger_peak_time"
           m == "trigger_gap_time"
           G(a) == Smaller(Larger(Rounded(v, a.got), 2), MaxFastLen(b))
           Cut(a, c) == IF G(a) + c.par["FASTGAP"] <= MaxFastLen(b) THEN Done(c)
                        ELSE Then(Write(c, "FASTGAP", MaxFastLen(b) - G(a)),
                                  LAMBDA d : Invalidate(d, m))
<1>1. PICK z \in Clock(b) :
          o \in IF ~z.ok THEN {z}
                ELSE Then(Write(z.m, "FASTLEN", G(z.m)), LAMBDA c :
                     Then(Cut(z.m, c), LAMBDA e : Valued(e, G(z.m) * z.m.got)))
  BY DEF UdxpSetTPeakTime, UdxpSetFilterParam, Then
<1>2. /\ "FASTLEN" \in Params /\ "FASTGAP" \in Params /\ "CLOCK" \in Params
      /\ n \in NameSet /\ m \in NameSet \ {"clock_speed"}
  BY ParamsAre, NamesAre
<1>3. /\ Out(b, z, R, N) /\ Spent(b, z)
      /\ z.ok => /\ z.m.got \in Nat \ {0} /\ Quiet(b, z.m)
                 /\ Good(z.m, "clock_speed") => z.m.got = Period(z.m.par["CLOCK"])
  BY <1>1, ClockOut, ClockSpent
<1>4. CASE ~z.ok
  BY <1>1, <1>3, <1>4, SpentHeld DEF SetFine
<1>5. CASE z.ok
  <2> DEFINE x == G(z.m)
             t == z.m.got
             w == x * t
             g == MaxFastLen(b) - x
  <2>1. PICK y \in Write(z.m, "FASTLEN", x) :
            o \in IF ~y.ok THEN {y} ELSE Then(Cut(z.m, y.m), LAMBDA e : Valued(e, w))
    BY <1>1, <1>5 DEF Then
  <2>2. t \in Nat \ {0} /\ (Good(z.m, "clock_speed") => t = Period(z.m.par["CLOCK"]))
    BY <1>3, <1>5
  <2>3. x \in Int /\ g \in Int
    <3>1. MaxFast \in Int /\ StandardFast \in Int
      BY LimitsAssumption
    <3>2. MaxFastLen(b) \in Int
      BY <3>1 DEF MaxFastLen
    <3>3. Rounded(v, t) \in Int
      BY <2>2, RoundedType
    <3>4. QED BY <3>2, <3>3 DEF Larger, Smaller
  <2>4. w \in Int /\ w = x * t
    BY <2>2, <2>3
  <2>5. IsBoard(z.m) /\ x \in RegisterValues("FASTLEN")
    BY <1>3, <2>3 DEF Out, SameBoard, RegisterValues
  <2>6. Cut(z.m, y.m) = IF x + y.m.par["FASTGAP"] <= MaxFastLen(b) THEN Done(y.m)
                        ELSE Then(Write(y.m, "FASTGAP", g), LAMBDA d : Invalidate(d, m))
    OBVIOUS
  <2>7. Wrote(z.m, y, "FASTLEN", x, R, N) /\ Spent(z.m, y)
    BY <1>2, <2>1, <2>5, WriteFine, WriteSpent
  <2>8. Out(b, y, R, N)
    BY <1>3, <1>5, <2>7, OutThen DEF Wrote
  <2>9. CASE ~y.ok
    <3>1. o = y /\ Spent(b, y)
      BY <1>3, <1>5, <2>1, <2>7, <2>9, SpentThen
    <3>2. QED BY <2>8, <2>9, <3>1, SpentHeld DEF SetFine
  <2>10. CASE y.ok
    <3>1. PICK u \in Cut(z.m, y.m) : o \in IF u.ok THEN Valued(u.m, w) ELSE {u}
      BY <2>1, <2>10 DEF Then
    <3>2. IsBoard(y.m) /\ y.m.par = [z.m.par EXCEPT !["FASTLEN"] = x]
          /\ y.m.entry = z.m.entry /\ y.m.val = z.m.val /\ y.m.par["FASTLEN"] = x
      BY <2>7, <2>8, <2>10 DEF Wrote, Out, SameBoard
    <3> DEFINE Cutting == \E s \in Write(y.m, "FASTGAP", g) :
                             u \in IF s.ok THEN Invalidate(s.m, m) ELSE {s}
    <3>3. u \in Done(y.m) \/ Cutting
      BY <2>6, <3>1 DEF Then
    <3>4. /\ Out(y.m, u, R, N)
          /\ u.ok => \A p \in {"FASTLEN", "CLOCK"} : u.m.par[p] = y.m.par[p]
          /\ u.m.budget = y.m.budget => u.m = y.m \/ u.m.entry[m] # "synced"
      <4>1. CASE u \in Done(y.m)
        <5>1. u.m = y.m
          BY <4>1, DoneIs
        <5>2. Out(y.m, u, R, N)
          BY <3>2, <4>1, StepSelf, DoneOut
        <5>3. QED BY <5>1, <5>2
      <4>2. CASE Cutting
        <5>1. /\ Out(y.m, u, R, N)
              /\ u.ok => u.m.par = [y.m.par EXCEPT !["FASTGAP"] = g]
              /\ u.m.budget = y.m.budget => u.m.entry[m] # "synced"
          BY <2>3, <3>2, <4>2, CutGapOut
        <5>2. u.ok => \A p \in {"FASTLEN", "CLOCK"} : u.m.par[p] = y.m.par[p]
          BY <1>2, <3>2, <5>1, BoardTypes
        <5>3. QED BY <5>1, <5>2
      <4>3. QED BY <3>3, <4>1, <4>2
    <3> HIDE DEF x, t, w, g, Cut
    <3>5. Out(b, u, R, N)
      BY <2>8, <2>10, <3>4, OutThen
    <3>6. ASSUME u.ok, Good(u.m, "clock_speed") PROVE Fits(u.m, n, w)
      <4>1. SameBoard(y.m, u.m) /\ SameClock(y.m, u.m) /\ SameBoard(z.m, y.m)
            /\ SameClock(z.m, y.m)
        BY <2>7, <2>10, <3>4, <3>6 DEF Wrote, Out, Step
      <4>2. Good(z.m, "clock_speed")
        BY <3>6, <4>1, ClockBelief
      <4>3. u.m.par["FASTLEN"] = x /\ u.m.par["CLOCK"] = z.m.par["CLOCK"]
        BY <3>2, <3>4, <3>6, <4>1 DEF SameClock
      <4>4. Actual(u.m, n) = u.m.par["FASTLEN"] * Period(u.m.par["CLOCK"])
        BY ActualIs
      <4>5. w = Actual(u.m, n)
        BY <2>2, <2>4, <4>2, <4>3, <4>4
      <4>6. QED BY <4>5, ActualFits
    <3> DEFINE F == {}
    <3>7. u.ok => /\ w \in Int
                  /\ Good(u.m, "clock_speed") => Fits(u.m, n, w)
                  /\ \A h \in F : u.m.entry[h] # "synced"
      BY <2>4, <3>6
    <3> HIDE DEF F
    <3>8. SetFine(b, o, n, R, N, F) /\ (o.ok => u.ok /\ Same(u.m, o.m))
      BY <1>2, <3>1, <3>5, <3>7, EndSet
    <3>9. Same(u.m, o.m) /\ (o.ok => u.ok) /\ (~o.ok => o = u)
      <4>1. CASE u.ok
        <5>1. o.ok = TRUE
          BY <3>1, <4>1, DoneIs DEF Valued
        <5>2. QED BY <3>8, <5>1
      <4>2. CASE ~u.ok
        BY <3>1, <4>2 DEF Same
      <4>3. QED BY <4>1, <4>2
    <3>10. ASSUME o.m.budget = b.budget, Good(b, m) PROVE Good(o.m, m)
      <4>1. u.m.budget = y.m.budget
        <5>1. y.m.budget = b.budget
          BY <2>8, <2>10 DEF Out
        <5>2. CASE o.ok
          BY <3>4, <3>9, <5>2 DEF Out
        <5>3. CASE ~o.ok
          BY <3>9, <3>10, <5>1, <5>3
        <5>4. QED BY <5>2, <5>3
      <4>2. CASE u.m.entry[m] # "synced"
        BY <3>9, <4>2 DEF Same, Good
      <4>3. CASE u.m = y.m
        <5>1. Kept(b, o.m, m)
          BY <1>2, <1>3, <1>5, <3>2, <3>9, <4>3 DEF Quiet, Kept, Same
        <5>2. o.m.par["FASTGAP"] = b.par["FASTGAP"] /\ o.m.par["CLOCK"] = b.par["CLOCK"]
          BY <1>2, <1>3, <1>5, <2>5, <3>2, <3>9, <4>3, BoardTypes DEF Quiet, Same
        <5>3. SameBoard(b, o.m)
          BY <3>8 DEF SetFine, Out
        <5>4. QED BY <1>2, <3>10, <5>1, <5>2, <5>3, GoodKept, SourcesAre
      <4>4. QED BY <3>4, <4>1, <4>2, <4>3
    <3>11. QED BY <3>8, <3>10 DEF Held, F
  <2>11. QED BY <2>9, <2>10
<1>6. QED BY <1>4, <1>5

\* The preset's length is set with the type that the host knows.
LEMMA PresetValueSet ==
  ASSUME NEW b, IsBoard(b), NEW v \in Int, NEW R, NEW N, {"PRESET", "PRESETLEN"} \subseteq R,
         "preset_type" \in N, NEW o, o \in UdxpSetPresetValue(b, v)
  PROVE  /\ SetFine(b, o, "preset_value", R, N, {}) /\ Held(b, o, {"preset_type"})
         /\ Spent(b, o)
<1> DEFINE m == "preset_type"
           outs == UdxpGetPresetType(b)
           L(a) == IF a.got = 0 THEN 0 ELSE Smaller(v \div Unit(a.got), MaxPreset)
           E(a) == [a EXCEPT !.par["PRESET"] = a.got, !.par["PRESETLEN"] = L(a)]
           W(a) == IF a.got = 0 THEN v ELSE L(a) * Unit(a.got)
           F(a) == Then(Command(a, E(a)), LAMBDA c : Valued(c, W(a)))
           gets == UdxpGetAcquisitionValues(b, m, outs)
<1>1. PICK z \in gets : o \in IF ~z.ok THEN {z} ELSE F(z.m)
  <2>1. o \in Then(gets, F)
    BY DEF UdxpSetPresetValue
  <2> HIDE DEF gets, F
  <2>2. QED BY <2>1 DEF Then
<1>2. "PRESET" \in Params /\ "PRESETLEN" \in Params /\ m \in NameSet /\ "preset_value" \in NameSet
  BY ParamsAre, NamesAre
<1>3. \A y \in outs : GetFine(b, y, m, R, N) /\ Spent(b, y)
  <2>1. \A c : Actual(c, m) = c.par["PRESET"]
    BY ActualIs
  <2>2. ASSUME NEW y \in outs PROVE y \in Read(b, "PRESET")
    BY DEF UdxpGetPresetType, UdxpGetParameter
  <2>3. QED BY <1>2, <2>1, <2>2, ReadGet, ReadSpent
<1>4. Out(b, z, R, N) /\ Acquired(b, z, m) /\ Spent(b, z)
  <2> HIDE DEF outs
  <2>1. m # "clock_speed"
    OBVIOUS
  <2>2. Out(b, z, R, N) /\ Acquired(b, z, m)
    BY <1>1, <1>2, <1>3, <2>1, AcquireOut
  <2>3. Spent(b, z)
    BY <1>1, <1>3, AcquireSpent
  <2>4. QED BY <2>2, <2>3
<1>5. CASE ~z.ok
  BY <1>1, <1>4, <1>5, SpentHeld DEF SetFine
<1>6. CASE z.ok
  <2> DEFINE t == z.m.got
             l == L(z.m)
             w == W(z.m)
             c1 == WithRegister(z.m, "PRESET", t)
             c2 == WithRegister(c1, "PRESETLEN", l)
  <2>1. IsBoard(z.m) /\ t \in Int
    BY <1>4, <1>6 DEF Out, SameBoard, Acquired
  <2>2. l \in Int
    BY <2>1, LimitsAssumption DEF Smaller, Unit
  <2>3. w \in Int
    BY <2>1, <2>2 DEF Unit
  <2>4. E(z.m) = c2
    BY <2>1, BoardTypes DEF WithRegister
  <2>5. PICK y \in Command(z.m, c2) : o \in IF ~y.ok THEN {y} ELSE Valued(y.m, w)
    BY <1>1, <1>6, <2>4 DEF Then
  <2>6. w = IF t = 0 THEN v ELSE l * Unit(t)
    OBVIOUS
  <2>7. c1 = WithRegister(z.m, "PRESET", t) /\ c2 = WithRegister(c1, "PRESETLEN", l)
    OBVIOUS
  <2>8. t \in RegisterValues("PRESET") /\ l \in RegisterValues("PRESETLEN")
    BY <2>1, <2>2 DEF RegisterValues
  <2> HIDE DEF t, l, w, c1, c2, L, E, W
  <2>9. /\ Step(z.m, c1, R, N) /\ c1.par = [z.m.par EXCEPT !["PRESET"] = t]
        /\ c1.budget = z.m.budget /\ c1.entry = z.m.entry /\ c1.val = z.m.val
    BY <1>2, <2>1, <2>7, <2>8, RegisterStep
  <2>10. IsBoard(c1)
    BY <2>9 DEF Step, SameBoard
  <2>11. /\ Step(c1, c2, R, N) /\ c2.par = [c1.par EXCEPT !["PRESETLEN"] = l]
         /\ c2.budget = c1.budget /\ c2.entry = c1.entry /\ c2.val = c1.val
    BY <1>2, <2>7, <2>8, <2>10, RegisterStep
  <2>12. Step(z.m, c2, R, N) /\ c2.budget = z.m.budget /\ IsBoard(c2)
    BY <2>1, <2>9, <2>11, StepThen DEF Step, SameBoard
  <2>13. Out(z.m, y, R, N) /\ (y.ok => y.m = c2) /\ Spent(z.m, y)
    BY <2>1, <2>5, <2>12, CommandOut, CommandSpent
  <2>14. Out(b, y, R, N) /\ Spent(b, y)
    BY <1>4, <1>6, <2>13, OutThen, SpentThen
  <2>15. CASE ~y.ok
    BY <2>5, <2>14, <2>15, SpentHeld DEF SetFine
  <2>16. CASE y.ok
    <3>1. y.m.par["PRESET"] = t /\ y.m.par["PRESETLEN"] = l /\ y.m.entry = z.m.entry
          /\ y.m.val = z.m.val
      BY <1>2, <2>1, <2>9, <2>10, <2>11, <2>13, <2>16, BoardTypes
    <3>2. Fits(y.m, "preset_value", w)
      <4>1. CASE t = 0
        BY <3>1, <4>1 DEF Fits, HostValues
      <4>2. CASE t # 0
        <5>1. w = Actual(y.m, "preset_value")
          BY <2>6, <3>1, <4>2, ActualIs
        <5>2. QED BY <5>1, ActualFits
      <4>3. QED BY <4>1, <4>2
    <3> DEFINE G == {}
    <3>3. y.ok => /\ w \in Int
                  /\ Good(y.m, "clock_speed") => Fits(y.m, "preset_value", w)
                  /\ \A h \in G : y.m.entry[h] # "synced"
      BY <2>3, <3>2
    <3>4. o \in IF y.ok THEN Valued(y.m, w) ELSE {y}
      BY <2>5
    <3> HIDE DEF G
    <3>5. SetFine(b, o, "preset_value", R, N, G) /\ (o.ok => y.ok /\ Same(y.m, o.m))
      BY <1>2, <2>14, <3>3, <3>4, EndSet
    <3>6. o.ok = TRUE
      BY <2>16, <3>4, DoneIs DEF Valued
    <3>7. Good(o.m, m)
      <4>1. o.m.entry[m] = "synced" => o.m.val[m] = t
        BY <1>4, <1>6, <3>1, <3>5, <3>6 DEF Same, Acquired, t
      <4>2. Actual(o.m, m) = t
        BY <3>1, <3>5, <3>6, ActualIs DEF Same
      <4>3. QED BY <4>1, <4>2, ActualFits DEF Good, Agrees
    <3>8. QED BY <3>5, <3>6, <3>7 DEF Held, G, Spent
  <2>17. QED BY <2>15, <2>16
<1>7. QED BY <1>5, <1>6

\* Only a command fails that asks for the number of SCAs.
LEMMA NumScasSpent ==
  ASSUME NEW b, IsBoard(b), NEW o, o \in NumScas(b)
  PROVE  Spent(b, o)
<1> DEFINE outs == UdxpGetNumScas(b)
<1>1. ASSUME NEW z \in outs PROVE Spent(b, z)
  <2>1. PICK y \in Read(b, "NUMSCA") :
            z \in IF ~y.ok THEN {y}
                  ELSE IF y.m.got <= MaxScas THEN Done(y.m)
                  ELSE Then(Write(y.m, "NUMSCA", MaxScas), LAMBDA c :
                            Done([c EXCEPT !.got = MaxScas]))
    BY DEF UdxpGetNumScas, UdxpGetMaxSCALength, UdxpGetParameter, UdxpSetParameter, Then
  <2>2. "NUMSCA" \in Params /\ MaxScas \in RegisterValues("NUMSCA")
    BY ParamsAre, LimitsAssumption DEF RegisterValues
  <2>3. Out(b, y, {}, {}) /\ Spent(b, y)
    BY <2>2, ReadOut, ReadSpent
  <2>4. CASE ~y.ok
    BY <2>1, <2>3, <2>4
  <2>5. CASE y.ok /\ y.m.got <= MaxScas
    BY <2>1, <2>5, DoneIs DEF Spent
  <2>6. CASE y.ok /\ ~(y.m.got <= MaxScas)
    <3>1. PICK u \in Write(y.m, "NUMSCA", MaxScas) :
              z \in IF u.ok THEN Done([u.m EXCEPT !.got = MaxScas]) ELSE {u}
      BY <2>1, <2>6 DEF Then
    <3>2. IsBoard(y.m)
      BY <2>3 DEF Out, SameBoard
    <3>3. Spent(y.m, u)
      BY <2>2, <3>1, <3>2, WriteSpent
    <3>4. u.ok => z.ok = TRUE
      BY <3>1, DoneIs
    <3>5. Spent(b, u)
      BY <2>3, <2>6, <3>3, SpentThen
    <3>6. QED BY <3>1, <3>4, <3>5 DEF Spent
  <2>7. QED BY <2>4, <2>5, <2>6
<1>2. o \in UdxpGetAcquisitionValues(b, "number_of_scas", outs)
  BY DEF NumScas
<1> HIDE DEF outs
<1>3. QED BY <1>1, <1>2, AcquireSpent

\* The number of SCAs that is read before a limit is true.
LEMMA ScaHeld ==
  ASSUME NEW b, IsBoard(b), NEW R, NEW N, "NUMSCA" \in R, "number_of_scas" \in N,
         NEW p \in Params, NEW o, o \in UdxpGetSca(b, p), Good(b, "clock_speed"),
         o.m.budget = b.budget, Good(b, "number_of_scas")
  PROVE  Good(o.m, "number_of_scas")
<1> DEFINE m == "number_of_scas"
<1>1. PICK z \in NumScas(b) :
          o \in IF z.ok THEN IF ScaNumber(p) >= z.m.got THEN Refused(z.m) ELSE Read(z.m, p)
                ELSE {z}
  BY DEF UdxpGetSca, Then
<1>2. m \in NameSet
  BY NamesAre
<1>3. Out(b, z, R, N) /\ Acquired(b, z, m) /\ Spent(b, z)
  BY NumScasOut, NumScasSpent
<1>4. IsBoard(z.m)
  BY <1>3 DEF Out, SameBoard
<1>5. z.ok
  BY <1>1, <1>3 DEF Spent
<1>6. Good(z.m, m)
  BY <1>2, <1>3, <1>5, AcquiredGood
<1>7. CASE o \in Refused(z.m)
  BY <1>6, <1>7, RefusedIs
<1>8. CASE o \in Read(z.m, p)
  <2>1. Out(z.m, o, {}, {}) /\ Spent(z.m, o) /\ (o.ok => Same(z.m, o.m))
    BY <1>4, <1>8, ReadOut, ReadSpent DEF Same
  <2>2. o.ok
    BY <1>3, <1>5, <2>1 DEF Out, Spent
  <2>3. SameBoard(z.m, o.m) /\ Kept(z.m, o.m, m) /\ o.m.par = z.m.par
    BY <2>1, <2>2 DEF Out, Same, Kept
  <2>4. QED BY <1>2, <1>6, <2>3, GoodKept
<1>9. QED BY <1>1, <1>5, <1>7, <1>8

\* The limit of an SCA that is set is the board's, with SCAs enough.
LEMMA ScaSet ==
  ASSUME NEW b, IsBoard(b), NEW v \in Int, NEW R, NEW N,
         NEW n \in {"sca0_lo", "sca1_hi"}, {ScaParam(n), "NUMSCA"} \subseteq R,
         "number_of_scas" \in N, NEW o, o \in UdxpSetSca(b, ScaParam(n), v)
  PROVE  SetFine(b, o, n, R, N, {}) /\ Held(b, o, {"number_of_scas"})
<1> DEFINE p == ScaParam(n)
           m == "number_of_scas"
<1>1. PICK z \in UdxpGetSca(b, p) :
          o \in IF z.ok THEN Then(Write(z.m, p, v), LAMBDA c : Valued(c, v)) ELSE {z}
  BY DEF UdxpSetSca, Then
<1>2. /\ p = Register[n] /\ p \in Params /\ p # "CLOCK" /\ p # "NUMSCA"
      /\ v \in RegisterValues(p) /\ "NUMSCA" \in Params /\ m \in NameSet /\ n \in NameSet
  BY ParamsAre, NamesAre DEF ScaParam, Register, RegisterValues
<1>3. Out(b, z, R, N)
  BY <1>1, ScaGet DEF GetFine
<1>4. ASSUME Good(b, "clock_speed"), z.m.budget = b.budget, Good(b, m) PROVE Good(z.m, m)
  <2> HIDE DEF p
  <2>1. QED BY <1>1, <1>2, <1>4, ScaHeld
<1>5. CASE ~z.ok
  BY <1>1, <1>3, <1>4, <1>5 DEF SetFine, Held
<1>6. CASE z.ok
  <2>1. PICK y \in Write(z.m, p, v) : o \in IF y.ok THEN Valued(y.m, v) ELSE {y}
    BY <1>1, <1>6 DEF Then
  <2>2. IsBoard(z.m)
    BY <1>3 DEF Out, SameBoard
  <2>3. SetFine(z.m, o, n, R, N, {})
    BY <1>2, <2>1, <2>2, PlainSet
  <2>4. SetFine(b, o, n, R, N, {})
    BY <1>3, <1>6, <2>3, ThenSet
  <2>5. Wrote(z.m, y, p, v, R, N) /\ Spent(z.m, y)
    BY <1>2, <2>1, <2>2, WriteFine, WriteSpent
  <2>6. CASE ~y.ok
    <3>1. o = y
      BY <2>1, <2>6
    <3>2. Spent(b, o)
      BY <1>3, <1>6, <2>5, <3>1, SpentThen
    <3>3. QED BY <2>4, <2>6, <3>1, <3>2, SpentHeld
  <2>7. CASE y.ok
    <3>1. IsBoard(y.m) /\ o \in Valued(y.m, v)
      BY <2>1, <2>5, <2>7 DEF Wrote, Out, SameBoard
    <3>2. o.ok /\ o.m.par = y.m.par /\ o.m.entry = y.m.entry /\ o.m.val = y.m.val
      BY <3>1, ValuedOut
    <3>3. Kept(z.m, o.m, m) /\ o.m.par["NUMSCA"] = z.m.par["NUMSCA"]
      BY <1>2, <2>2, <2>5, <2>7, <3>2, BoardTypes DEF Wrote, Kept
    <3>4. SameBoard(z.m, o.m) /\ z.m.budget = b.budget
      BY <1>3, <1>6, <2>3 DEF SetFine, Out
    <3>5. ASSUME Good(b, "clock_speed"), Good(b, m) PROVE Good(o.m, m)
      <4>1. Good(z.m, m)
        BY <1>4, <3>4, <3>5
      <4>2. QED BY <1>2, <3>3, <3>4, <4>1, GoodKept, SourcesAre
    <3>6. QED BY <2>4, <3>5 DEF Held
  <2>8. QED BY <2>6, <2>7
<1>7. QED BY <1>5, <1>6

-----------------------------------------------------------------------------
(* The timers of the peak, set again from the two offsets. *)

\* An offset is left as it is, or not known any more.
Loses(b, c) == \A m \in Offsets : Kept(b, c, m) \/ c.entry[m] # "synced"
Follows(b, o, R, N) == Out(b, o, R, N) /\ (o.m.budget = b.budget => Loses(b, o.m))

\* Losing entries is transitive.
LEMMA LosesThen ==
  ASSUME NEW b, NEW c, NEW d, Loses(b, c), Loses(c, d)
  PROVE  Loses(b, d)
  BY DEF Loses, Kept

\* Following the board is transitive.
LEMMA FollowsThen ==
  ASSUME NEW b, IsBoard(b), NEW z, NEW o, NEW R, NEW N, Follows(b, z, R, N), z.ok,
         Follows(z.m, o, R, N)
  PROVE  Follows(b, o, R, N)
<1>1. Out(b, o, R, N) /\ z.m.budget = b.budget
  BY OutThen DEF Follows, Out
<1>2. QED BY <1>1, LosesThen DEF Follows

\* The two peak offsets are names, and not the clock's.
LEMMA OffsetsAre == Offsets = {"peakint_offset", "peaksam_offset"}
                    /\ Offsets \subseteq NameSet \ {"clock_speed"}
  BY NamesAre DEF Offsets

\* Reading a tick keeps the entries true.
LEMMA TickFollows ==
  ASSUME NEW b, IsBoard(b), NEW R, NEW N, "CLOCK" \notin R, NEW o, o \in UdxpGetClockTick(b)
  PROVE  Follows(b, o, R, N)
<1>1. Out(b, o, R, N) /\ (o.ok => Quiet(b, o.m)) /\ Spent(b, o)
  BY TickOut, TickSpent
<1>2. QED BY <1>1, OffsetsAre DEF Follows, Loses, Quiet, Spent

\* A conditional forgetting forgets where its condition holds.
LEMMA ForgetIfOut ==
  ASSUME NEW b, IsBoard(b), NEW n \in Offsets, NEW cond, NEW o, o \in ForgetIf(b, cond, n),
         NEW R, NEW N
  PROVE  /\ Follows(b, o, R, N) /\ o.m.par = b.par
         /\ o.ok /\ cond => o.m.entry[n] # "synced"
<1>1. n \in NameSet \ {"clock_speed"}
  BY OffsetsAre
<1>2. CASE cond
  <2>1. o \in Invalidate(b, n)
    BY <1>2 DEF ForgetIf
  <2>2. /\ Out(b, o, R, N) /\ o.m.par = b.par
        /\ o.ok => o.m.entry[n] = "unknown"
        /\ \A m \in NameSet \ {n} : Kept(b, o.m, m)
        /\ Kept(b, o.m, n) \/ o.m.entry[n] = "unknown"
    BY <1>1, <2>1, InvalidateOut
  <2>3. Loses(b, o.m)
    BY <2>2, OffsetsAre DEF Loses
  <2>4. QED BY <2>2, <2>3 DEF Follows
<1>3. CASE ~cond
  <2>1. o \in Done(b)
    BY <1>3 DEF ForgetIf
  <2>2. Out(b, o, R, N) /\ o.m = b
    BY <2>1, StepSelf, DoneOut
  <2>3. QED BY <1>3, <2>2 DEF Follows, Loses, Kept
<1>4. QED BY <1>2, <1>3

\* Writing a timer keeps the entries of the other registers true.
LEMMA TimerFollows ==
  ASSUME NEW b, IsBoard(b), NEW p \in {"PEAKINT", "PEAKSAM", "SLOWGAP"},
         NEW x \in RegisterValues(p), NEW o,
         o \in UdxpSetFilterParam(b, p, x), NEW R, NEW N, p \in R
  PROVE  Follows(b, o, R, N) /\ Wrote(b, o, p, x, R, N)
<1>1. p \in Params /\ p # "CLOCK" /\ o \in Write(b, p, x)
  BY ParamsAre DEF UdxpSetFilterParam
<1>2. Wrote(b, o, p, x, R, N) /\ Spent(b, o)
  BY <1>1, WriteFine, WriteSpent
<1>3. QED BY <1>2 DEF Follows, Loses, Kept, Wrote, Spent

\* Forgetting both timers leaves neither synced.
LEMMA ForgetTimersOut ==
  ASSUME NEW b, IsBoard(b), NEW o, o \in Forget(b, <<"peak_sample", "peak_interval">>),
         NEW R, NEW N
  PROVE  /\ Follows(b, o, R, N) /\ o.m.par = b.par
         /\ o.ok => o.m.entry["peak_sample"] # "synced" /\ o.m.entry["peak_interval"] # "synced"
<1> DEFINE ns == <<"peak_sample", "peak_interval">>
           S == ToSet(ns)
<1>1. S = {"peak_sample", "peak_interval"}
  BY DEF ToSet
<1>2. ns \in Seq(NameSet)
  BY NamesAre
<1>3. o \in ForgetThose(b, ns, S) /\ "clock_speed" \notin S
  BY <1>1 DEF Forget
<1>4. S = ToSet(ns)
  OBVIOUS
<1> HIDE DEF ns, S
<1>5. /\ Out(b, o, R, N) /\ o.m.par = b.par
      /\ o.ok => \A n \in S \cap ToSet(ns) : o.m.entry[n] = "unknown"
      /\ \A m \in NameSet : Kept(b, o.m, m) \/ o.m.entry[m] = "unknown"
  BY <1>2, <1>3, ForgetThoseOut
<1>6. Loses(b, o.m)
  BY <1>5, OffsetsAre DEF Loses
<1>7. QED BY <1>1, <1>4, <1>5, <1>6 DEF Follows

\* What the timers come to.
Asked(b, pi, t) == Word(Length(b) + Rounded(pi, t))
Interval(b, pi, t) == Smaller(Asked(b, pi, t), MaxTimer)
Wanted(b, ps, t) == Length(b) * t - ps
Nearest(b, ps, t) == Word(Rounded(Wanted(b, ps, t), t))
Sample(b, pi, ps, t) ==
    IF Wanted(b, ps, t) < 0 THEN 0 ELSE Smaller(Nearest(b, ps, t), Interval(b, pi, t))

\* The timers that are computed fit their registers.
LEMMA TimersType ==
  ASSUME NEW b, IsBoard(b), NEW pi \in Int, NEW ps \in Int, NEW t \in Nat \ {0}
  PROVE  /\ Asked(b, pi, t) \in Int /\ Interval(b, pi, t) \in 0..MaxTimer
         /\ Wanted(b, ps, t) \in Int /\ Nearest(b, ps, t) \in Int
         /\ Sample(b, pi, ps, t) \in 0..MaxTimer
<1>1. MaxTimer \in Int /\ 0 <= MaxTimer /\ Length(b) \in Int
  BY LimitsAssumption, LengthType
<1>2. Length(b) + Rounded(pi, t) \in Int
  BY <1>1, RoundedType
<1>3. Asked(b, pi, t) \in Int /\ 0 <= Asked(b, pi, t)
  BY <1>2, WordType DEF Asked
<1>4. Interval(b, pi, t) \in Int /\ 0 <= Interval(b, pi, t) /\ Interval(b, pi, t) <= MaxTimer
  BY <1>1, <1>3 DEF Interval, Smaller
<1>5. Wanted(b, ps, t) \in Int
  BY <1>1 DEF Wanted
<1>6. Nearest(b, ps, t) \in Int /\ 0 <= Nearest(b, ps, t)
  BY <1>5, RoundedType, WordType DEF Nearest
<1>7. Sample(b, pi, ps, t) \in 0..MaxTimer
  BY <1>1, <1>4, <1>5, <1>6 DEF Sample, Smaller
<1>8. QED BY <1>1, <1>3, <1>4, <1>5, <1>6, <1>7

\* What a successful update leaves.
Updated(b, o, pi, ps, t) ==
    /\ t \in Nat \ {0}
    /\ Good(o.m, "clock_speed") => t = TrueTick(o.m)
    /\ o.m.par = [b.par EXCEPT !["PEAKINT"] = Interval(b, pi, t),
                               !["PEAKSAM"] = Sample(b, pi, ps, t)]
    /\ o.m.got = <<(Interval(b, pi, t) - Length(b)) * t, (Length(b) - Sample(b, pi, ps, t)) * t>>
    /\ o.m.entry["peak_sample"] # "synced" /\ o.m.entry["peak_interval"] # "synced"
    /\ Asked(b, pi, t) > MaxTimer => o.m.entry["peakint_offset"] # "synced"
    /\ Wanted(b, ps, t) < 0 \/ Nearest(b, ps, t) > Interval(b, pi, t) =>
           o.m.entry["peaksam_offset"] # "synced"

\* UdxpUpdateFilterParams writes both timers from the offsets, at the tick it read.
LEMMA UpdateOut ==
  ASSUME NEW b, IsBoard(b), NEW pi \in Int, NEW ps \in Int, NEW R, NEW N,
         {"PEAKINT", "PEAKSAM"} \subseteq R, "CLOCK" \notin R,
         NEW o, o \in UdxpUpdateFilterParams(b, pi, ps)
  PROVE  Follows(b, o, R, N) /\ (o.ok => \E t : Updated(b, o, pi, ps, t))
<1>1. PICK z \in UdxpGetClockTick(b) :
          o \in IF ~z.ok THEN {z} ELSE
            LET t == z.m.got
                length == z.m.par["SLOWLEN"] + z.m.par["SLOWGAP"]
                asked == Word(length + Rounded(pi, t))
                interval == Smaller(asked, MaxTimer)
                wanted == length * t - ps
                rounded == Word(Rounded(wanted, t))
                sample == IF wanted < 0 THEN 0 ELSE Smaller(rounded, interval)
            IN Then(ForgetIf(z.m, asked > MaxTimer, "peakint_offset"), LAMBDA c :
               Then(UdxpSetFilterParam(c, "PEAKINT", interval), LAMBDA d :
               Then(ForgetIf(d, wanted < 0 \/ rounded > interval, "peaksam_offset"), LAMBDA e :
               Then(UdxpSetFilterParam(e, "PEAKSAM", sample), LAMBDA f :
               Then(Forget(f, <<"peak_sample", "peak_interval">>), LAMBDA g :
                    Done([g EXCEPT !.got = <<(interval - length) * t, (length - sample) * t>>]))))))
  BY DEF UdxpUpdateFilterParams, Then
<1>2. /\ Out(b, z, R, N) /\ Follows(b, z, R, N)
      /\ z.ok => /\ z.m.got \in Nat \ {0} /\ Quiet(b, z.m)
                 /\ Good(z.m, "clock_speed") => z.m.got = TrueTick(z.m)
  BY <1>1, TickOut, TickFollows
<1>3. CASE ~z.ok
  BY <1>1, <1>2, <1>3
<1>4. CASE z.ok
  <2> DEFINE t == z.m.got
             L == z.m.par["SLOWLEN"] + z.m.par["SLOWGAP"]
             asked == Word(L + Rounded(pi, t))
             interval == Smaller(asked, MaxTimer)
             wanted == L * t - ps
             rounded == Word(Rounded(wanted, t))
             sample == IF wanted < 0 THEN 0 ELSE Smaller(rounded, interval)
             pair == <<(interval - L) * t, (L - sample) * t>>
             over == asked > MaxTimer
             early == wanted < 0 \/ rounded > interval
  <2>1. PICK c \in ForgetIf(z.m, over, "peakint_offset") :
            o \in IF ~c.ok THEN {c} ELSE
              Then(UdxpSetFilterParam(c.m, "PEAKINT", interval), LAMBDA d :
              Then(ForgetIf(d, early, "peaksam_offset"), LAMBDA e :
              Then(UdxpSetFilterParam(e, "PEAKSAM", sample), LAMBDA f :
              Then(Forget(f, <<"peak_sample", "peak_interval">>), LAMBDA g :
                   Done([g EXCEPT !.got = pair])))))
    BY <1>1, <1>4 DEF Then
  <2>2. /\ t \in Nat \ {0} /\ z.m.par = b.par /\ IsBoard(z.m)
        /\ Good(z.m, "clock_speed") => t = TrueTick(z.m)
    BY <1>2, <1>4 DEF Quiet, Out, SameBoard
  <2>3. L = Length(b)
    BY <2>2 DEF Length
  <2>4. /\ asked = Asked(b, pi, t) /\ interval = Interval(b, pi, t)
        /\ wanted = Wanted(b, ps, t) /\ rounded = Nearest(b, ps, t)
        /\ sample = Sample(b, pi, ps, t)
    <3> HIDE DEF L, t
    <3>1. QED BY <2>3 DEF Asked, Interval, Wanted, Nearest, Sample
  <2>5. /\ interval \in 0..MaxTimer /\ sample \in 0..MaxTimer
        /\ over <=> Asked(b, pi, t) > MaxTimer
        /\ early <=> Wanted(b, ps, t) < 0 \/ Nearest(b, ps, t) > Interval(b, pi, t)
    <3> HIDE DEF asked, interval, wanted, rounded, sample, t
    <3>1. QED BY <2>2, <2>4, TimersType
  <2>6. pair = <<(Interval(b, pi, t) - Length(b)) * t, (Length(b) - Sample(b, pi, ps, t)) * t>>
    <3> HIDE DEF interval, sample, t, L
    <3>1. QED BY <2>3, <2>4
  <2>7. /\ "peakint_offset" \in Offsets /\ "peaksam_offset" \in Offsets
        /\ interval \in RegisterValues("PEAKINT") /\ sample \in RegisterValues("PEAKSAM")
    <3> HIDE DEF interval, sample
    <3>1. QED BY <2>5 DEF Offsets, RegisterValues
  <2> HIDE DEF t, L, asked, interval, wanted, rounded, sample, pair, over, early
  <2>8. /\ Follows(z.m, c, R, N) /\ c.m.par = z.m.par
        /\ c.ok /\ over => c.m.entry["peakint_offset"] # "synced"
    BY <2>1, <2>2, <2>7, ForgetIfOut
  <2>9. Follows(b, c, R, N)
    BY <1>2, <1>4, <2>8, FollowsThen
  <2>10. CASE ~c.ok
    BY <2>1, <2>9, <2>10
  <2>11. CASE c.ok
    <3>1. PICK d \in UdxpSetFilterParam(c.m, "PEAKINT", interval) :
              o \in IF ~d.ok THEN {d} ELSE
                Then(ForgetIf(d.m, early, "peaksam_offset"), LAMBDA e :
                Then(UdxpSetFilterParam(e, "PEAKSAM", sample), LAMBDA f :
                Then(Forget(f, <<"peak_sample", "peak_interval">>), LAMBDA g :
                     Done([g EXCEPT !.got = pair]))))
      BY <2>1, <2>11 DEF Then
    <3>2. IsBoard(c.m)
      BY <2>9 DEF Follows, Out, SameBoard
    <3>3. Follows(c.m, d, R, N) /\ Wrote(c.m, d, "PEAKINT", interval, R, N)
      BY <2>7, <3>1, <3>2, TimerFollows
    <3>4. Follows(b, d, R, N)
      BY <2>9, <2>11, <3>3, FollowsThen
    <3>5. CASE ~d.ok
      BY <3>1, <3>4, <3>5
    <3>6. CASE d.ok
      <4>1. PICK e \in ForgetIf(d.m, early, "peaksam_offset") :
                o \in IF ~e.ok THEN {e} ELSE
                  Then(UdxpSetFilterParam(e.m, "PEAKSAM", sample), LAMBDA f :
                  Then(Forget(f, <<"peak_sample", "peak_interval">>), LAMBDA g :
                       Done([g EXCEPT !.got = pair])))
        BY <3>1, <3>6 DEF Then
      <4>2. IsBoard(d.m)
        BY <3>4 DEF Follows, Out, SameBoard
      <4>3. /\ Follows(d.m, e, R, N) /\ e.m.par = d.m.par
            /\ e.ok /\ early => e.m.entry["peaksam_offset"] # "synced"
        BY <2>7, <4>1, <4>2, ForgetIfOut
      <4>4. Follows(b, e, R, N)
        BY <3>4, <3>6, <4>3, FollowsThen
      <4>5. CASE ~e.ok
        BY <4>1, <4>4, <4>5
      <4>6. CASE e.ok
        <5>1. PICK f \in UdxpSetFilterParam(e.m, "PEAKSAM", sample) :
                  o \in IF ~f.ok THEN {f} ELSE
                    Then(Forget(f.m, <<"peak_sample", "peak_interval">>), LAMBDA g :
                         Done([g EXCEPT !.got = pair]))
          BY <4>1, <4>6 DEF Then
        <5>2. IsBoard(e.m)
          BY <4>4 DEF Follows, Out, SameBoard
        <5>3. Follows(e.m, f, R, N) /\ Wrote(e.m, f, "PEAKSAM", sample, R, N)
          BY <2>7, <5>1, <5>2, TimerFollows
        <5>4. Follows(b, f, R, N)
          BY <4>4, <4>6, <5>3, FollowsThen
        <5>5. CASE ~f.ok
          BY <5>1, <5>4, <5>5
        <5>6. CASE f.ok
          <6>1. PICK g \in Forget(f.m, <<"peak_sample", "peak_interval">>) :
                    o \in IF g.ok THEN Done([g.m EXCEPT !.got = pair]) ELSE {g}
            BY <5>1, <5>6 DEF Then
          <6>2. IsBoard(f.m)
            BY <5>4 DEF Follows, Out, SameBoard
          <6>3. /\ Follows(f.m, g, R, N) /\ g.m.par = f.m.par
                /\ g.ok => /\ g.m.entry["peak_sample"] # "synced"
                           /\ g.m.entry["peak_interval"] # "synced"
            BY <6>1, <6>2, ForgetTimersOut
          <6>4. Follows(b, g, R, N)
            BY <5>4, <5>6, <6>3, FollowsThen
          <6>5. CASE ~g.ok
            BY <6>1, <6>4, <6>5
          <6>6. CASE g.ok
            <7>1. o \in IF g.ok THEN Done(WithField(g.m, "got", pair)) ELSE {g}
              BY <6>1, <6>6 DEF WithField
            <7>2. Out(b, o, R, N) /\ o.ok /\ o.m.got = pair /\ Same(g.m, o.m)
              <8>1. Out(b, o, R, N) /\ (o.ok => g.ok /\ o.m.got = pair /\ Same(g.m, o.m))
                BY <6>4, <7>1, FieldThen DEF Follows
              <8>2. o.ok = TRUE
                BY <6>6, <7>1, DoneIs
              <8>3. QED BY <8>1, <8>2
            <7>3. Follows(b, o, R, N)
              <8>1. Loses(b, g.m)
                BY <6>4, <6>6 DEF Follows, Out
              <8>2. Loses(b, o.m)
                BY <7>2, <8>1 DEF Loses, Kept, Same
              <8>3. QED BY <7>2, <8>2 DEF Follows
            <7>4. /\ Loses(c.m, d.m) /\ Loses(d.m, e.m) /\ Loses(e.m, f.m)
                  /\ Loses(f.m, g.m)
              BY <2>11, <3>3, <3>6, <4>3, <4>6, <5>3, <5>6, <6>3, <6>6 DEF Follows, Out
            <7>5. over => o.m.entry["peakint_offset"] # "synced"
              BY <2>7, <2>8, <2>11, <7>2, <7>4 DEF Loses, Kept, Same
            <7>6. early => o.m.entry["peaksam_offset"] # "synced"
              BY <2>7, <4>3, <4>6, <7>2, <7>4 DEF Loses, Kept, Same
            <7>7. o.m.par = [b.par EXCEPT !["PEAKINT"] = interval, !["PEAKSAM"] = sample]
              BY <2>2, <2>8, <3>3, <3>6, <4>3, <5>3, <5>6, <6>3, <7>2 DEF Wrote, Same
            <7>8. Good(o.m, "clock_speed") => t = TrueTick(o.m)
              <8>1. /\ SameBoard(b, o.m) /\ SameClock(b, o.m)
                    /\ SameBoard(b, z.m) /\ SameClock(b, z.m)
                BY <1>2, <1>4, <7>2 DEF Out, Step
              <8>2. Good(o.m, "clock_speed") => Good(z.m, "clock_speed")
                BY <8>1, ClockBelief
              <8>3. TrueTick(o.m) = TrueTick(z.m)
                <9>1. /\ o.m.par["CLOCK"] = z.m.par["CLOCK"]
                      /\ o.m.par["FIPPI"] = z.m.par["FIPPI"]
                  <10>1. /\ b.par \in [Params -> Int]
                         /\ "CLOCK" \in Params /\ "FIPPI" \in Params
                    BY BoardTypes, ParamsAre
                  <10>2. QED BY <2>2, <7>7, <10>1
                <9>2. QED BY <9>1 DEF TrueTick, Decimation
              <8>4. QED BY <2>2, <8>2, <8>3
            <7>9. /\ o.m.entry["peak_sample"] # "synced"
                  /\ o.m.entry["peak_interval"] # "synced"
              BY <6>3, <6>6, <7>2 DEF Same
            <7>10. Updated(b, o, pi, ps, t)
              BY <2>2, <2>4, <2>5, <2>6, <7>2, <7>5, <7>6, <7>7, <7>8, <7>9 DEF Updated
            <7>11. QED BY <7>3, <7>10
          <6>7. QED BY <6>5, <6>6
        <5>7. QED BY <5>5, <5>6
      <4>7. QED BY <4>5, <4>6
    <3>7. QED BY <3>5, <3>6
  <2>12. QED BY <2>10, <2>11
<1>5. QED BY <1>3, <1>4

-----------------------------------------------------------------------------
(* The offsets stay true where the timers follow the filter's length. *)

\* The filter's registers are within their limits.
LEMMA LengthLimits == ASSUME NEW b, IsBoard(b)
                      PROVE  /\ b.par["SLOWLEN"] \in 0..MaxSlow /\ b.par["SLOWGAP"] \in 0..MaxSlow
                             /\ b.par["PEAKINT"] \in 0..MaxTimer
                             /\ b.par["PEAKSAM"] \in 0..MaxTimer
<1>1. \A p \in {"SLOWLEN", "SLOWGAP", "PEAKINT", "PEAKSAM"} : b.par[p] \in RegisterValues(p)
  BY ParamsAre DEF IsBoard
<1>2. QED BY <1>1 DEF RegisterValues

\* PEAKINT computed from an offset gives that offset again, unless it was cut.
LEMMA IntervalKept ==
  ASSUME NEW b, IsBoard(b), NEW t \in Nat \ {0}, NEW x \in 0..MaxTimer, NEW D \in Int,
         -MaxSlow <= Length(b) - D, Length(b) - D <= MaxSlow, NEW pi, pi = (x - D) * t
  PROVE  Asked(b, pi, t) > MaxTimer \/ (Interval(b, pi, t) - Length(b)) * t = pi
<1> DEFINE L == Length(b)
           y == L + (x - D)
<1>1. L \in Int /\ MaxTimer \in Int /\ MaxSlow \in Int /\ MaxSlow + MaxTimer < 65536
  BY LengthType, LimitsAssumption
<1>2. x - D \in Int /\ Rounded(pi, t) = x - D
  BY RoundedMultiple
<1>3. Asked(b, pi, t) = Word(y)
  BY <1>2 DEF Asked
<1> HIDE DEF L
<1>4. -MaxSlow <= L - D /\ L - D <= MaxSlow
  BY DEF L
<1>5. y \in Int /\ -65536 < y /\ y < 65536 /\ (y < 0 => 65536 + y > MaxTimer)
  BY <1>1, <1>4, SMT
<1>6. CASE y < 0
  <2>1. Word(y) = 65536 + y
    BY <1>5, <1>6, WordBelow
  <2>2. QED BY <1>3, <1>5, <1>6, <2>1
<1>7. CASE ~(y < 0)
  <2>1. 0 <= y
    BY <1>5, <1>7
  <2>2. Word(y) = y
    BY <1>5, <2>1, WordOfWord
  <2>3. CASE y > MaxTimer
    BY <1>3, <2>2, <2>3
  <2>4. CASE ~(y > MaxTimer)
    <3>1. Interval(b, pi, t) = y
      BY <1>1, <1>3, <1>5, <2>2, <2>4 DEF Interval, Smaller
    <3>2. (y - L) * t = (x - D) * t
      <4>1. y - L = x - D
        BY <1>1
      <4>2. QED BY <4>1
    <3>3. QED BY <3>1, <3>2 DEF L
  <2>5. QED BY <2>3, <2>4
<1>8. QED BY <1>6, <1>7

\* PEAKSAM computed from an offset gives that offset again, unless it was cut.
LEMMA SampleKept ==
  ASSUME NEW b, IsBoard(b), NEW t \in Nat \ {0}, NEW x \in 0..MaxTimer, NEW D \in Int,
         -MaxSlow <= Length(b) - D, Length(b) - D <= MaxSlow, NEW ps, ps = (D - x) * t,
         NEW pi \in Int
  PROVE  \/ Wanted(b, ps, t) < 0
         \/ Nearest(b, ps, t) > Interval(b, pi, t)
         \/ (Length(b) - Sample(b, pi, ps, t)) * t = ps
<1> DEFINE L == Length(b)
           y == (L - D) + x
<1>1. L \in Int /\ MaxTimer \in Int /\ MaxSlow \in Int /\ MaxSlow + MaxTimer < 65536
  BY LengthType, LimitsAssumption
<1> HIDE DEF L
<1>2. y \in Int /\ L * t - (D - x) * t = y * t
  <2>1. y \in Int /\ y = L - (D - x)
    BY <1>1
  <2>2. QED BY <1>1, <2>1
<1>3. Wanted(b, ps, t) = y * t
  BY <1>2 DEF Wanted, L
<1>4. -MaxSlow <= L - D /\ L - D <= MaxSlow
  BY DEF L
<1>5. y < 65536
  BY <1>1, <1>4
<1>6. CASE y < 0
  <2> HIDE DEF y
  <2>1. y * t < 0
    BY <1>2, <1>6
  <2>2. QED BY <1>3, <2>1
<1>7. CASE ~(y < 0)
  <2>1. 0 <= y
    BY <1>2, <1>7
  <2> HIDE DEF y
  <2>2. Rounded(y * t, t) = y
    BY <1>2, RoundedMultiple
  <2>3. Word(y) = y
    BY <1>2, <1>5, <2>1, WordOfWord
  <2>4. Nearest(b, ps, t) = y
    BY <1>3, <2>2, <2>3 DEF Nearest
  <2>5. CASE y > Interval(b, pi, t)
    BY <2>4, <2>5
  <2>6. CASE ~(y > Interval(b, pi, t))
    <3>1. Interval(b, pi, t) \in Int
      BY <1>1, <1>2, TimersType
    <3>2. ~(Wanted(b, ps, t) < 0)
      BY <1>2, <1>3, <2>1
    <3>3. Smaller(y, Interval(b, pi, t)) = y
      BY <1>2, <2>6, <3>1 DEF Smaller
    <3>4. Sample(b, pi, ps, t) = y
      BY <2>4, <3>2, <3>3 DEF Sample
    <3>5. (L - y) * t = (D - x) * t
      <4>1. L - y = D - x
        BY <1>1 DEF y
      <4>2. QED BY <4>1
    <3>6. QED BY <3>4, <3>5 DEF L
  <2>7. QED BY <2>5, <2>6
<1>8. QED BY <1>6, <1>7

\* An offset is exact: it fits where it is the board's.
LEMMA OffsetFits == ASSUME NEW b, NEW n \in Offsets, NEW x
                    PROVE  Fits(b, n, x) <=> x = Actual(b, n)
<1>1. n \in NameSet \ (HostValues(b) \cup Unrounded \cup {"auto_adjust_offset"})
  BY OffsetsAre DEF HostValues, Unrounded
<1>2. QED BY <1>1, FitsIs

\* What an update made of the two offsets is what the board has.
LEMMA UpdateGot ==
  ASSUME NEW b, IsBoard(b), NEW pi \in Int, NEW ps \in Int, NEW o, NEW t,
         Updated(b, o, pi, ps, t), Good(o.m, "clock_speed")
  PROVE  /\ Length(o.m) = Length(b) /\ t = TrueTick(o.m) /\ t = TrueTick(b)
         /\ o.m.got[1] \in Int /\ o.m.got[2] \in Int
         /\ o.m.got[1] = Actual(o.m, "peakint_offset")
         /\ o.m.got[2] = Actual(o.m, "peaksam_offset")
<1> DEFINE x == Interval(b, pi, t)
           y == Sample(b, pi, ps, t)
<1>1. /\ t \in Nat \ {0} /\ t = TrueTick(o.m)
      /\ o.m.par = [b.par EXCEPT !["PEAKINT"] = x, !["PEAKSAM"] = y]
      /\ o.m.got = <<(x - Length(b)) * t, (Length(b) - y) * t>>
  BY DEF Updated
<1>2. x \in 0..MaxTimer /\ y \in 0..MaxTimer /\ MaxTimer \in Int /\ Length(b) \in Int
  BY <1>1, TimersType, LimitsAssumption, LengthType
<1> HIDE DEF x, y
<1>3. /\ b.par \in [Params -> Int] /\ "CLOCK" \in Params /\ "FIPPI" \in Params
      /\ "SLOWLEN" \in Params /\ "SLOWGAP" \in Params /\ "PEAKINT" \in Params
      /\ "PEAKSAM" \in Params
  BY BoardTypes, ParamsAre
<1>4. /\ o.m.par["CLOCK"] = b.par["CLOCK"] /\ o.m.par["FIPPI"] = b.par["FIPPI"]
      /\ o.m.par["SLOWLEN"] = b.par["SLOWLEN"] /\ o.m.par["SLOWGAP"] = b.par["SLOWGAP"]
      /\ o.m.par["PEAKINT"] = x /\ o.m.par["PEAKSAM"] = y
  BY <1>1, <1>3
<1>5. Length(o.m) = Length(b) /\ TrueTick(o.m) = TrueTick(b)
  BY <1>4 DEF Length, TrueTick, Decimation
<1>6. o.m.got[1] = (x - Length(b)) * t /\ o.m.got[2] = (Length(b) - y) * t
  BY <1>1
<1>7. o.m.got[1] \in Int /\ o.m.got[2] \in Int
  BY <1>1, <1>2, <1>6
<1>8. /\ Actual(o.m, "peakint_offset") = (o.m.par["PEAKINT"] - Length(o.m)) * TrueTick(o.m)
      /\ Actual(o.m, "peaksam_offset") = (Length(o.m) - o.m.par["PEAKSAM"]) * TrueTick(o.m)
  BY ActualIs
<1>9. /\ Actual(o.m, "peakint_offset") = o.m.got[1]
      /\ Actual(o.m, "peaksam_offset") = o.m.got[2]
  BY <1>1, <1>4, <1>5, <1>6, <1>8
<1>10. QED BY <1>1, <1>5, <1>7, <1>9

\* An offset that was true, of the filter as it was or as it is, stays true.
LEMMA UpdateHeld ==
  ASSUME NEW b, IsBoard(b), NEW e, SameBoard(b, e),
         \A p \in Params \ {"SLOWGAP"} : e.par[p] = b.par[p],
         NEW pi \in Int, NEW ps \in Int, NEW o, o \in UdxpUpdateFilterParams(e, pi, ps),
         NEW m \in Offsets, NEW v, v = IF m = "peakint_offset" THEN pi ELSE ps,
         e.entry[m] = "synced" => /\ e.val[m] \in {Actual(b, m), Actual(e, m)}
                                  /\ o.ok => e.val[m] = v,
         Good(o.m, "clock_speed"), o.m.budget = e.budget, o.ok \/ o.m.par = b.par
  PROVE  Good(o.m, m)
<1> DEFINE R == {"PEAKINT", "PEAKSAM"}
<1>1. IsBoard(e) /\ "CLOCK" \notin R
  BY DEF SameBoard
<1>2. Follows(e, o, R, {}) /\ (o.ok => \E t : Updated(e, o, pi, ps, t))
  BY <1>1, UpdateOut
<1>3. SUFFICES ASSUME o.m.entry[m] = "synced" PROVE o.m.val[m] = Actual(o.m, m)
  BY OffsetFits DEF Good, Agrees
<1>4. e.entry[m] = "synced" /\ o.m.val[m] = e.val[m]
  BY <1>2, <1>3 DEF Follows, Loses, Kept
<1>5. /\ "CLOCK" \in Params /\ "FIPPI" \in Params
      /\ "SLOWLEN" \in Params /\ "SLOWGAP" \in Params /\ "PEAKINT" \in Params
      /\ "PEAKSAM" \in Params
  BY ParamsAre
<1>6. /\ m \in NameSet /\ m \notin {"bytes_per_bin", "adc_trace_wait"}
      /\ Sources(m) \subseteq Params
  BY OffsetsAre, SourcesType
<1>7. CASE ~o.ok
  <2>1. \A p \in Params \ R : o.m.par[p] = e.par[p]
    BY <1>2, <1>7 DEF Follows, Out, Step
  <2>2. o.m.par = b.par
    BY <1>7
  <2>3. \A p \in Params : e.par[p] = b.par[p]
    BY <1>5, <2>1, <2>2
  <2>4. /\ o.m.super = b.super /\ o.m.vega = b.vega /\ o.m.switched = b.switched
        /\ e.super = b.super /\ e.vega = b.vega /\ e.switched = b.switched
    BY <1>2 DEF Follows, Out, SameBoard
  <2>5. Actual(o.m, m) = Actual(b, m)
    BY <1>6, <2>2, <2>4, SameActual
  <2>6. Actual(e, m) = Actual(b, m)
    BY <1>6, <2>3, <2>4, SameActual
  <2>7. QED BY <1>4, <2>5, <2>6
<1>8. CASE o.ok
  <2>1. PICK t : Updated(e, o, pi, ps, t)
    BY <1>2, <1>8
  <2>2. /\ t \in Nat \ {0}
        /\ Asked(e, pi, t) > MaxTimer => o.m.entry["peakint_offset"] # "synced"
        /\ Wanted(e, ps, t) < 0 \/ Nearest(e, ps, t) > Interval(e, pi, t) =>
               o.m.entry["peaksam_offset"] # "synced"
        /\ o.m.got = <<(Interval(e, pi, t) - Length(e)) * t,
                       (Length(e) - Sample(e, pi, ps, t)) * t>>
    BY <2>1 DEF Updated
  <2>3. /\ t = TrueTick(e)
        /\ o.m.got[1] = Actual(o.m, "peakint_offset")
        /\ o.m.got[2] = Actual(o.m, "peaksam_offset")
    BY <1>1, <2>1, UpdateGot
  <2>4. TrueTick(b) = t /\ e.par["PEAKINT"] = b.par["PEAKINT"]
        /\ e.par["PEAKSAM"] = b.par["PEAKSAM"] /\ e.par["SLOWLEN"] = b.par["SLOWLEN"]
    BY <1>5, <2>3 DEF TrueTick, Decimation
  <2>5. v \in {Actual(b, m), Actual(e, m)} /\ e.val[m] = v
    BY <1>4, <1>8
  <2>6. /\ b.par["SLOWLEN"] \in 0..MaxSlow /\ b.par["SLOWGAP"] \in 0..MaxSlow
        /\ e.par["SLOWGAP"] \in 0..MaxSlow /\ MaxSlow \in Int
        /\ b.par["PEAKINT"] \in 0..MaxTimer /\ b.par["PEAKSAM"] \in 0..MaxTimer
    BY <1>1, LengthLimits, LimitsAssumption
  <2> DEFINE x == b.par["PEAKINT"]
             y == b.par["PEAKSAM"]
  <2>7. \A D \in {Length(b), Length(e)} :
            D \in Int /\ -MaxSlow <= Length(e) - D /\ Length(e) - D <= MaxSlow
    BY <2>4, <2>6 DEF Length
  <2>8. CASE m = "peakint_offset"
    <3>1. PICK D \in {Length(b), Length(e)} : pi = (x - D) * t
      BY <2>3, <2>4, <2>5, <2>8, ActualIs
    <3>2. Asked(e, pi, t) > MaxTimer \/ (Interval(e, pi, t) - Length(e)) * t = pi
      <4>1. x \in 0..MaxTimer /\ D \in Int /\ -MaxSlow <= Length(e) - D /\ Length(e) - D <= MaxSlow
        BY <2>6, <2>7
      <4> HIDE DEF x
      <4>2. QED BY <1>1, <2>2, <3>1, <4>1, IntervalKept
    <3>3. o.m.got[1] = pi
      BY <1>3, <2>2, <2>8, <3>2
    <3>4. QED BY <1>4, <2>3, <2>5, <2>8, <3>3
  <2>9. CASE m = "peaksam_offset"
    <3>1. PICK D \in {Length(b), Length(e)} : ps = (D - y) * t
      BY <2>3, <2>4, <2>5, <2>9, ActualIs
    <3>2. \/ Wanted(e, ps, t) < 0
          \/ Nearest(e, ps, t) > Interval(e, pi, t)
          \/ (Length(e) - Sample(e, pi, ps, t)) * t = ps
      <4>1. y \in 0..MaxTimer /\ D \in Int /\ -MaxSlow <= Length(e) - D /\ Length(e) - D <= MaxSlow
        BY <2>6, <2>7
      <4> HIDE DEF y
      <4>2. QED BY <1>1, <2>2, <3>1, <4>1, SampleKept
    <3>3. o.m.got[2] = ps
      BY <1>3, <2>2, <2>9, <3>2
    <3>4. QED BY <1>4, <2>3, <2>5, <2>9, <3>3
  <2>10. QED BY <2>8, <2>9, OffsetsAre
<1>9. QED BY <1>7, <1>8

\* The same, of the entry n that is set as far as the set failed.
SetHeld(b, o, n, N) ==
    Good(b, "clock_speed") /\ o.m.budget = b.budget /\ (o.ok \/ o.m.par = b.par) =>
        \A m \in N : (m = n => ~o.ok) /\ Good(b, m) => Good(o.m, m)

\* A call that kept its entries kept them for a set.
LEMMA HeldSet == ASSUME NEW b, NEW o, NEW n, NEW N, Held(b, o, N)
                 PROVE  SetHeld(b, o, n, N)
  BY DEF Held, SetHeld

\* A set that failed promises nothing of its entries.
LEMMA SpentSet == ASSUME NEW b, NEW o, NEW n, NEW N, Spent(b, o), ~o.ok
                  PROVE  SetHeld(b, o, n, N)
  BY DEF Spent, SetHeld

\* Reading an offset succeeds or spends a fault.
LEMMA OffsetSpent ==
  ASSUME NEW b, IsBoard(b), NEW p \in {"PEAKINT", "PEAKSAM"}, NEW o,
         o \in IF p = "PEAKINT" THEN UdxpGetPeakIntOffset(b) ELSE UdxpGetPeakSamOffset(b)
  PROVE  Spent(b, o)
<1> DEFINE G(c, x, t) == IF p = "PEAKINT" THEN (x - c.par["SLOWLEN"] - c.par["SLOWGAP"]) * t
                         ELSE (c.par["SLOWLEN"] + c.par["SLOWGAP"] - x) * t
<1>1. PICK z \in UdxpGetClockTick(b) :
          o \in IF z.ok THEN Then(Read(z.m, p), LAMBDA c :
                                  Done([c EXCEPT !.got = G(z.m, c.got, z.m.got)]))
                ELSE {z}
  <2>1. CASE p = "PEAKINT"
    BY <2>1 DEF UdxpGetPeakIntOffset, Got, Then
  <2>2. CASE p = "PEAKSAM"
    BY <2>2 DEF UdxpGetPeakSamOffset, Got, Then
  <2>3. QED BY <2>1, <2>2
<1>2. p \in Params
  BY ParamsAre
<1>3. CASE ~z.ok
  BY <1>1, <1>3, TickSpent
<1>4. CASE z.ok
  <2>1. PICK y \in Read(z.m, p) :
            o \in IF y.ok THEN Done([y.m EXCEPT !.got = G(z.m, y.m.got, z.m.got)]) ELSE {y}
    BY <1>1, <1>4 DEF Then
  <2>2. Out(b, z, {}, {})
    BY <1>1, TickOut
  <2>3. IsBoard(z.m)
    BY <2>2 DEF Out, SameBoard
  <2>4. Spent(z.m, y)
    BY <1>2, <2>1, <2>3, ReadSpent
  <2>5. CASE ~y.ok
    BY <1>4, <2>1, <2>2, <2>4, <2>5, SpentThen
  <2>6. CASE y.ok
    BY <2>1, <2>6, DoneIs DEF Spent
  <2>7. QED BY <2>5, <2>6
<1>5. QED BY <1>3, <1>4

\* Asking for an offset.
LEMMA OffsetOut ==
  ASSUME NEW b, IsBoard(b), NEW n \in Offsets, NEW R, NEW N, "CLOCK" \notin R, n \in N,
         NEW o, o \in IF n = "peakint_offset" THEN IntervalOffset(b) ELSE SampleOffset(b)
  PROVE  /\ Out(b, o, R, N) /\ Acquired(b, o, n) /\ Spent(b, o)
         /\ o.ok => o.m.par = b.par /\ \A m \in Offsets \ {n} : Kept(b, o.m, m)
<1> DEFINE p == IF n = "peakint_offset" THEN "PEAKINT" ELSE "PEAKSAM"
           outs == IF p = "PEAKINT" THEN UdxpGetPeakIntOffset(b) ELSE UdxpGetPeakSamOffset(b)
<1>1. /\ p \in {"PEAKINT", "PEAKSAM"} /\ n \in NameSet /\ n # "clock_speed"
      /\ n = IF p = "PEAKINT" THEN "peakint_offset" ELSE "peaksam_offset"
      /\ o \in UdxpGetAcquisitionValues(b, n, outs)
  <2>1. CASE n = "peakint_offset"
    BY <2>1, OffsetsAre DEF IntervalOffset
  <2>2. CASE n = "peaksam_offset"
    BY <2>2, OffsetsAre DEF SampleOffset
  <2>3. QED BY <2>1, <2>2, OffsetsAre
<1> HIDE DEF p
<1>2. \A z \in outs : GetFine(b, z, n, R, N) /\ (z.ok => Quiet(b, z.m)) /\ Spent(b, z)
  BY <1>1, OffsetGet, OffsetSpent
<1> HIDE DEF outs
<1>3. Out(b, o, R, N) /\ Acquired(b, o, n)
  BY <1>1, <1>2, AcquireOut
<1>4. Spent(b, o)
  BY <1>1, <1>2, AcquireSpent
<1>5. ASSUME o.ok, NEW m \in NameSet \ {"clock_speed", n}
      PROVE  Kept(b, o.m, m) /\ o.m.par = b.par
  <2>1. \A z \in outs : z.ok => IsBoard(z.m) /\ Kept(b, z.m, m) /\ z.m.par = b.par
    BY <1>2, <1>5 DEF GetFine, Out, SameBoard, Quiet
  <2>2. QED BY <1>1, <1>5, <2>1, AcquireKeeps
<1>6. o.ok => o.m.par = b.par
  <2>1. "gain" \in NameSet \ {"clock_speed", n}
    BY NamesAre, OffsetsAre
  <2>2. QED BY <1>5, <2>1
<1>7. QED BY <1>3, <1>4, <1>5, <1>6, OffsetsAre

\* The timers answered are integers.
LEMMA UpdateInts ==
  ASSUME NEW b, IsBoard(b), NEW pi \in Int, NEW ps \in Int, NEW o, NEW t,
         Updated(b, o, pi, ps, t)
  PROVE  o.m.got[1] \in Int /\ o.m.got[2] \in Int
<1> DEFINE x == Interval(b, pi, t)
           y == Sample(b, pi, ps, t)
<1>1. t \in Nat \ {0} /\ o.m.got = <<(x - Length(b)) * t, (Length(b) - y) * t>>
  BY DEF Updated
<1>2. x \in 0..MaxTimer /\ y \in 0..MaxTimer /\ MaxTimer \in Int /\ Length(b) \in Int
  <2>1. t \in Nat \ {0}
    BY <1>1
  <2>2. MaxTimer \in Int /\ Length(b) \in Int
    BY LimitsAssumption, LengthType
  <2>3. x \in 0..MaxTimer /\ y \in 0..MaxTimer
    BY <2>1, TimersType
  <2>4. QED BY <2>2, <2>3
<1> HIDE DEF x, y
<1>3. o.m.got[1] = (x - Length(b)) * t /\ o.m.got[2] = (Length(b) - y) * t
  BY <1>1
<1>4. QED BY <1>1, <1>2, <1>3

\* What the timers are set again from: the entry of an offset, which is true of the
\* filter as it was or as it is.
Ready(b, e, m, n, v) ==
    Good(b, "clock_speed") /\ Good(b, m) /\ e.entry[m] = "synced" =>
        /\ e.val[m] \in {Actual(b, m), Actual(e, m)}
        /\ m # n => e.val[m] = v

\* The end of a setter that recomputes both timers: what it asked for is the board's.
LEMMA UpdateEnd ==
  ASSUME NEW b, IsBoard(b), NEW z, NEW R, NEW N, {"PEAKINT", "PEAKSAM"} \subseteq R,
         "CLOCK" \notin R, Out(b, z, R, N), z.ok,
         \A p \in Params \ {"SLOWGAP"} : z.m.par[p] = b.par[p],
         NEW pi \in Int, NEW ps \in Int, NEW y \in UdxpUpdateFilterParams(z.m, pi, ps),
         NEW w, y.ok => w \in Int, NEW o, o \in (IF y.ok THEN Valued(y.m, w) ELSE {y}),
         NEW n, Ready(b, z.m, "peakint_offset", n, pi), Ready(b, z.m, "peaksam_offset", n, ps)
  PROVE  SetHeld(b, o, n, Offsets)
<1>1. SUFFICES ASSUME Good(b, "clock_speed"), o.m.budget = b.budget, o.ok \/ o.m.par = b.par,
                      NEW m \in Offsets, m = n => ~o.ok, Good(b, m)
               PROVE  Good(o.m, m)
  BY DEF SetHeld
<1>2. IsBoard(z.m) /\ SameBoard(b, z.m) /\ z.m.budget = b.budget
  BY DEF Out, SameBoard
<1>3. Follows(z.m, y, R, N)
  BY <1>2, UpdateOut
<1>4. Out(b, y, R, N)
  BY <1>3, OutThen DEF Follows
<1>5. IsBoard(y.m)
  BY <1>4 DEF Out, SameBoard
<1>6. /\ y.m.budget = b.budget /\ (y.ok \/ y.m.par = b.par)
      /\ y.ok => o.ok /\ Same(y.m, o.m) /\ SameBoard(y.m, o.m)
      /\ ~y.ok => o = y
  <2>1. CASE ~y.ok
    BY <1>1, <2>1
  <2>2. CASE y.ok
    <3>1. o \in Valued(y.m, w) /\ w \in Int
      BY <2>2
    <3>2. Out(y.m, o, R, N) /\ o.ok /\ o.m.par = y.m.par /\ o.m.entry = y.m.entry /\ o.m.val = y.m.val
      BY <1>5, <3>1, ValuedOut
    <3>3. y.m.budget = b.budget
      BY <1>4, <2>2 DEF Out
    <3>4. QED BY <2>2, <3>2, <3>3 DEF Same, Out
  <2>3. QED BY <2>1, <2>2
<1>7. Good(y.m, "clock_speed")
  <2>1. SameBoard(b, y.m) /\ SameClock(b, y.m)
    BY <1>4, <1>6 DEF Out, Step
  <2>2. QED BY <1>1, <2>1, ClockBelief
<1>8. Good(y.m, m)
  <2> DEFINE v == IF m = "peakint_offset" THEN pi ELSE ps
  <2>1. Ready(b, z.m, m, n, v)
    BY OffsetsAre
  <2>2. z.m.entry[m] = "synced" => /\ z.m.val[m] \in {Actual(b, m), Actual(z.m, m)}
                                   /\ y.ok => z.m.val[m] = v
    BY <1>1, <1>6, <2>1 DEF Ready
  <2>3. y.m.budget = z.m.budget
    BY <1>2, <1>6
  <2> HIDE DEF v
  <2>4. v = IF m = "peakint_offset" THEN pi ELSE ps
    BY DEF v
  <2>5. QED BY <1>2, <1>6, <1>7, <2>2, <2>3, <2>4, UpdateHeld
<1>9. CASE y.ok
  <2>1. /\ Same(y.m, o.m) /\ SameBoard(y.m, o.m)
    BY <1>6, <1>9
  <2>2. m \in NameSet /\ Sources(m) \subseteq Params
    BY OffsetsAre, SourcesType
  <2>3. Kept(y.m, o.m, m) /\ \A p \in Sources(m) : o.m.par[p] = y.m.par[p]
    BY <2>1 DEF Same, Kept
  <2>4. QED BY <1>8, <2>1, <2>2, <2>3, GoodKept
<1>10. CASE ~y.ok
  BY <1>6, <1>8, <1>10
<1>11. QED BY <1>9, <1>10

\* A peak offset that is set is the board's, and the other one survives.
LEMMA OffsetSet ==
  ASSUME NEW b, IsBoard(b), NEW v \in Int, NEW R, NEW N, {"PEAKINT", "PEAKSAM"} \subseteq R,
         "CLOCK" \notin R, Offsets \subseteq N, NEW n \in Offsets, NEW o,
         o \in IF n = "peakint_offset" THEN UdxpSetPeakIntOffset(b, v)
               ELSE UdxpSetPeakSamOffset(b, v)
  PROVE  /\ SetFine(b, o, n, R, N, {"peak_sample", "peak_interval"})
         /\ SetHeld(b, o, n, Offsets)
<1> DEFINE q == IF n = "peakint_offset" THEN "peaksam_offset" ELSE "peakint_offset"
           A(x) == IF n = "peakint_offset" THEN v ELSE x
           B(x) == IF n = "peakint_offset" THEN x ELSE v
           G(c) == IF n = "peakint_offset" THEN c.got[1] ELSE c.got[2]
<1>1. PICK z \in (IF q = "peakint_offset" THEN IntervalOffset(b) ELSE SampleOffset(b)) :
          o \in IF z.ok THEN Then(UdxpUpdateFilterParams(z.m, A(z.m.got), B(z.m.got)),
                                  LAMBDA c : Valued(c, G(c)))
                ELSE {z}
  <2>1. CASE n = "peakint_offset"
    BY <2>1 DEF UdxpSetPeakIntOffset, Then
  <2>2. CASE n = "peaksam_offset"
    BY <2>2 DEF UdxpSetPeakSamOffset, Then
  <2>3. QED BY <2>1, <2>2, OffsetsAre
<1>2. q \in Offsets /\ q \in N /\ Offsets \ {q} = {n} /\ n \in NameSet /\ q \in NameSet
  BY OffsetsAre
<1>3. /\ Out(b, z, R, N) /\ Acquired(b, z, q) /\ Spent(b, z)
      /\ z.ok => z.m.par = b.par /\ Kept(b, z.m, n)
  <2> HIDE DEF q
  <2>1. QED BY <1>1, <1>2, OffsetOut
<1>4. CASE ~z.ok
  BY <1>1, <1>3, <1>4, SpentSet DEF SetFine
<1>5. CASE z.ok
  <2> DEFINE pi == A(z.m.got)
             ps == B(z.m.got)
             F == {"peak_sample", "peak_interval"}
  <2>1. pi \in Int /\ ps \in Int
    BY <1>3, <1>5 DEF Acquired
  <2>2. PICK y \in UdxpUpdateFilterParams(z.m, pi, ps) :
            o \in IF y.ok THEN Valued(y.m, G(y.m)) ELSE {y}
    BY <1>1, <1>5 DEF Then
  <2>3. IsBoard(z.m)
    BY <1>3 DEF Out, SameBoard
  <2>4. IF n = "peakint_offset" THEN pi = v /\ ps = z.m.got ELSE ps = v /\ pi = z.m.got
    OBVIOUS
  <2>a. q = IF n = "peakint_offset" THEN "peaksam_offset" ELSE "peakint_offset"
    OBVIOUS
  <2> HIDE DEF pi, ps, q
  <2>5. Follows(z.m, y, R, N) /\ (y.ok => \E t : Updated(z.m, y, pi, ps, t))
    BY <2>1, <2>2, <2>3, UpdateOut
  <2>6. Out(b, y, R, N)
    BY <1>3, <1>5, <2>5, OutThen DEF Follows
  <2>7. y.ok => /\ G(y.m) \in Int
                /\ Good(y.m, "clock_speed") => Fits(y.m, n, G(y.m))
                /\ \A m \in F : y.m.entry[m] # "synced"
    <3>1. SUFFICES ASSUME y.ok
                   PROVE  /\ G(y.m) \in Int
                          /\ Good(y.m, "clock_speed") => Fits(y.m, n, G(y.m))
                          /\ \A m \in F : y.m.entry[m] # "synced"
      OBVIOUS
    <3>2. PICK t : Updated(z.m, y, pi, ps, t)
      BY <2>5, <3>1
    <3>3. y.m.got[1] \in Int /\ y.m.got[2] \in Int
      BY <2>1, <2>3, <3>2, UpdateInts
    <3>4. Good(y.m, "clock_speed") => /\ y.m.got[1] = Actual(y.m, "peakint_offset")
                                      /\ y.m.got[2] = Actual(y.m, "peaksam_offset")
      BY <2>1, <2>3, <3>2, UpdateGot
    <3>5. Good(y.m, "clock_speed") => G(y.m) = Actual(y.m, n)
      BY <3>4, OffsetsAre
    <3>6. \A m \in F : y.m.entry[m] # "synced"
      BY <3>2 DEF Updated
    <3>7. QED BY <3>3, <3>5, <3>6, OffsetFits
  <2> DEFINE w == G(y.m)
  <2>8. w = G(y.m)
    OBVIOUS
  <2> HIDE DEF F, w
  <2>9. SetFine(b, o, n, R, N, F)
    BY <1>2, <2>2, <2>6, <2>7, <2>8, EndSet
  <2>10. Ready(b, z.m, n, n, IF n = "peakint_offset" THEN pi ELSE ps)
    BY <1>3, <1>5, OffsetFits DEF Ready, Kept, Good, Agrees
  <2>11. Ready(b, z.m, q, n, z.m.got)
    <3>1. SUFFICES ASSUME Good(b, "clock_speed"), Good(b, q), z.m.entry[q] = "synced"
                   PROVE  z.m.val[q] = Actual(z.m, q) /\ z.m.val[q] = z.m.got
      BY DEF Ready
    <3>2. Good(z.m, q)
      BY <1>2, <1>3, <1>5, <3>1, AcquiredGood
    <3>3. z.m.val[q] = z.m.got
      BY <1>3, <1>5, <3>1 DEF Acquired
    <3>4. z.m.val[q] = Actual(z.m, q)
      BY <1>2, <3>1, <3>2, OffsetFits DEF Good, Agrees
    <3>5. QED BY <3>3, <3>4
  <2>12. Ready(b, z.m, "peakint_offset", n, pi) /\ Ready(b, z.m, "peaksam_offset", n, ps)
    <3>1. CASE n = "peakint_offset"
      BY <2>4, <2>10, <2>11, <2>a, <3>1
    <3>2. CASE n = "peaksam_offset"
      BY <2>4, <2>10, <2>11, <2>a, <3>2
    <3>3. QED BY <3>1, <3>2, OffsetsAre
  <2>13. \A p \in Params \ {"SLOWGAP"} : z.m.par[p] = b.par[p]
    BY <1>3, <1>5
  <2>14. (y.ok => w \in Int) /\ o \in (IF y.ok THEN Valued(y.m, w) ELSE {y})
    BY <2>2, <2>7, <2>8
  <2>15. SetHeld(b, o, n, Offsets)
    BY <1>3, <1>5, <2>1, <2>2, <2>12, <2>13, <2>14, UpdateEnd
  <2>16. QED BY <2>9, <2>15 DEF F
<1>6. QED BY <1>4, <1>5

-----------------------------------------------------------------------------
(* The gap time: the filter's length moves, and the timers follow. *)

\* The decimations, one by one.
LEMMA PowersAre == /\ PowerOfTwo(0) = 1 /\ PowerOfTwo(1) = 2 /\ PowerOfTwo(2) = 4
                   /\ PowerOfTwo(3) = 8 /\ PowerOfTwo(4) = 16 /\ PowerOfTwo(5) = 32
                   /\ PowerOfTwo(6) = 64 /\ PowerOfTwo(7) = 128
  BY DEF PowerOfTwo

\* A gap cut to the board's steps is no longer than it was.
LEMMA StepsDown ==
  ASSUME NEW g \in Nat, NEW i \in 0..6
  PROVE  g - (g % PowerOfTwo(i + 1)) \in 0..g
<1>1. \A P \in {2, 4, 8, 16, 32, 64, 128} : g - (g % P) \in 0..g
  BY SMT
<1>2. i \in {0, 1, 2, 3, 4, 5, 6}
  OBVIOUS
<1>3. PowerOfTwo(i + 1) \in {2, 4, 8, 16, 32, 64, 128}
  BY <1>2, PowersAre
<1>4. QED BY <1>1, <1>3

\* SLOWGAP computed from a gap time fits its register.
LEMMA SlowGapType ==
  ASSUME NEW b, IsBoard(b), NEW v \in Int, NEW t \in Nat \ {0}
  PROVE  SlowGap(b, v, t) \in 0..MaxSlow
<1> DEFINE most == IF b.super THEN MaxSlow - b.par["SLOWLEN"] ELSE MaxSlow - 2
           r == Rounded(v, t)
           gap == Smaller(Larger(r, IF b.super THEN 0 ELSE 1), most)
<1>1. r \in Int /\ b.super \in BOOLEAN
  BY RoundedType DEF IsBoard
<1>2. MaxSlow \in Nat /\ MaxSlow > 2 /\ b.par["SLOWLEN"] \in 0..MaxSlow
  BY LengthLimits, LimitsAssumption
<1>3. most \in 0..MaxSlow
  BY <1>1, <1>2
<1> HIDE DEF most, r
<1>4. gap \in 0..MaxSlow
  BY <1>1, <1>2, <1>3 DEF Smaller, Larger
<1>5. SlowGap(b, v, t) =
        IF b.super THEN gap - (gap % PowerOfTwo(b.par["BFACTOR"] + 1)) ELSE gap
  BY DEF SlowGap, most, r
<1> HIDE DEF gap
<1>6. b.par["BFACTOR"] \in 0..6
  <2>1. b.par["BFACTOR"] \in RegisterValues("BFACTOR")
    BY ParamsAre DEF IsBoard
  <2>2. QED BY <2>1 DEF RegisterValues
<1>7. gap - (gap % PowerOfTwo(b.par["BFACTOR"] + 1)) \in 0..gap
  <2>1. gap \in Nat
    BY <1>2, <1>4
  <2>2. QED BY <1>6, <2>1, StepsDown
<1>8. gap - (gap % PowerOfTwo(b.par["BFACTOR"] + 1)) \in 0..MaxSlow
  BY <1>2, <1>4, <1>7
<1>9. QED BY <1>1, <1>4, <1>5, <1>8

\* The gap is written: nothing else has moved.
GapWritten(b, c, x, t, R, N) ==
    /\ Out(b, c, R, N) /\ Spent(b, c)
    /\ c.ok => /\ c.m.par = [b.par EXCEPT !["SLOWGAP"] = x]
               /\ \A m \in Offsets : Kept(b, c.m, m)
               /\ t \in Nat \ {0} /\ x \in 0..MaxSlow
               /\ Good(c.m, "clock_speed") => t = TrueTick(c.m)

\* Writing SLOWGAP after a tick is read changes that register only.
LEMMA GapOut ==
  ASSUME NEW b, IsBoard(b), NEW v \in Int, NEW R, NEW N, "SLOWGAP" \in R, "CLOCK" \notin R,
         NEW z \in UdxpGetClockTick(b), z.ok, NEW t, t = z.m.got,
         NEW x, x = SlowGap(z.m, v, t),
         NEW c \in UdxpSetFilterParam(z.m, "SLOWGAP", x)
  PROVE  GapWritten(b, c, x, t, R, N)
<1>1. /\ Out(b, z, R, N) /\ Quiet(b, z.m) /\ t \in Nat \ {0}
      /\ Good(z.m, "clock_speed") => t = TrueTick(z.m)
  BY TickOut
<1>2. IsBoard(z.m)
  BY <1>1 DEF Out, SameBoard
<1>3. x \in 0..MaxSlow /\ "SLOWGAP" \in Params
  BY <1>1, <1>2, SlowGapType, ParamsAre
<1>4. x \in RegisterValues("SLOWGAP")
  BY <1>3 DEF RegisterValues
<1>5. Wrote(z.m, c, "SLOWGAP", x, R, N)
  BY <1>2, <1>4, TimerFollows
<1>6. Spent(z.m, c)
  BY <1>2, <1>3, <1>4, WriteSpent DEF UdxpSetFilterParam
<1>7. Out(b, c, R, N) /\ Spent(b, c)
  BY <1>1, <1>5, <1>6, OutThen, SpentThen DEF Wrote
<1>8. ASSUME c.ok
      PROVE  /\ c.m.par = [b.par EXCEPT !["SLOWGAP"] = x]
             /\ \A m \in Offsets : Kept(b, c.m, m)
             /\ Good(c.m, "clock_speed") => t = TrueTick(c.m)
  <2>1. c.m.par = [b.par EXCEPT !["SLOWGAP"] = x] /\ z.m.par = b.par
    BY <1>1, <1>5, <1>8 DEF Wrote, Quiet
  <2>2. \A m \in Offsets : Kept(b, c.m, m)
    BY <1>1, <1>5, <1>8, OffsetsAre DEF Wrote, Quiet, Kept
  <2>3. SameBoard(z.m, c.m) /\ SameClock(z.m, c.m)
    BY <1>5, <1>8 DEF Wrote, Out, Step
  <2>4. Good(c.m, "clock_speed") => Good(z.m, "clock_speed")
    BY <2>3, ClockBelief
  <2>5. c.m.par["CLOCK"] = z.m.par["CLOCK"] /\ c.m.par["FIPPI"] = z.m.par["FIPPI"]
    <3>1. b.par \in [Params -> Int] /\ "CLOCK" \in Params /\ "FIPPI" \in Params
      BY BoardTypes, ParamsAre
    <3>2. QED BY <2>1, <3>1
  <2>6. TrueTick(c.m) = TrueTick(z.m)
    BY <2>5 DEF TrueTick, Decimation
  <2>7. QED BY <1>1, <2>1, <2>2, <2>4, <2>6
<1>9. QED BY <1>1, <1>3, <1>7, <1>8 DEF GapWritten

\* The offsets are asked for.
LEMMA GapRead ==
  ASSUME NEW b, IsBoard(b), NEW R, NEW N, "CLOCK" \notin R, Offsets \subseteq N,
         NEW c, NEW x, NEW t, GapWritten(b, c, x, t, R, N), c.ok,
         NEW d \in SampleOffset(c.m), d.ok, NEW e \in IntervalOffset(d.m), NEW n,
         n \notin Offsets
  PROVE  /\ Out(b, e, R, N) /\ Spent(b, e)
         /\ e.ok => /\ e.m.par = c.m.par /\ e.m.got \in Int /\ d.m.got \in Int
                    /\ Ready(b, e.m, "peakint_offset", n, e.m.got)
                    /\ Ready(b, e.m, "peaksam_offset", n, d.m.got)
<1> DEFINE i == "peakint_offset"
           s == "peaksam_offset"
<1>1. /\ i \in Offsets /\ s \in Offsets /\ i \in NameSet /\ s \in NameSet /\ i # s
      /\ i \in N /\ s \in N
  BY OffsetsAre
<1>2. Out(b, c, R, N) /\ \A m \in Offsets : Kept(b, c.m, m)
  BY DEF GapWritten
<1>3. IsBoard(c.m)
  BY <1>2 DEF Out, SameBoard
<1>4. /\ Out(c.m, d, R, N) /\ Acquired(c.m, d, s) /\ d.m.par = c.m.par /\ Kept(c.m, d.m, i)
  BY <1>1, <1>3, OffsetOut
<1>5. IsBoard(d.m)
  BY <1>4 DEF Out, SameBoard
<1>6. /\ Out(d.m, e, R, N) /\ Acquired(d.m, e, i) /\ Spent(d.m, e)
      /\ e.ok => e.m.par = d.m.par /\ Kept(d.m, e.m, s)
  BY <1>1, <1>5, OffsetOut
<1>7. Out(b, d, R, N)
  BY <1>2, <1>4, OutThen
<1>8. Out(b, e, R, N) /\ Spent(b, e)
  BY <1>6, <1>7, OutThen, SpentThen
<1>9. ASSUME e.ok, Good(b, "clock_speed")
      PROVE  Good(d.m, "clock_speed") /\ Good(e.m, "clock_speed")
  <2>1. /\ SameBoard(b, d.m) /\ SameClock(b, d.m)
        /\ SameBoard(b, e.m) /\ SameClock(b, e.m)
    BY <1>7, <1>8, <1>9 DEF Out, Step
  <2>2. QED BY <1>9, <2>1, ClockBelief
<1>10. ASSUME e.ok PROVE Ready(b, e.m, i, n, e.m.got)
  <2>1. SUFFICES ASSUME Good(b, "clock_speed"), Good(b, i), e.m.entry[i] = "synced"
                 PROVE  e.m.val[i] \in {Actual(b, i), Actual(e.m, i)} /\ e.m.val[i] = e.m.got
    BY DEF Ready
  <2>2. e.m.val[i] = e.m.got
    BY <1>6, <1>10, <2>1 DEF Acquired
  <2>3. CASE d.m.entry[i] = "synced"
    <3>1. e.m.got = d.m.val[i] /\ d.m.val[i] = b.val[i] /\ b.entry[i] = "synced"
      BY <1>1, <1>2, <1>4, <1>6, <1>10, <2>3 DEF Acquired, Kept
    <3>2. b.val[i] = Actual(b, i)
      BY <1>1, <2>1, <3>1, OffsetFits DEF Good, Agrees
    <3>3. QED BY <2>2, <3>1, <3>2
  <2>4. CASE d.m.entry[i] # "synced"
    <3>1. Fits(e.m, i, e.m.got)
      BY <1>6, <1>9, <1>10, <2>1, <2>4 DEF Acquired
    <3>2. e.m.got = Actual(e.m, i)
      BY <1>1, <3>1, OffsetFits
    <3>3. QED BY <2>2, <3>2
  <2>5. QED BY <2>3, <2>4
<1>11. ASSUME e.ok PROVE Ready(b, e.m, s, n, d.m.got)
  <2>1. SUFFICES ASSUME Good(b, "clock_speed"), Good(b, s), e.m.entry[s] = "synced"
                 PROVE  e.m.val[s] \in {Actual(b, s), Actual(e.m, s)} /\ e.m.val[s] = d.m.got
    BY DEF Ready
  <2>2. d.m.entry[s] = "synced" /\ e.m.val[s] = d.m.val[s]
    BY <1>6, <1>11, <2>1 DEF Kept
  <2>3. d.m.val[s] = d.m.got
    BY <1>4, <2>2 DEF Acquired
  <2>4. CASE c.m.entry[s] = "synced"
    <3>1. d.m.got = c.m.val[s] /\ c.m.val[s] = b.val[s] /\ b.entry[s] = "synced"
      BY <1>1, <1>2, <1>4, <2>4 DEF Acquired, Kept
    <3>2. b.val[s] = Actual(b, s)
      BY <1>1, <2>1, <3>1, OffsetFits DEF Good, Agrees
    <3>3. QED BY <2>2, <2>3, <3>1, <3>2
  <2>5. CASE c.m.entry[s] # "synced"
    <3>1. Fits(d.m, s, d.m.got)
      BY <1>4, <1>9, <1>11, <2>1, <2>5 DEF Acquired
    <3>2. d.m.got = Actual(d.m, s)
      BY <1>1, <3>1, OffsetFits
    <3>3. Actual(e.m, s) = Actual(d.m, s)
      <4>1. e.m.super = d.m.super /\ e.m.vega = d.m.vega /\ e.m.switched = d.m.switched
        BY <1>6 DEF Out, SameBoard
      <4>2. QED BY <1>1, <1>6, <1>11, <4>1, SameActual
    <3>4. QED BY <2>2, <2>3, <3>2, <3>3
  <2>6. QED BY <2>4, <2>5
<1>12. d.m.got \in Int /\ (e.ok => e.m.got \in Int)
  BY <1>4, <1>6 DEF Acquired
<1>13. QED BY <1>4, <1>6, <1>8, <1>10, <1>11, <1>12

\* The gap time that is set is the board's, within its rounding.
LEMMA EGapTimeSet ==
  ASSUME NEW b, IsBoard(b), NEW v \in Int, NEW R, NEW N,
         {"SLOWGAP", "PEAKINT", "PEAKSAM"} \subseteq R, "CLOCK" \notin R,
         Offsets \subseteq N, NEW o, o \in UdxpSetEGapTime(b, v)
  PROVE  /\ SetFine(b, o, "energy_gap_time", R, N, {"peak_sample", "peak_interval"})
         /\ SetHeld(b, o, "energy_gap_time", Offsets)
<1> DEFINE n == "energy_gap_time"
           F == {"peak_sample", "peak_interval"}
           X(a) == SlowGap(a, v, a.got)
<1>1. PICK z \in UdxpGetClockTick(b) :
          o \in IF ~z.ok THEN {z} ELSE
            Then(UdxpSetFilterParam(z.m, "SLOWGAP", X(z.m)), LAMBDA c :
            Then(SampleOffset(c), LAMBDA d :
            Then(IntervalOffset(d), LAMBDA e :
            Then(UdxpUpdateFilterParams(e, e.got, d.got), LAMBDA f :
                 Valued(f, X(z.m) * z.m.got)))))
  BY DEF UdxpSetEGapTime, Then
<1>2. Out(b, z, R, N) /\ Spent(b, z)
  BY <1>1, TickOut, TickSpent
<1>3. CASE ~z.ok
  BY <1>1, <1>2, <1>3, SpentSet DEF SetFine
<1>4. CASE z.ok
  <2> DEFINE t == z.m.got
             x == X(z.m)
  <2>1. PICK c \in UdxpSetFilterParam(z.m, "SLOWGAP", x) :
            o \in IF ~c.ok THEN {c} ELSE
              Then(SampleOffset(c.m), LAMBDA d :
              Then(IntervalOffset(d), LAMBDA e :
              Then(UdxpUpdateFilterParams(e, e.got, d.got), LAMBDA f : Valued(f, x * t))))
    BY <1>1, <1>4 DEF Then
  <2>2. t = z.m.got /\ x = SlowGap(z.m, v, t)
    OBVIOUS
  <2> HIDE DEF t, x
  <2>3. GapWritten(b, c, x, t, R, N)
    BY <1>1, <1>4, <2>1, <2>2, GapOut
  <2>4. CASE ~c.ok
    BY <2>1, <2>3, <2>4, SpentSet DEF SetFine, GapWritten
  <2>5. CASE c.ok
    <3>1. PICK d \in SampleOffset(c.m) :
              o \in IF ~d.ok THEN {d} ELSE
                Then(IntervalOffset(d.m), LAMBDA e :
                Then(UdxpUpdateFilterParams(e, e.got, d.m.got), LAMBDA f : Valued(f, x * t)))
      BY <2>1, <2>5 DEF Then
    <3>2. /\ Out(b, c, R, N) /\ c.m.par = [b.par EXCEPT !["SLOWGAP"] = x]
          /\ t \in Nat \ {0} /\ x \in 0..MaxSlow
          /\ Good(c.m, "clock_speed") => t = TrueTick(c.m)
      BY <2>3, <2>5 DEF GapWritten
    <3>3. CASE ~d.ok
      <4>1. IsBoard(c.m) /\ "peaksam_offset" \in Offsets
        BY <3>2, OffsetsAre DEF Out, SameBoard
      <4>2. Out(c.m, d, R, N) /\ Spent(c.m, d)
        BY <3>1, <4>1, OffsetOut
      <4>3. Out(b, d, R, N) /\ Spent(b, d)
        BY <2>5, <3>2, <4>2, OutThen, SpentThen
      <4>4. QED BY <3>1, <3>3, <4>3, SpentSet DEF SetFine
    <3>4. CASE d.ok
      <4>1. PICK e \in IntervalOffset(d.m) :
                o \in IF ~e.ok THEN {e} ELSE
                  Then(UdxpUpdateFilterParams(e.m, e.m.got, d.m.got), LAMBDA f : Valued(f, x * t))
        BY <3>1, <3>4 DEF Then
      <4>2. /\ Out(b, e, R, N) /\ Spent(b, e)
            /\ e.ok => /\ e.m.par = c.m.par /\ e.m.got \in Int /\ d.m.got \in Int
                       /\ Ready(b, e.m, "peakint_offset", n, e.m.got)
                       /\ Ready(b, e.m, "peaksam_offset", n, d.m.got)
        <5>1. n \notin Offsets
          BY OffsetsAre
        <5> HIDE DEF n
        <5>2. QED BY <2>3, <2>5, <3>1, <3>4, <4>1, <5>1, GapRead
      <4>3. CASE ~e.ok
        BY <4>1, <4>2, <4>3, SpentSet DEF SetFine
      <4>4. CASE e.ok
        <5> DEFINE pi == e.m.got
                   ps == d.m.got
                   w == x * t
        <5>1. PICK y \in UdxpUpdateFilterParams(e.m, pi, ps) :
                  o \in IF y.ok THEN Valued(y.m, w) ELSE {y}
          BY <4>1, <4>4 DEF Then
        <5>2. pi \in Int /\ ps \in Int /\ IsBoard(e.m)
          BY <4>2, <4>4 DEF Out, SameBoard
        <5>3. w \in Int
          BY <3>2, LimitsAssumption
        <5> HIDE DEF pi, ps
        <5>4. Follows(e.m, y, R, N) /\ (y.ok => \E s : Updated(e.m, y, pi, ps, s))
          BY <5>1, <5>2, UpdateOut
        <5>5. Out(b, y, R, N)
          BY <4>2, <4>4, <5>4, OutThen DEF Follows
        <5>6. b.par \in [Params -> Int] /\ "SLOWGAP" \in Params /\ "CLOCK" \in Params
              /\ "FIPPI" \in Params /\ "PEAKINT" \in Params /\ "PEAKSAM" \in Params
          BY BoardTypes, ParamsAre
        <5>7. /\ \A p \in Params \ {"SLOWGAP"} : e.m.par[p] = b.par[p]
              /\ e.m.par["SLOWGAP"] = x /\ e.m.par \in [Params -> Int]
          <6>1. e.m.par \in [Params -> Int]
            BY <5>2, BoardTypes
          <6>2. QED BY <3>2, <4>2, <4>4, <5>6, <6>1
        <5>8. ASSUME y.ok
              PROVE  /\ Good(y.m, "clock_speed") => Fits(y.m, n, w)
                     /\ \A m \in F : y.m.entry[m] # "synced"
          <6>1. PICK s : Updated(e.m, y, pi, ps, s)
            BY <5>4, <5>8
          <6>2. \A m \in F : y.m.entry[m] # "synced"
            BY <6>1 DEF Updated
          <6>3. /\ SameBoard(c.m, e.m) /\ SameBoard(b, c.m)
                /\ SameBoard(b, y.m) /\ SameClock(b, y.m)
                /\ SameBoard(b, c.m) /\ SameClock(b, c.m)
            <7>1. SameBoard(b, y.m) /\ SameClock(b, y.m)
              BY <5>5, <5>8 DEF Out, Step
            <7>2. SameBoard(b, c.m) /\ SameClock(b, c.m)
              BY <2>5, <3>2 DEF Out, Step
            <7>3. SameBoard(c.m, e.m)
              <8>1. IsBoard(c.m)
                BY <7>2 DEF SameBoard
              <8>2. Out(c.m, d, R, N)
                BY <3>1, <8>1, OffsetOut, OffsetsAre
              <8>3. IsBoard(d.m) /\ SameBoard(c.m, d.m)
                BY <8>2 DEF Out, SameBoard
              <8>4. Out(d.m, e, R, N)
                BY <4>1, <8>3, OffsetOut, OffsetsAre
              <8>5. QED BY <8>1, <8>3, <8>4, BoardThen DEF Out
            <7>4. QED BY <7>1, <7>2, <7>3
          <6>4. ASSUME Good(y.m, "clock_speed") PROVE Fits(y.m, n, w)
            <7>1. Good(c.m, "clock_speed")
              BY <6>3, <6>4, ClockBelief
            <7>2. t = TrueTick(c.m)
              BY <3>2, <7>1
            <7>3. y.m.par = [e.m.par EXCEPT !["PEAKINT"] = Interval(e.m, pi, s),
                                            !["PEAKSAM"] = Sample(e.m, pi, ps, s)]
              BY <6>1 DEF Updated
            <7>4. /\ y.m.par["SLOWGAP"] = x /\ y.m.par["CLOCK"] = e.m.par["CLOCK"]
                  /\ y.m.par["FIPPI"] = e.m.par["FIPPI"]
              BY <5>6, <5>7, <7>3
            <7>5. TrueTick(y.m) = TrueTick(c.m)
              BY <4>2, <4>4, <7>4 DEF TrueTick, Decimation
            <7>6. w = Actual(y.m, n)
              BY <7>2, <7>4, <7>5, ActualIs
            <7>7. QED BY <7>6, ActualFits
          <6>5. QED BY <6>2, <6>4
        <5> DEFINE ww == w
        <5>9. ww \in Int /\ w = ww
          BY <5>3
        <5> HIDE DEF ww
        <5>10. o \in IF y.ok THEN Valued(y.m, ww) ELSE {y}
          BY <5>1, <5>9
        <5>11. y.ok => /\ ww \in Int
                       /\ Good(y.m, "clock_speed") => Fits(y.m, n, ww)
                       /\ \A m \in F : y.m.entry[m] # "synced"
          BY <5>8, <5>9
        <5>12. n \in NameSet
          BY NamesAre
        <5> HIDE DEF n, F
        <5>13. SetFine(b, o, n, R, N, F)
          BY <5>5, <5>10, <5>11, <5>12, EndSet
        <5>14. SetHeld(b, o, n, Offsets)
          <6>1. Ready(b, e.m, "peakint_offset", n, pi) /\ Ready(b, e.m, "peaksam_offset", n, ps)
            BY <4>2, <4>4 DEF pi, ps
          <6>2. QED BY <4>2, <4>4, <5>1, <5>2, <5>7, <5>9, <5>10, <6>1, UpdateEnd
        <5>15. QED BY <5>13, <5>14 DEF n, F
      <4>5. QED BY <4>3, <4>4
    <3>5. QED BY <3>3, <3>4
  <2>6. QED BY <2>4, <2>5
<1>5. QED BY <1>3, <1>4

-----------------------------------------------------------------------------
(* The sets of parameters. *)

\* The board takes over several registers at once.
LEMMA RegistersStep ==
  ASSUME NEW b, IsBoard(b), NEW g \in [Params -> Int],
         \A p \in Params : g[p] \in RegisterValues(p), NEW R, NEW N,
         \A p \in Params \ R : g[p] = b.par[p], "CLOCK" \notin R,
         NEW c, c = WithField(b, "par", g)
  PROVE  /\ Step(b, c, R, N) /\ c.par = g /\ c.budget = b.budget
         /\ c.entry = b.entry /\ c.val = b.val
<1>1. b = [f \in Fields |-> b[f]] /\ "par" \in Fields
  BY BoardTypes DEF Fields
<1>2. /\ c = [f \in Fields |-> c[f]] /\ c["par"] = g
      /\ \A f \in Fields \ {"par"} : c[f] = b[f]
  BY <1>1, FieldSet
<1>3. /\ c.super = b.super /\ c.vega = b.vega /\ c.switched = b.switched
      /\ c.parsets = b.parsets /\ c.gensets = b.gensets /\ c.entry = b.entry
      /\ c.val = b.val /\ c.value = b.value /\ c.budget = b.budget
  BY <1>2 DEF Fields
<1>4. IsBoard(c)
  BY <1>2, <1>3 DEF IsBoard, ParsetParams, GensetParams
<1>5. SameBoard(b, c)
  BY <1>3, <1>4, BoardTypes DEF SameBoard
<1>6. SameClock(b, c)
  <2>1. "CLOCK" \in Params /\ "clock_speed" \in NameSet
    BY ParamsAre, NamesAre
  <2>2. c.par["CLOCK"] = b.par["CLOCK"]
    BY <1>2, <2>1
  <2>3. QED BY <1>3, <2>2 DEF SameClock, Good
<1>7. Step(b, c, R, N)
  BY <1>2, <1>3, <1>5, <1>6 DEF Step, Tells, Kept
<1>8. QED BY <1>2, <1>3, <1>7

\* Loading a parameter set writes the filter's and energy's registers.
LEMMA LoadParsetStep ==
  ASSUME NEW b, IsBoard(b), NEW f \in {0, 1}, NEW s \in {0, 1}, NEW R, NEW N,
         FilterParams \cup EnergyParams \subseteq R, "CLOCK" \notin R,
         s = b.par["PARSET"] \/ "PARSET" \in R, f = b.par["FIPPI"] \/ "FIPPI" \in R,
         NEW c, c = LoadParset(b, f, s)
  PROVE  /\ Step(b, c, R, N) /\ c.budget = b.budget /\ c.entry = b.entry /\ c.val = b.val
         /\ c.par["PARSET"] = s /\ c.par["FIPPI"] = f
<1> DEFINE g == [p \in Params |->
                   IF p \in ParsetParams(b) THEN b.parsets[<<f, s>>][p]
                   ELSE IF p = "PARSET" THEN s ELSE IF p = "FIPPI" THEN f ELSE b.par[p]]
<1>1. c = WithField(b, "par", g)
  BY DEF LoadParset, WithField
<1>2. ParsetParams(b) \subseteq FilterParams \cup EnergyParams
  BY DEF ParsetParams
<1>3. /\ "PARSET" \in Params /\ "FIPPI" \in Params
      /\ "PARSET" \notin FilterParams \cup EnergyParams
      /\ "FIPPI" \notin FilterParams \cup EnergyParams
  BY ParamsAre DEF FilterParams, EnergyParams
<1>4. \A p \in Params : g[p] \in RegisterValues(p)
  <2>1. SUFFICES ASSUME NEW p \in Params PROVE g[p] \in RegisterValues(p)
    OBVIOUS
  <2>2. CASE p \in ParsetParams(b)
    <3>1. <<f, s>> \in {0, 1} \X {0, 1}
      OBVIOUS
    <3>2. b.parsets[<<f, s>>][p] \in RegisterValues(p)
      BY <2>2, <3>1 DEF IsBoard
    <3>3. QED BY <2>2, <3>2
  <2>3. CASE p \notin ParsetParams(b) /\ p \in {"PARSET", "FIPPI"}
    BY <2>3 DEF RegisterValues
  <2>4. CASE p \notin ParsetParams(b) /\ p \notin {"PARSET", "FIPPI"}
    <3>1. b.par[p] \in RegisterValues(p)
      BY DEF IsBoard
    <3>2. QED BY <2>4, <3>1
  <2>5. QED BY <2>2, <2>3, <2>4
<1>5. g \in [Params -> Int]
  BY <1>4, ParamTypes
<1>6. \A p \in Params \ R : g[p] = b.par[p]
  BY <1>2
<1>7. g["PARSET"] = s /\ g["FIPPI"] = f
  BY <1>2, <1>3
<1> HIDE DEF g
<1>8. QED BY <1>1, <1>4, <1>5, <1>6, <1>7, RegistersStep

\* Loading a general set writes the spectrum's and energy's registers.
LEMMA LoadGensetStep ==
  ASSUME NEW b, IsBoard(b), NEW s \in {0, 1}, NEW R, NEW N,
         SpectrumParams \cup EnergyParams \cup {"GENSET"} \subseteq R, "CLOCK" \notin R,
         NEW c, c = LoadGenset(b, s)
  PROVE  /\ Step(b, c, R, N) /\ c.budget = b.budget /\ c.entry = b.entry /\ c.val = b.val
         /\ c.par["GENSET"] = s
<1> DEFINE g == [p \in Params |->
                   IF p \in GensetParams(b) THEN b.gensets[s][p]
                   ELSE IF p = "GENSET" THEN s ELSE b.par[p]]
<1>1. c = WithField(b, "par", g)
  BY DEF LoadGenset, WithField
<1>2. GensetParams(b) \subseteq SpectrumParams \cup EnergyParams
  BY DEF GensetParams
<1>3. "GENSET" \in Params /\ "GENSET" \notin SpectrumParams \cup EnergyParams
  BY ParamsAre DEF SpectrumParams, EnergyParams
<1>4. \A p \in Params : g[p] \in RegisterValues(p)
  <2>1. SUFFICES ASSUME NEW p \in Params PROVE g[p] \in RegisterValues(p)
    OBVIOUS
  <2>2. CASE p \in GensetParams(b)
    <3>1. b.gensets[s][p] \in RegisterValues(p)
      BY <2>2 DEF IsBoard
    <3>2. QED BY <2>2, <3>1
  <2>3. CASE p \notin GensetParams(b) /\ p = "GENSET"
    BY <2>3 DEF RegisterValues
  <2>4. CASE p \notin GensetParams(b) /\ p # "GENSET"
    <3>1. b.par[p] \in RegisterValues(p)
      BY DEF IsBoard
    <3>2. QED BY <2>4, <3>1
  <2>5. QED BY <2>2, <2>3, <2>4
<1>5. g \in [Params -> Int]
  BY <1>4, ParamTypes
<1>6. \A p \in Params \ R : g[p] = b.par[p]
  BY <1>2
<1>7. g["GENSET"] = s
  BY <1>2, <1>3
<1> HIDE DEF g
<1>8. QED BY <1>1, <1>4, <1>5, <1>6, <1>7, RegistersStep

\* After a load the entries of the set are forgotten.
LEMMA LoadSet ==
  ASSUME NEW b, IsBoard(b), NEW c, NEW R, NEW N, Step(b, c, R, N), c.budget = b.budget,
         NEW n \in {"parset", "genset", "fippi"}, NEW v \in Int, c.par[Register[n]] = v,
         NEW z \in Command(b, c), z.ok, NEW ns \in Seq(NameSet), NEW S,
         "clock_speed" \notin S, NEW y \in ForgetThose(z.m, ns, S),
         NEW F, F = S \cap ToSet(ns), NEW o, o \in (IF y.ok THEN Valued(y.m, v) ELSE {y})
  PROVE  SetFine(b, o, n, R, N, F)
<1>1. Out(b, z, R, N) /\ z.m = c
  BY CommandOut
<1>2. IsBoard(z.m)
  BY <1>1 DEF Out, SameBoard
<1>3. /\ Out(z.m, y, R, N) /\ y.m.par = z.m.par
      /\ y.ok => \A m \in S \cap ToSet(ns) : y.m.entry[m] = "unknown"
  BY <1>2, ForgetThoseOut
<1>4. Out(b, y, R, N)
  BY <1>1, <1>3, OutThen
<1>5. y.ok => \A m \in F : y.m.entry[m] # "synced"
  BY <1>3
<1>6. Actual(y.m, n) = v
  <2>1. Actual(y.m, n) = y.m.par[Register[n]]
    BY ActualIs DEF Register
  <2>2. QED BY <1>1, <1>3, <2>1
<1>7. Fits(y.m, n, v)
  BY <1>6, ActualFits
<1>8. n \in NameSet
  BY NamesAre
<1>9. QED BY <1>4, <1>5, <1>7, <1>8, EndSet

\* Selecting a parameter set forgets every entry it may change.
LEMMA ParsetSet ==
  ASSUME NEW b, IsBoard(b), NEW v \in Nat, NEW R, NEW N,
         FilterParams \cup EnergyParams \cup {"PARSET"} \subseteq R, "CLOCK" \notin R,
         NEW o, o \in UdxpSetParset(b, v)
  PROVE  SetFine(b, o, "parset", R, N, Forgotten("parset"))
<1> DEFINE ns == <<"energy_gap_time", "trigger_peak_time", "trigger_gap_time",
               "baseline_length", "trigger_threshold", "baseline_threshold",
               "energy_threshold", "gain_trim", "peak_interval", "peak_sample",
               "peak_mode", "peakint_offset", "peaksam_offset", "max_width",
               "peaking_time", "baseline_factor">>
           c == LoadParset(b, b.par["FIPPI"], v)
           S == ToSet(ns)
           F == Forgotten("parset")
<1>1. CASE v >= 2
  <2>1. o \in Refused(b)
    BY <1>1 DEF UdxpSetParset, UdxpGetNumPtPerFiPPI
  <2>2. QED BY <2>1, RefusedSet
<1>2. CASE ~(v >= 2)
  <2>1. PICK z \in Command(b, c) :
            o \in IF z.ok THEN Then(ForgetThose(z.m, ns, S), LAMBDA d : Valued(d, v)) ELSE {z}
    BY <1>2 DEF UdxpSetParset, UdxpGetNumPtPerFiPPI, Then, Forget
  <2>2. b.par["FIPPI"] \in {0, 1} /\ v \in {0, 1}
    <3>1. b.par["FIPPI"] \in RegisterValues("FIPPI")
      BY ParamsAre DEF IsBoard
    <3>2. QED BY <1>2, <3>1 DEF RegisterValues
  <2>3. S = F /\ ns \in Seq(NameSet) /\ "clock_speed" \notin S
    <3>1. S = {"energy_gap_time", "trigger_peak_time", "trigger_gap_time",
               "baseline_length", "trigger_threshold", "baseline_threshold",
               "energy_threshold", "gain_trim", "peak_interval", "peak_sample",
               "peak_mode", "peakint_offset", "peaksam_offset", "max_width",
               "peaking_time", "baseline_factor"}
      BY DEF ToSet
    <3>2. F = {"energy_gap_time", "trigger_peak_time", "trigger_gap_time",
               "baseline_length", "trigger_threshold", "baseline_threshold",
               "energy_threshold", "gain_trim", "peak_interval", "peak_sample",
               "peak_mode", "peakint_offset", "peaksam_offset", "max_width",
               "peaking_time", "baseline_factor"}
      BY DEF Forgotten, Offsets
    <3>3. ns \in Seq(NameSet)
      BY NamesAre
    <3>4. QED BY <3>1, <3>2, <3>3
  <2>4. S \cap ToSet(ns) = F
    BY <2>3
  <2>5. c = LoadParset(b, b.par["FIPPI"], v)
    OBVIOUS
  <2> HIDE DEF c, S, ns, F
  <2>6. /\ Step(b, c, R, N) /\ c.budget = b.budget /\ c.par["PARSET"] = v
    BY <2>2, <2>5, LoadParsetStep
  <2>7. CASE ~z.ok
    BY <2>1, <2>6, <2>7, CommandOut DEF SetFine
  <2>8. CASE z.ok
    <3>1. PICK y \in ForgetThose(z.m, ns, S) : o \in IF y.ok THEN Valued(y.m, v) ELSE {y}
      BY <2>1, <2>8 DEF Then
    <3>2. c.par[Register["parset"]] = v
      BY <2>6 DEF Register
    <3>3. SetFine(b, o, "parset", R, N, F)
      BY <2>1, <2>3, <2>4, <2>6, <2>8, <3>1, <3>2, LoadSet
    <3>4. QED BY <3>3 DEF F
  <2>9. QED BY <2>7, <2>8
<1>3. QED BY <1>1, <1>2

\* Selecting a general set forgets every entry it may change.
LEMMA GensetSet ==
  ASSUME NEW b, IsBoard(b), NEW v \in {0, 1}, NEW R, NEW N,
         SpectrumParams \cup EnergyParams \cup {"GENSET"} \subseteq R, "CLOCK" \notin R,
         NEW o, o \in UdxpSetGenset(b, v)
  PROVE  SetFine(b, o, "genset", R, N, Forgotten("genset"))
<1> DEFINE ns == <<"number_mca_channels", "mca_bin_width", "number_of_scas", "gain",
                   "trigger_threshold", "baseline_threshold", "energy_threshold",
                   "gain_trim">>
           c == LoadGenset(b, v)
           S == ToSet(ns)
           F == Forgotten("genset")
<1>1. PICK z \in Command(b, c) :
          o \in IF z.ok THEN Then(ForgetThose(z.m, ns, S), LAMBDA d : Valued(d, v)) ELSE {z}
  BY DEF UdxpSetGenset, Then, Forget
<1>2. S = F /\ ns \in Seq(NameSet) /\ "clock_speed" \notin S
  BY NamesAre DEF ToSet, Forgotten, Offsets
<1>3. S \cap ToSet(ns) = F
  BY <1>2
<1>4. c = LoadGenset(b, v)
  OBVIOUS
<1> HIDE DEF c, S, ns, F
<1>5. /\ Step(b, c, R, N) /\ c.budget = b.budget /\ c.par["GENSET"] = v
  BY <1>4, LoadGensetStep
<1>6. CASE ~z.ok
  BY <1>1, <1>5, <1>6, CommandOut DEF SetFine
<1>7. CASE z.ok
  <2>1. PICK y \in ForgetThose(z.m, ns, S) : o \in IF y.ok THEN Valued(y.m, v) ELSE {y}
    BY <1>1, <1>7 DEF Then
  <2>2. c.par[Register["genset"]] = v
    BY <1>5 DEF Register
  <2>3. SetFine(b, o, "genset", R, N, F)
    BY <1>1, <1>2, <1>3, <1>5, <1>7, <2>1, <2>2, LoadSet
  <2>4. QED BY <2>3 DEF F
<1>8. QED BY <1>6, <1>7

\* Selecting a FiPPI forgets every entry it may change.
LEMMA FiPPISet ==
  ASSUME NEW b, IsBoard(b), NEW v \in Nat, NEW R, NEW N,
         FilterParams \cup EnergyParams \cup {"FIPPI"} \subseteq R, "CLOCK" \notin R,
         NEW o, o \in UdxpSetFiPPI(b, v)
  PROVE  SetFine(b, o, "fippi", R, N, Forgotten("fippi"))
<1> DEFINE c == LoadParset(b, v, b.par["PARSET"])
           F == Forgotten("fippi")
<1>1. CASE v >= 2
  <2>1. o \in Refused(b)
    BY <1>1 DEF UdxpSetFiPPI, UdxpGetNumFiPPIs
  <2>2. QED BY <2>1, RefusedSet
<1>2. CASE ~(v >= 2)
  <2>1. PICK z \in Command(b, c) :
            o \in IF z.ok THEN Then(ForgetThose(z.m, Names, ParsetMembers),
                                    LAMBDA d : Valued(d, v)) ELSE {z}
    BY <1>2 DEF UdxpSetFiPPI, UdxpGetNumFiPPIs, Then, UdxpInvalidateAll
  <2>2. b.par["PARSET"] \in {0, 1} /\ v \in {0, 1}
    <3>1. b.par["PARSET"] \in RegisterValues("PARSET")
      BY ParamsAre DEF IsBoard
    <3>2. QED BY <1>2, <3>1 DEF RegisterValues
  <2>3. Names \in Seq(NameSet)
    BY NamesAre DEF Names
  <2>4. ParsetMembers \cap ToSet(Names) = F /\ "clock_speed" \notin ParsetMembers
    BY DEF Forgotten, NameSet, ParsetMembers, Offsets
  <2>5. c = LoadParset(b, v, b.par["PARSET"])
    OBVIOUS
  <2> HIDE DEF c, F
  <2>6. /\ Step(b, c, R, N) /\ c.budget = b.budget /\ c.par["FIPPI"] = v
    BY <2>2, <2>5, LoadParsetStep
  <2>7. CASE ~z.ok
    BY <2>1, <2>6, <2>7, CommandOut DEF SetFine
  <2>8. CASE z.ok
    <3>1. PICK y \in ForgetThose(z.m, Names, ParsetMembers) :
              o \in IF y.ok THEN Valued(y.m, v) ELSE {y}
      BY <2>1, <2>8 DEF Then
    <3>2. c.par[Register["fippi"]] = v
      BY <2>6 DEF Register
    <3>3. SetFine(b, o, "fippi", R, N, F)
      BY <2>1, <2>3, <2>4, <2>6, <2>8, <3>1, <3>2, LoadSet
    <3>4. QED BY <3>3 DEF F
  <2>9. QED BY <2>7, <2>8
<1>3. QED BY <1>1, <1>2

-----------------------------------------------------------------------------
(* The clock: the times that are counted in its ticks change with it. *)

ClockTimes == {"energy_gap_time", "trigger_peak_time", "trigger_gap_time", "peak_interval"}

\* No register but that of the clock changes, and no entry but one that is forgotten.
Reclocked(b, c) ==
    /\ c.budget = b.budget
    /\ \A p \in Params \ {"CLOCK"} : c.par[p] = b.par[p]
    /\ \A m \in NameSet : Kept(b, c, m) \/ c.entry[m] # "synced"

\* A command that leaves the clock leaves the board valid; one that fails has spent a fault.
LEMMA CommandBoard ==
  ASSUME NEW b, IsBoard(b), NEW n, SameBoard(b, n), n.budget = b.budget,
         NEW o, o \in Command(b, n)
  PROVE  /\ o.ok \in BOOLEAN /\ SameBoard(b, o.m) /\ Spent(b, o)
         /\ o.ok => o.m = n
<1>1. IsBoard(n)
  BY DEF SameBoard
<1>2. CASE o \in Done(n)
  BY <1>2, DoneIs DEF Spent
<1>3. ASSUME NEW c, SameBoard(b, c), b.budget # 0,
             o \in Refused(WithField(c, "budget", b.budget - 1))
      PROVE  /\ o.ok \in BOOLEAN /\ SameBoard(b, o.m) /\ Spent(b, o)
             /\ o.ok => o.m = n
  <2>1. o.ok = FALSE /\ o.m = WithField(c, "budget", b.budget - 1)
    BY <1>3, RefusedIs
  <2>2. SameBoard(b, o.m) /\ o.m.budget < b.budget
    BY <1>3, <2>1, SpentBoard
  <2>3. o.m.budget # b.budget
    BY <2>2, BoardTypes
  <2>4. QED BY <2>1, <2>2, <2>3 DEF Spent
<1>4. QED BY <1>2, <1>3, BoardSelf DEF Command, WithField

\* The dividers of a clock's speed are those of the register.
LEMMA DividersAre ==
  ASSUME NEW v \in Nat, NEW i \in Dividers(v)
  PROVE  i \in 0..3 /\ v > 0
<1>1. i \in 0..3 /\ Period(i) * Period(i) <= 2 * v * v
  BY DEF Dividers
<1>2. Period(i) \in Nat \ {0}
  BY <1>1, Powers DEF Period
<1>3. CASE v = 0
  <2>1. ASSUME NEW p \in Nat \ {0} PROVE ~(p * p <= 0)
    OBVIOUS
  <2>2. 2 * v * v = 0
    BY <1>3
  <2>3. Period(i) * Period(i) <= 0
    BY <1>1, <2>2
  <2>4. QED BY <1>2, <2>1, <2>3
<1>4. QED BY <1>1, <1>3

\* Setting the clock forgets the times measured in it.
LEMMA ClockSpdSet ==
  ASSUME NEW b, IsBoard(b), NEW v \in Nat, NEW o, o \in UdxpSetClockSpd(b, v)
  PROVE  /\ o.ok \in BOOLEAN /\ SameBoard(b, o.m)
         /\ o.ok => /\ v > 0 /\ o.m.value = v
                    /\ \A m \in ClockTimes : o.m.entry[m] # "synced"
         /\ o.ok \/ o.m.budget = b.budget => Reclocked(b, o.m)
<1> DEFINE ns == <<"energy_gap_time", "trigger_peak_time", "trigger_gap_time",
                   "peak_interval">>
           x == CHOOSE i \in Dividers(v) : TRUE
           S == ToSet(ns)
<1>1. CASE Dividers(v) = {}
  <2>1. o.ok = FALSE /\ o.m = b
    BY <1>1, RefusedIs DEF UdxpSetClockSpd
  <2>2. QED BY <2>1, BoardSelf DEF Reclocked, Kept
<1>2. CASE Dividers(v) # {}
  <2>1. PICK z \in Write(b, "CLOCK", x) :
            o \in IF z.ok THEN Then(ForgetThose(z.m, ns, S), LAMBDA c : Valued(c, v)) ELSE {z}
    BY <1>2 DEF UdxpSetClockSpd, Then, Forget
  <2>2. x \in Dividers(v)
    BY <1>2
  <2>3. S = ClockTimes /\ ns \in Seq(NameSet) /\ "clock_speed" \notin S
    BY NamesAre DEF ToSet, ClockTimes
  <2>4. S \cap ToSet(ns) = ClockTimes
    BY <2>3
  <2> HIDE DEF x, S, ns
  <2>5. x \in 0..3 /\ v > 0
    BY <2>2, DividersAre
  <2> DEFINE n == WithRegister(b, "CLOCK", x)
  <2>6. z \in Command(b, n)
    BY <2>1 DEF Write, WithRegister
  <2>7. n = WithRegister(b, "CLOCK", x)
    OBVIOUS
  <2> HIDE DEF n
  <2>8. "CLOCK" \in Params /\ x \in RegisterValues("CLOCK")
    BY <2>5, ParamsAre DEF RegisterValues
  <2>9. IsBoard(n) /\ n.par = [b.par EXCEPT !["CLOCK"] = x] /\ \A g \in Fields \ {"par"} : n[g] = b[g]
    BY <2>7, <2>8, RegisterSet
  <2>10. /\ n.entry = b.entry /\ n.val = b.val /\ n.budget = b.budget
         /\ n.super = b.super /\ n.vega = b.vega /\ n.switched = b.switched
    BY <2>9 DEF Fields
  <2>11. SameBoard(b, n)
    BY <2>9, <2>10, BoardTypes DEF SameBoard
  <2>12. z.ok \in BOOLEAN /\ SameBoard(b, z.m) /\ Spent(b, z) /\ (z.ok => z.m = n)
    BY <2>6, <2>10, <2>11, CommandBoard
  <2>13. CASE ~z.ok
    BY <2>1, <2>12, <2>13 DEF Spent
  <2>14. CASE z.ok
    <3>1. PICK y \in ForgetThose(z.m, ns, S) : o \in IF y.ok THEN Valued(y.m, v) ELSE {y}
      BY <2>1, <2>14 DEF Then
    <3>2. z.m = n
      BY <2>12, <2>14
    <3>3. /\ Out(n, y, {}, {}) /\ y.m.par = n.par
          /\ y.ok => \A m \in S \cap ToSet(ns) : y.m.entry[m] = "unknown"
          /\ \A m \in NameSet : Kept(n, y.m, m) \/ y.m.entry[m] = "unknown"
      BY <2>3, <2>9, <3>1, <3>2, ForgetThoseOut
    <3>4. IsBoard(y.m) /\ SameBoard(n, y.m)
      BY <3>3 DEF Out, SameBoard
    <3>5. SameBoard(b, y.m)
      BY <2>11, <3>4, BoardThen
    <3>6. /\ \A p \in Params \ {"CLOCK"} : y.m.par[p] = b.par[p]
          /\ \A m \in NameSet : Kept(b, y.m, m) \/ y.m.entry[m] # "synced"
      BY <2>9, <2>10, <3>3, BoardTypes DEF Kept
    <3>7. CASE ~y.ok
      <4>1. o = y /\ y.ok \in BOOLEAN
        BY <3>1, <3>3, <3>7 DEF Out
      <4>2. QED BY <3>5, <3>6, <3>7, <4>1 DEF Reclocked
    <3>8. CASE y.ok
      <4>1. o \in Valued(y.m, v) /\ v \in Int
        BY <3>1, <3>8
      <4>2. /\ Out(y.m, o, {}, {}) /\ o.ok /\ o.m.value = v
            /\ o.m.par = y.m.par /\ o.m.entry = y.m.entry /\ o.m.val = y.m.val
        BY <3>4, <4>1, ValuedOut
      <4>3. SameBoard(y.m, o.m) /\ o.m.budget = y.m.budget /\ y.m.budget = b.budget
        BY <2>10, <3>3, <3>8, <4>2 DEF Out
      <4>4. SameBoard(b, o.m)
        BY <3>5, <4>3, BoardThen
      <4>5. o.ok \in BOOLEAN
        BY <4>2 DEF Out
      <4>6. Reclocked(b, o.m)
        BY <3>6, <4>2, <4>3 DEF Reclocked, Kept
      <4>7. \A m \in ClockTimes : o.m.entry[m] # "synced"
        BY <2>4, <3>3, <3>8, <4>2
      <4>8. QED BY <2>5, <4>2, <4>4, <4>5, <4>6, <4>7
    <3>9. QED BY <3>7, <3>8
  <2>15. QED BY <2>13, <2>14
<1>3. QED BY <1>1, <1>2

-----------------------------------------------------------------------------
(* Every setter but that of the clock. *)

\* The registers each setter writes, name by name.
LEMMA WritesAre ==
  /\ Writes("parset") = FilterParams \cup EnergyParams \cup {"PARSET"}
  /\ Writes("genset") = SpectrumParams \cup EnergyParams \cup {"GENSET"}
  /\ Writes("fippi") = FilterParams \cup EnergyParams \cup {"FIPPI"}
  /\ Writes("energy_gap_time") = {"SLOWGAP", "PEAKINT", "PEAKSAM"}
  /\ \A n \in Offsets : Writes(n) = {"PEAKINT", "PEAKSAM"}
  /\ Writes("trigger_peak_time") = {"FASTLEN", "FASTGAP"}
  /\ Writes("trigger_gap_time") = {"FASTGAP"} /\ Writes("max_width") = {"MAXWIDTH"}
  /\ Writes("peak_interval") = {"PEAKINT"} /\ Writes("peak_sample") = {"PEAKSAM"}
  /\ Writes("baseline_length") = {"BLFILTER"}
  /\ Writes("gain") = {"GAINBASE", "SWGAIN", "DGAINBASE"}
  /\ Writes("preamp_value") = {"RESETINT", "TAURC"}
  /\ Writes("auto_adjust_offset") = {"RUNTASKS"}
  /\ Writes("preset_value") = {"PRESET", "PRESETLEN"}
  /\ Writes("sca0_lo") = {"SCA0LO", "NUMSCA"} /\ Writes("sca1_hi") = {"SCA1HI", "NUMSCA"}
  /\ Writes("gain_trim") = {"GAINTWEAK"} /\ Writes("sca_time_on") = {"SCATIMEON"}
  /\ Writes("sca_time_off") = {"SCATIMEOFF"} /\ Writes("high_voltage") = {"VOLTS"}
  /\ \A n \in Plain : Writes(n) = {Register[n]}
  /\ \A n \in {"baseline_factor", "peaking_time", "bytes_per_bin", "adc_trace_wait"} :
        Writes(n) = {}
<1> USE DEF Writes, Offsets, HalfRegister, Register, ScaParam
<1>1. \A n \in Plain : Writes(n) = {Register[n]}
  BY DEF Plain
<1>2. /\ Writes("parset") = FilterParams \cup EnergyParams \cup {"PARSET"}
      /\ Writes("genset") = SpectrumParams \cup EnergyParams \cup {"GENSET"}
      /\ Writes("fippi") = FilterParams \cup EnergyParams \cup {"FIPPI"}
  OBVIOUS
<1>3. /\ Writes("energy_gap_time") = {"SLOWGAP", "PEAKINT", "PEAKSAM"}
      /\ \A n \in Offsets : Writes(n) = {"PEAKINT", "PEAKSAM"}
      /\ Writes("trigger_peak_time") = {"FASTLEN", "FASTGAP"}
      /\ Writes("trigger_gap_time") = {"FASTGAP"} /\ Writes("max_width") = {"MAXWIDTH"}
      /\ Writes("peak_interval") = {"PEAKINT"} /\ Writes("peak_sample") = {"PEAKSAM"}
      /\ Writes("baseline_length") = {"BLFILTER"}
  OBVIOUS
<1>4. /\ Writes("gain") = {"GAINBASE", "SWGAIN", "DGAINBASE"}
      /\ Writes("preamp_value") = {"RESETINT", "TAURC"}
      /\ Writes("auto_adjust_offset") = {"RUNTASKS"}
      /\ Writes("preset_value") = {"PRESET", "PRESETLEN"}
      /\ Writes("sca0_lo") = {"SCA0LO", "NUMSCA"} /\ Writes("sca1_hi") = {"SCA1HI", "NUMSCA"}
  OBVIOUS
<1>5. /\ Writes("gain_trim") = {"GAINTWEAK"} /\ Writes("sca_time_on") = {"SCATIMEON"}
      /\ Writes("sca_time_off") = {"SCATIMEOFF"} /\ Writes("high_voltage") = {"VOLTS"}
  OBVIOUS
<1>6. \A n \in {"baseline_factor", "peaking_time", "bytes_per_bin", "adc_trace_wait"} :
        Writes(n) = {}
  OBVIOUS
<1>7. QED BY <1>1, <1>2, <1>3, <1>4, <1>5, <1>6

\* Names whose setter forgets nothing and looks after nothing else.
Single == Plain \cup {"trigger_gap_time", "max_width", "baseline_length", "gain",
    "preamp_value", "auto_adjust_offset", "gain_trim", "sca_time_on", "sca_time_off",
    "high_voltage", "baseline_factor", "peaking_time", "bytes_per_bin", "adc_trace_wait"}

\* The entries each setter forgets and reads, name by name.
LEMMA ForgottenAre ==
  /\ \A n \in Single : Forgotten(n) = {} /\ Shared(n) = {}
  /\ \A n \in {"parset", "genset", "fippi", "peak_interval", "peak_sample"} : Shared(n) = {}
  /\ Forgotten("peak_interval") = {"peakint_offset"}
  /\ Forgotten("peak_sample") = {"peaksam_offset"}
  /\ \A n \in Offsets \cup {"energy_gap_time"} :
        Forgotten(n) = {"peak_sample", "peak_interval"} /\ Shared(n) = Offsets
  /\ Forgotten("trigger_peak_time") = {} /\ Shared("trigger_peak_time") = {"trigger_gap_time"}
  /\ Forgotten("preset_value") = {} /\ Shared("preset_value") = {"preset_type"}
  /\ \A n \in {"sca0_lo", "sca1_hi"} : Forgotten(n) = {} /\ Shared(n) = {"number_of_scas"}
<1> USE DEF Forgotten, Shared, Offsets
<1>1. \A n \in Single : Forgotten(n) = {} /\ Shared(n) = {}
  BY DEF Single, Plain
<1>2. \A n \in {"parset", "genset", "fippi", "peak_interval", "peak_sample"} : Shared(n) = {}
  OBVIOUS
<1>3. /\ Forgotten("peak_interval") = {"peakint_offset"}
      /\ Forgotten("peak_sample") = {"peaksam_offset"}
      /\ \A n \in Offsets \cup {"energy_gap_time"} :
            Forgotten(n) = {"peak_sample", "peak_interval"} /\ Shared(n) = Offsets
  OBVIOUS
<1>4. /\ Forgotten("trigger_peak_time") = {} /\ Shared("trigger_peak_time") = {"trigger_gap_time"}
      /\ Forgotten("preset_value") = {} /\ Shared("preset_value") = {"preset_type"}
      /\ \A n \in {"sca0_lo", "sca1_hi"} : Forgotten(n) = {} /\ Shared(n) = {"number_of_scas"}
  OBVIOUS
<1>5. QED BY <1>1, <1>2, <1>3, <1>4

\* No setter but the clock's own writes the clock.
LEMMA ClockStays == ASSUME NEW n \in NameSet PROVE "CLOCK" \notin Writes(n)
<1> USE DEF Writes, FilterParams, EnergyParams, SpectrumParams, Offsets
<1>1. CASE n \in Plain
  <2>1. Register[n] # "CLOCK"
    BY <1>1 DEF Plain, Register
  <2>2. QED BY <1>1, <2>1, WritesAre
<1>2. CASE n \in {"parset", "genset", "fippi", "energy_gap_time", "trigger_peak_time",
                  "trigger_gap_time", "max_width", "peak_interval", "peak_sample",
                  "baseline_length", "gain", "preamp_value", "auto_adjust_offset",
                  "preset_value", "sca0_lo", "sca1_hi", "gain_trim", "sca_time_on",
                  "sca_time_off", "high_voltage"} \cup Offsets
  BY <1>2, WritesAre
<1>3. CASE n \in {"baseline_factor", "peaking_time", "bytes_per_bin", "adc_trace_wait"}
  BY <1>3, WritesAre
<1>4. CASE n = "clock_speed"
  BY <1>4 DEF HalfRegister, Register
<1>5. QED BY <1>1, <1>2, <1>3, <1>4, NamesAre DEF Plain

\* A number that may be asked for.
Asks(n, v) ==
    /\ v \in Int /\ (n \notin Offsets => v \in Nat)
    /\ n = "genset" => v \in {0, 1}
    /\ n = "baseline_length" => v # 0

\* The setters of one register or one value, taken together.
LEMMA SingleSet ==
  ASSUME NEW b, IsBoard(b), NEW n \in Single, NEW v, Asks(n, v), NEW o, o \in SetFN(b, n, v)
  PROVE  SetFine(b, o, n, Writes(n), {}, {})
<1>1. v \in Int /\ v \in Nat /\ (n = "baseline_length" => v \in Nat \ {0})
  BY DEF Asks, Single, Plain, Offsets
<1>2. n \in NameSet /\ "CLOCK" \notin Writes(n)
  BY NamesAre, ClockStays DEF Single, Plain
<1>3. CASE n \in Plain
  BY <1>1, <1>3, PlainSetFN, WritesAre
<1>4. CASE n \in {"trigger_gap_time", "max_width"}
  <2>1. ClockRegister[n] \in Writes(n)
    BY <1>4, WritesAre DEF ClockRegister
  <2>2. QED BY <1>1, <1>2, <1>4, <2>1, TicksSet
<1>5. CASE n \in {"sca_time_on", "sca_time_off", "high_voltage"}
  <2>1. HalfRegister[n] \in Writes(n)
    BY <1>5, WritesAre DEF HalfRegister
  <2>2. QED BY <1>1, <1>5, <2>1, HalfSet
<1>6. CASE n = "baseline_length"
  <2>1. o \in UdxpSetBaseLen(b, v)
    BY <1>6 DEF SetFN
  <2>2. "BLFILTER" \in Writes(n)
    BY <1>6, WritesAre
  <2>3. QED BY <1>1, <1>6, <2>1, <2>2, BaseLenSet
<1>7. CASE n = "gain"
  <2>1. o \in UdxpSetGainbase(b, v)
    BY <1>7 DEF SetFN
  <2>2. {"GAINBASE", "SWGAIN", "DGAINBASE"} \subseteq Writes(n)
    BY <1>7, WritesAre
  <2>3. QED BY <1>1, <1>7, <2>1, <2>2, GainbaseSet
<1>8. CASE n = "preamp_value"
  <2>1. o \in UdxpSetPreampVal(b, v)
    BY <1>8 DEF SetFN
  <2>2. {"RESETINT", "TAURC"} \subseteq Writes(n)
    BY <1>8, WritesAre
  <2>3. QED BY <1>1, <1>2, <1>8, <2>1, <2>2, PreampValSet
<1>9. CASE n = "auto_adjust_offset"
  <2>1. o \in UdxpSetAutoAdjust(b, v)
    BY <1>9 DEF SetFN
  <2>2. "RUNTASKS" \in Writes(n)
    BY <1>9, WritesAre
  <2>3. QED BY <1>1, <1>9, <2>1, <2>2, AutoAdjustSet
<1>10. CASE n = "gain_trim"
  <2>1. o \in UdxpSetGainTrim(b, v)
    BY <1>10 DEF SetFN
  <2>2. "GAINTWEAK" \in Writes(n) /\ Sources("gain") \cap Writes(n) = {}
    BY <1>10, WritesAre, SourcesAre
  <2>3. QED BY <1>1, <1>10, <2>1, <2>2, GainTrimSet
<1>11. CASE n \in {"baseline_factor", "peaking_time"}
  <2>1. o \in Refused(b)
    BY <1>11 DEF SetFN, UdxpSetBFactor, UdxpSetPeakingTime
  <2>2. QED BY <2>1, RefusedSet
<1>12. CASE n = "bytes_per_bin"
  <2>1. o \in UdxpSetBytePerBin(b, v)
    BY <1>12 DEF SetFN
  <2>2. QED BY <1>1, <1>12, <2>1, BytePerBinSet
<1>13. CASE n = "adc_trace_wait"
  <2>1. o \in UdxpCheckTraceWaitRange(b, v)
    BY <1>13 DEF SetFN, UdxpSetADCWait
  <2>2. QED BY <1>1, <1>2, <1>13, <2>1, TraceWaitSet
<1>14. QED
  BY <1>3, <1>4, <1>5, <1>6, <1>7, <1>8, <1>9, <1>10, <1>11, <1>12, <1>13 DEF Single

\* Every setter but the clock's: its name is true, what it forgets is forgotten, the rest is kept.
LEMMA SetFNFine ==
  ASSUME NEW b, IsBoard(b), NEW n \in NameSet \ {"clock_speed"}, NEW v, Asks(n, v),
         NEW o, o \in SetFN(b, n, v)
  PROVE  SetFine(b, o, n, Writes(n), Shared(n), Forgotten(n)) /\ SetHeld(b, o, n, Shared(n))
<1>1. v \in Int /\ (n \notin Offsets => v \in Nat) /\ (n = "genset" => v \in {0, 1})
  BY DEF Asks
<1>2. "CLOCK" \notin Writes(n)
  BY ClockStays
<1>3. Shared(n) = {} => SetHeld(b, o, n, Shared(n))
  BY DEF SetHeld
<1>4. CASE n \in Single
  BY <1>3, <1>4, SingleSet, ForgottenAre
<1>5. CASE n = "parset"
  <2>1. o \in UdxpSetParset(b, v) /\ v \in Nat
    BY <1>1, <1>5 DEF SetFN, Offsets
  <2>2. SetFine(b, o, "parset", Writes(n), {}, Forgotten("parset"))
    BY <1>2, <1>5, <2>1, WritesAre, ParsetSet
  <2>3. QED BY <1>3, <1>5, <2>2, ForgottenAre
<1>6. CASE n = "genset"
  <2>1. o \in UdxpSetGenset(b, v)
    BY <1>6 DEF SetFN
  <2>2. SetFine(b, o, "genset", Writes(n), {}, Forgotten("genset"))
    BY <1>1, <1>2, <1>6, <2>1, WritesAre, GensetSet
  <2>3. QED BY <1>3, <1>6, <2>2, ForgottenAre
<1>7. CASE n = "fippi"
  <2>1. o \in UdxpSetFiPPI(b, v) /\ v \in Nat
    BY <1>1, <1>7 DEF SetFN, Offsets
  <2>2. SetFine(b, o, "fippi", Writes(n), {}, Forgotten("fippi"))
    BY <1>2, <1>7, <2>1, WritesAre, FiPPISet
  <2>3. QED BY <1>3, <1>7, <2>2, ForgottenAre
<1>8. CASE n = "energy_gap_time"
  <2>1. o \in UdxpSetEGapTime(b, v)
    BY <1>8 DEF SetFN
  <2>2. /\ SetFine(b, o, n, Writes(n), Offsets, {"peak_sample", "peak_interval"})
        /\ SetHeld(b, o, n, Offsets)
    BY <1>1, <1>2, <1>8, <2>1, WritesAre, EGapTimeSet
  <2>3. QED BY <1>8, <2>2, ForgottenAre
<1>9. CASE n \in Offsets
  <2>1. o \in IF n = "peakint_offset" THEN UdxpSetPeakIntOffset(b, v)
              ELSE UdxpSetPeakSamOffset(b, v)
    <3>1. CASE n = "peakint_offset"
      BY <3>1 DEF SetFN
    <3>2. CASE n = "peaksam_offset"
      BY <3>2 DEF SetFN
    <3>3. QED BY <1>9, <3>1, <3>2 DEF Offsets
  <2>2. /\ SetFine(b, o, n, Writes(n), Offsets, {"peak_sample", "peak_interval"})
        /\ SetHeld(b, o, n, Offsets)
    <3>1. {"PEAKINT", "PEAKSAM"} \subseteq Writes(n)
      BY <1>9, WritesAre
    <3>2. QED BY <1>1, <1>2, <1>9, <2>1, <3>1, OffsetSet
  <2>3. QED BY <1>9, <2>2, ForgottenAre
<1>10. CASE n = "trigger_peak_time"
  <2>1. o \in UdxpSetTPeakTime(b, v)
    BY <1>10 DEF SetFN
  <2>2. /\ SetFine(b, o, n, Writes(n), {"trigger_gap_time"}, {})
        /\ Held(b, o, {"trigger_gap_time"})
    BY <1>1, <1>2, <1>10, <2>1, WritesAre, TPeakTimeSet
  <2>3. QED BY <1>10, <2>2, HeldSet, ForgottenAre
<1>11. CASE n = "preset_value"
  <2>1. o \in UdxpSetPresetValue(b, v)
    BY <1>11 DEF SetFN
  <2>2. SetFine(b, o, n, Writes(n), {"preset_type"}, {}) /\ Held(b, o, {"preset_type"})
    BY <1>1, <1>11, <2>1, WritesAre, PresetValueSet
  <2>3. QED BY <1>11, <2>2, HeldSet, ForgottenAre
<1>12. CASE n \in {"sca0_lo", "sca1_hi"}
  <2>1. o \in UdxpSetSca(b, ScaParam(n), v)
    <3>1. CASE n = "sca0_lo"
      BY <3>1 DEF SetFN
    <3>2. CASE n = "sca1_hi"
      BY <3>2 DEF SetFN
    <3>3. QED BY <1>12, <3>1, <3>2
  <2>2. {ScaParam(n), "NUMSCA"} \subseteq Writes(n)
    BY <1>12, WritesAre DEF ScaParam
  <2>3. SetFine(b, o, n, Writes(n), {"number_of_scas"}, {}) /\ Held(b, o, {"number_of_scas"})
    BY <1>1, <1>12, <2>1, <2>2, ScaSet
  <2>4. QED BY <1>12, <2>3, HeldSet, ForgottenAre
<1>13. CASE n \in {"peak_interval", "peak_sample"}
  <2> DEFINE p == IF n = "peak_interval" THEN "PEAKINT" ELSE "PEAKSAM"
             m == IF p = "PEAKINT" THEN "peakint_offset" ELSE "peaksam_offset"
  <2>1. o \in IF p = "PEAKINT" THEN UdxpSetPeakInt(b, v) ELSE UdxpSetPeakSam(b, v)
    <3>1. CASE n = "peak_interval"
      BY <3>1 DEF SetFN
    <3>2. CASE n = "peak_sample"
      BY <3>2 DEF SetFN
    <3>3. QED BY <1>13, <3>1, <3>2
  <2>2. /\ p \in {"PEAKINT", "PEAKSAM"} /\ p \in Writes(n) /\ v \in Nat
        /\ n = IF p = "PEAKINT" THEN "peak_interval" ELSE "peak_sample"
        /\ m = IF p = "PEAKINT" THEN "peakint_offset" ELSE "peaksam_offset"
        /\ Forgotten(n) = {m} /\ Shared(n) = {}
    BY <1>1, <1>13, WritesAre, ForgottenAre DEF Offsets
  <2> HIDE DEF p, m
  <2>3. SetFine(b, o, n, Writes(n), {}, {m})
    BY <1>2, <2>1, <2>2, TimerSet
  <2>4. QED BY <1>3, <2>2, <2>3
<1>14. QED
  BY <1>4, <1>5, <1>6, <1>7, <1>8, <1>9, <1>10, <1>11, <1>12, <1>13, NamesAre
     DEF Single, Plain, Offsets

-----------------------------------------------------------------------------
(* What a call leaves true. *)

\* An entry that is true, and not left behind.
Clean(b, L, m) == b.entry[m] = "synced" => m \notin L /\ Agrees(b, m)

\* A call in which no command failed, that ends with a clock that is known: what
\* was true and is not left behind is true.
Coherent(b, o, L, X) ==
    /\ IsBoard(o.m) /\ o.ok \in BOOLEAN /\ o.m.budget <= b.budget
    /\ /\ o.m.budget = b.budget /\ Good(b, "clock_speed") /\ Good(o.m, "clock_speed")
       /\ o.ok \/ o.m.par = b.par
       => \A m \in NameSet : m \in X \/ Clean(b, L, m) => Good(o.m, m)

\* A step of registers that an entry does not tell of, or that forgets it.
LEMMA StepClean ==
  ASSUME NEW b, IsBoard(b), NEW c, NEW R, NEW N, Step(b, c, R, N), Good(b, "clock_speed"),
         NEW m \in NameSet \ N, NEW L, Clean(b, L, m),
         \/ Sources(m) \cap R = {} \/ c.entry[m] # "synced" \/ m \in L \/ c.par = b.par
  PROVE  Good(c, m)
<1>1. SameBoard(b, c) /\ Tells(b, c, m, R) /\ \A p \in Params \ R : c.par[p] = b.par[p]
  BY DEF Step
<1>2. SUFFICES ASSUME c.entry[m] = "synced" PROVE Agrees(c, m)
  BY DEF Good
<1>3. CASE Learned(b, c, m, R)
  BY <1>3 DEF Learned
<1>4. CASE Kept(b, c, m)
  <2>1. b.entry[m] = "synced" /\ m \notin L /\ Agrees(b, m) /\ c.val[m] = b.val[m]
    BY <1>2, <1>4 DEF Kept, Clean
  <2>2. \A p \in Sources(m) : c.par[p] = b.par[p]
    <3>1. CASE c.par = b.par
      BY <3>1
    <3>2. CASE Sources(m) \cap R = {}
      BY <1>1, <3>2, SourcesType
    <3>3. QED BY <1>2, <2>1, <3>1, <3>2
  <2>3. QED BY <1>1, <2>1, <2>2, AgreesStay
<1>5. QED BY <1>1, <1>2, <1>3, <1>4 DEF Tells

\* A clean entry is good.
LEMMA CleanGood == ASSUME NEW b, NEW L, NEW m, Clean(b, L, m) PROVE Good(b, m)
  BY DEF Clean, Good

\* A function all of whose steps are such steps.
LEMMA OutCoherent ==
  ASSUME NEW b, IsBoard(b), NEW o, NEW R, NEW N, Out(b, o, R, N), NEW L, NEW X,
         \A m \in NameSet \ N : \/ Sources(m) \cap R = {} \/ m \in L
                                \/ o.ok => o.m.entry[m] # "synced",
         /\ Good(b, "clock_speed") /\ o.m.budget = b.budget /\ (o.ok \/ o.m.par = b.par)
         => \A m \in N : Clean(b, L, m) => Good(o.m, m),
         /\ Good(o.m, "clock_speed") /\ o.m.budget = b.budget /\ (o.ok \/ o.m.par = b.par)
         => \A m \in X : Good(o.m, m)
  PROVE  Coherent(b, o, L, X)
<1>1. IsBoard(o.m) /\ o.ok \in BOOLEAN /\ o.m.budget <= b.budget
  BY DEF Out, SameBoard
<1>2. ASSUME o.m.budget = b.budget, Good(b, "clock_speed"), Good(o.m, "clock_speed"),
             o.ok \/ o.m.par = b.par, NEW m \in NameSet, m \in X \/ Clean(b, L, m)
      PROVE  Good(o.m, m)
  <2>1. Step(b, o.m, R, N)
    BY <1>2 DEF Out
  <2>2. CASE m \in X
    BY <1>2, <2>2
  <2>3. CASE Clean(b, L, m) /\ m \in N
    BY <1>2, <2>3
  <2>4. CASE Clean(b, L, m) /\ m \notin N
    BY <1>2, <2>1, <2>4, StepClean
  <2>5. QED BY <1>2, <2>2, <2>3, <2>4
<1>3. QED BY <1>1, <1>2 DEF Coherent

\* The entries the code is known to leave behind, call by call.
LEMMA BehindAre ==
  /\ LeftBehind("set", "genset") = {"sca0_lo", "sca1_hi"}
  /\ LeftBehind("set", "runtasks") = {"auto_adjust_offset"}
  /\ LeftBehind("set", "auto_adjust_offset") = {"runtasks"}
  /\ LeftBehind("set", "preset_type") = {"preset_value"}
  /\ LeftBehind("set", "clock_speed") = {"max_width", "peak_sample", "peaking_time",
         "peakint_offset", "peaksam_offset", "preamp_value"}
  /\ LeftBehind("set_preset", "preset_type") = {"preset_type", "preset_value"}
  /\ LeftBehind("download", "fippi") = ParsetMembers \cup {"fippi"}
  BY DEF LeftBehind

\* Where a setter writes, the entries are forgotten, left behind or looked after.
LEMMA WritesForgotten ==
  ASSUME NEW n \in NameSet \ {"clock_speed"}, NEW m \in NameSet \ (Shared(n) \cup {n})
  PROVE  \/ Sources(m) \cap Writes(n) = {}
         \/ m \in Forgotten(n) \/ m \in LeftBehind("set", n)
<1>1. CASE n \in {"parset", "genset", "fippi"}
  <2>1. CASE n = "parset"
    BY <2>1, NamesAre, SourcesAre, WritesAre DEF Forgotten, FilterParams, EnergyParams, Offsets
  <2>2. CASE n = "genset"
    BY <2>2, NamesAre, SourcesAre, WritesAre, BehindAre
       DEF Forgotten, SpectrumParams, EnergyParams, Offsets
  <2>3. CASE n = "fippi"
    <3>1. Forgotten(n) = ParsetMembers
      BY <2>3 DEF Forgotten, Offsets
    <3>2. QED BY <2>3, <3>1, NamesAre, SourcesAre, WritesAre
              DEF ParsetMembers, FilterParams, EnergyParams
  <2>4. QED BY <1>1, <2>1, <2>2, <2>3
<1>2. CASE n \in {"energy_gap_time", "trigger_peak_time", "peak_interval", "peak_sample",
                  "preset_value", "sca0_lo", "sca1_hi"} \cup Offsets
  BY <1>2, NamesAre, SourcesAre, WritesAre, ForgottenAre, OffsetsAre
<1>3. CASE n \in {"trigger_gap_time", "max_width", "baseline_length", "gain", "preamp_value",
                  "auto_adjust_offset", "gain_trim", "sca_time_on", "sca_time_off",
                  "high_voltage"}
  BY <1>3, NamesAre, SourcesAre, WritesAre, BehindAre
<1>4. CASE n \in Plain
  <2>1. Writes(n) = {Register[n]}
    BY <1>4, WritesAre
  <2>2. QED BY <1>4, <2>1, NamesAre, SourcesAre, BehindAre DEF Plain, Register
<1>5. CASE n \in {"baseline_factor", "peaking_time", "bytes_per_bin", "adc_trace_wait"}
  BY <1>5, WritesAre
<1>6. QED BY <1>1, <1>2, <1>3, <1>4, <1>5, NamesAre DEF Plain, Offsets
-----------------------------------------------------------------------------
(* Sets. *)

\* A call that starts from a board with the same registers.
LEMMA CoherentFrom ==
  ASSUME NEW k0, NEW b, NEW o, NEW L, NEW X, Coherent(b, o, L, X),
         b.budget = k0.budget, b.par = k0.par,
         Good(k0, "clock_speed") => Good(b, "clock_speed"),
         \A m \in NameSet : Clean(k0, L, m) => Clean(b, L, m)
  PROVE  Coherent(k0, o, L, X)
  BY DEF Coherent

\* A name that is unknown is entered.
LEMMA EnteredBoard ==
  ASSUME NEW b, IsBoard(b), NEW n \in NameSet, NEW v \in Int, NEW c, c = Entered(b, n, v)
  PROVE  /\ IsBoard(c) /\ c.par = b.par /\ c.budget = b.budget /\ c.entry[n] # "absent"
         /\ Good(b, "clock_speed") => Good(c, "clock_speed")
         /\ \A L : \A m \in NameSet : Clean(b, L, m) => Clean(c, L, m)
<1>1. CASE b.entry[n] # "absent"
  BY <1>1 DEF Entered
<1>2. CASE b.entry[n] = "absent"
  <2> DEFINE e == [b.entry EXCEPT ![n] = "unknown"]
             w == [b.val EXCEPT ![n] = v]
  <2>1. /\ b = [f \in Fields |-> b[f]] /\ b.val \in [NameSet -> Int]
        /\ b.entry \in [NameSet -> States]
    BY BoardTypes
  <2>2. c = WithEntries(b, e, w)
    BY <1>2, <2>1 DEF Entered, WithEntries, Fields
  <2>3. e \in [NameSet -> States] /\ w \in [NameSet -> Int]
    BY <2>1 DEF States
  <2>4. /\ e[n] = "unknown"
        /\ \A m \in NameSet \ {n} : e[m] = b.entry[m] /\ w[m] = b.val[m]
    BY <2>1
  <2> HIDE DEF e, w
  <2>5. "clock_speed" \in NameSet
    BY NamesAre
  <2>6. e["clock_speed"] = "synced" => w["clock_speed"] > 0
    BY <2>4, <2>5 DEF IsBoard
  <2>7. /\ IsBoard(c) /\ c.entry = e /\ c.val = w
        /\ \A g \in Fields \ {"entry", "val"} : c[g] = b[g]
    BY <2>2, <2>3, <2>6, EntriesSet
  <2>8. /\ c.super = b.super /\ c.vega = b.vega /\ c.switched = b.switched
        /\ c.par = b.par /\ c.budget = b.budget
    BY <2>7 DEF Fields
  <2>9. ASSUME NEW m \in NameSet, NEW x PROVE Fits(b, m, x) <=> Fits(c, m, x)
    BY <2>8, SameFit
  <2>10. \A L : \A m \in NameSet : Clean(b, L, m) => Clean(c, L, m)
    BY <2>4, <2>7, <2>9 DEF Clean, Agrees
  <2>11. Good(b, "clock_speed") => Good(c, "clock_speed")
    BY <2>4, <2>5, <2>7, <2>9 DEF Good, Agrees
  <2>12. QED BY <2>4, <2>7, <2>8, <2>10, <2>11
<1>3. QED BY <1>1, <1>2

\* Of the entries but the one that is set.
LEMMA SetOthers ==
  ASSUME NEW b, IsBoard(b), NEW n \in NameSet \ {"clock_speed"}, NEW a,
         SetFine(b, a, n, Writes(n), Shared(n), Forgotten(n)), SetHeld(b, a, n, Shared(n)),
         a.m.budget = b.budget, Good(b, "clock_speed"), a.ok \/ a.m.par = b.par,
         NEW L, L = LeftBehind("set", n),
         NEW m \in NameSet, m = n => ~a.ok, Clean(b, L, m)
  PROVE  Good(a.m, m)
<1>1. Step(b, a.m, Writes(n), Shared(n))
  BY DEF SetFine, Out
<1>2. CASE m \in Shared(n)
  BY <1>2, CleanGood DEF SetHeld
<1>3. CASE m \notin Shared(n)
  <2>1. \/ Sources(m) \cap Writes(n) = {} \/ a.m.entry[m] # "synced" \/ m \in L
        \/ a.m.par = b.par
    <3>1. CASE ~a.ok
      BY <3>1
    <3>2. CASE a.ok /\ m # n
      BY <1>3, <3>2, WritesForgotten DEF SetFine
    <3>3. QED BY <3>1, <3>2
  <2>2. QED BY <1>1, <1>3, <2>1, StepClean
<1>4. QED BY <1>2, <1>3

\* The entry that is set.
EntrySet(a, o, n, x) ==
    /\ o.ok = TRUE /\ IsBoard(o.m) /\ o.m.par = a.par /\ o.m.budget = a.budget
    /\ o.m.entry[n] = "synced" /\ o.m.val[n] = x
    /\ \A m \in NameSet \ {n} : Kept(a, o.m, m)
    /\ \A m \in NameSet : \A y : Fits(a, m, y) <=> Fits(o.m, m, y)

\* Remembering the value that was set, when it succeeded.
LEMMA SetEntry ==
  ASSUME NEW a, IsBoard(a), NEW n \in NameSet, a.entry[n] # "absent", NEW z \in Int,
         n = "clock_speed" => z > 0,
         NEW e \in [NameSet -> States], NEW w \in [NameSet -> Int],
         e[n] = "synced", w[n] = z,
         \A m \in NameSet \ {n} : e[m] = a.entry[m] /\ w[m] = a.val[m],
         NEW c, c = WithEntries(a, e, w), NEW o, o \in Done(c)
  PROVE  EntrySet(a, o, n, z)
<1>2. o.ok = TRUE /\ o.m = c
  BY DoneIs
<1>5. "clock_speed" \in NameSet
  BY NamesAre
<1>6. e["clock_speed"] = "synced" => w["clock_speed"] > 0
  BY <1>5 DEF IsBoard
<1>7. /\ IsBoard(c) /\ c.entry = e /\ c.val = w
      /\ \A g \in Fields \ {"entry", "val"} : c[g] = a[g]
  BY <1>6, EntriesSet
<1>8. /\ c.super = a.super /\ c.vega = a.vega /\ c.switched = a.switched
      /\ c.par = a.par /\ c.budget = a.budget
  BY <1>7 DEF Fields
<1>9. ASSUME NEW m \in NameSet, NEW x PROVE Fits(a, m, x) <=> Fits(c, m, x)
  BY <1>8, SameFit
<1>10. QED BY <1>2, <1>7, <1>8, <1>9 DEF Kept, EntrySet

\* A set through the defaults keeps the cache coherent.
LEMMA SetFromKnown ==
  ASSUME NEW b, IsBoard(b), NEW n \in NameSet \ {"clock_speed"}, b.entry[n] # "absent",
         NEW v, Asks(n, v), NEW o, o \in UdxpSetAcquisitionValues(b, n, v)
  PROVE  Coherent(b, o, LeftBehind("set", n), IF o.ok THEN {n} ELSE {})
<1> DEFINE X == IF o.ok THEN {n} ELSE {}
           L == LeftBehind("set", n)
           E(c) == Done(IF c.entry[n] = "absent" THEN c
                        ELSE [c EXCEPT !.entry[n] = "synced", !.val[n] = c.value])
           outs == SetFN(b, n, v)
<1>1. PICK a \in outs : o \in IF a.ok THEN E(a.m) ELSE {a}
  <2>1. o \in Then(outs, E)
    BY DEF UdxpSetAcquisitionValues
  <2> HIDE DEF outs, E
  <2>2. QED BY <2>1 DEF Then
<1>2. SetFine(b, a, n, Writes(n), Shared(n), Forgotten(n)) /\ SetHeld(b, a, n, Shared(n))
  BY <1>1, SetFNFine
<1>3. /\ SameBoard(b, a.m) /\ IsBoard(a.m) /\ a.ok \in BOOLEAN /\ a.m.budget <= b.budget
      /\ a.m.entry[n] # "absent" /\ a.m.value \in Int
  BY <1>2, BoardTypes DEF SetFine, Out, SameBoard
<1>4. L = LeftBehind("set", n)
  OBVIOUS
<1> HIDE DEF L
<1>5. CASE ~a.ok
  <2>1. o = a /\ X = {}
    BY <1>1, <1>5
  <2>2. ASSUME a.m.budget = b.budget, Good(b, "clock_speed"), a.m.par = b.par,
               NEW m \in NameSet, Clean(b, L, m)
        PROVE  Good(a.m, m)
    BY <1>2, <1>4, <1>5, <2>2, SetOthers
  <2>3. QED BY <1>3, <1>5, <2>1, <2>2 DEF Coherent, L
<1>6. CASE a.ok
  <2> DEFINE e == [a.m.entry EXCEPT ![n] = "synced"]
             w == [a.m.val EXCEPT ![n] = a.m.value]
             c == WithEntries(a.m, e, w)
  <2>1. o \in Done(c)
    <3>1. [a.m EXCEPT !.entry[n] = "synced", !.val[n] = a.m.value] = c
      BY <1>3, BoardTypes DEF WithEntries, Fields
    <3>2. QED BY <1>1, <1>3, <1>6, <3>1
  <2>b. /\ c = WithEntries(a.m, e, w)
        /\ e \in [NameSet -> States] /\ w \in [NameSet -> Int]
        /\ e[n] = "synced" /\ w[n] = a.m.value
        /\ \A m \in NameSet \ {n} : e[m] = a.m.entry[m] /\ w[m] = a.m.val[m]
    BY <1>3, BoardTypes DEF States
  <2> HIDE DEF e, w, c
  <2>a. EntrySet(a.m, o, n, a.m.value)
    BY <1>3, <2>1, <2>b, SetEntry
  <2>2. /\ o.ok = TRUE /\ IsBoard(o.m) /\ o.m.par = a.m.par /\ o.m.budget = a.m.budget
        /\ o.m.entry[n] = "synced" /\ o.m.val[n] = a.m.value
        /\ \A m \in NameSet \ {n} : Kept(a.m, o.m, m)
        /\ \A m \in NameSet : \A x : Fits(a.m, m, x) <=> Fits(o.m, m, x)
    BY <2>a DEF EntrySet
  <2>3. X = {n}
    BY <2>2
  <2>4. ASSUME NEW m \in NameSet \ {n} PROVE Good(a.m, m) <=> Good(o.m, m)
    BY <2>2 DEF Good, Agrees, Kept
  <2>5. "clock_speed" \in NameSet \ {n}
    BY NamesAre
  <2> HIDE DEF X
  <2>6. ASSUME a.m.budget = b.budget, Good(b, "clock_speed"), Good(a.m, "clock_speed"),
               NEW m \in NameSet, m \in X \/ Clean(b, L, m)
        PROVE  Good(o.m, m)
    <3>1. CASE m = n
      <4>1. Fits(a.m, n, a.m.value)
        BY <1>2, <1>6, <2>6 DEF SetFine
      <4>2. QED BY <2>2, <3>1, <4>1 DEF Good, Agrees
    <3>2. CASE m # n
      <4>1. Clean(b, L, m)
        BY <2>3, <2>6, <3>2
      <4>2. Good(a.m, m)
        BY <1>2, <1>4, <1>6, <2>6, <3>2, <4>1, SetOthers
      <4>3. QED BY <2>4, <3>2, <4>2
    <3>3. QED BY <3>1, <3>2
  <2>7. Coherent(b, o, L, X)
    BY <1>3, <2>2, <2>4, <2>5, <2>6 DEF Coherent
  <2>8. QED BY <2>7 DEF L, X
<1>7. QED BY <1>3, <1>5, <1>6

\* The clock: an entry that tells of it is forgotten, left behind, or set.
LEMMA ClockBehind ==
  ASSUME NEW m \in NameSet \ {"clock_speed"}, "CLOCK" \in Sources(m)
  PROVE  m \in ClockTimes \/ m \in LeftBehind("set", "clock_speed")
  BY NamesAre, SourcesAre, BehindAre DEF ClockTimes

\* So does a set of the clock.
LEMMA ClockFromKnown ==
  ASSUME NEW b, IsBoard(b), NEW n, n = "clock_speed", b.entry[n] # "absent",
         NEW v \in Nat, NEW o, o \in UdxpSetAcquisitionValues(b, n, v)
  PROVE  Coherent(b, o, LeftBehind("set", n), IF o.ok THEN {n} ELSE {})
<1> DEFINE X == IF o.ok THEN {n} ELSE {}
           L == LeftBehind("set", n)
           E(c) == Done(IF c.entry[n] = "absent" THEN c
                        ELSE [c EXCEPT !.entry[n] = "synced", !.val[n] = c.value])
           outs == SetFN(b, n, v)
<1>0. n \in NameSet
  BY NamesAre
<1>1. PICK a \in outs : o \in IF a.ok THEN E(a.m) ELSE {a}
  <2>1. o \in Then(outs, E)
    BY DEF UdxpSetAcquisitionValues
  <2> HIDE DEF outs, E
  <2>2. QED BY <2>1 DEF Then
<1>a. a \in UdxpSetClockSpd(b, v)
  BY DEF SetFN
<1>2. /\ a.ok \in BOOLEAN /\ SameBoard(b, a.m)
      /\ a.ok => /\ v > 0 /\ a.m.value = v
                 /\ \A m \in ClockTimes : a.m.entry[m] # "synced"
      /\ a.ok \/ a.m.budget = b.budget => Reclocked(b, a.m)
  BY <1>a, ClockSpdSet
<1>3. /\ IsBoard(a.m) /\ a.m.budget <= b.budget
      /\ a.m.entry[n] # "absent" /\ a.m.value \in Int
  BY <1>0, <1>2, BoardTypes DEF SameBoard
<1>4. L = LeftBehind("set", n)
  OBVIOUS
<1> HIDE DEF L
<1>5. ASSUME a.m.budget = b.budget, a.ok \/ a.m.par = b.par,
             NEW m \in NameSet, m = n => ~a.ok, Clean(b, L, m)
      PROVE  Good(a.m, m)
  <2>1. SUFFICES ASSUME a.m.entry[m] = "synced" PROVE Agrees(a.m, m)
    BY DEF Good
  <2>2. Kept(b, a.m, m) /\ \A p \in Params \ {"CLOCK"} : a.m.par[p] = b.par[p]
    BY <1>2, <1>5, <2>1 DEF Reclocked
  <2>3. b.entry[m] = "synced" /\ m \notin L /\ Agrees(b, m) /\ a.m.val[m] = b.val[m]
    BY <1>5, <2>1, <2>2 DEF Clean, Kept
  <2>4. \A p \in Sources(m) : a.m.par[p] = b.par[p]
    <3>1. CASE a.m.par = b.par
      BY <3>1
    <3>2. CASE a.ok
      <4>1. "CLOCK" \notin Sources(m)
        BY <1>2, <1>4, <1>5, <2>1, <2>3, <3>2, ClockBehind
      <4>2. QED BY <2>2, <4>1, SourcesType
    <3>3. QED BY <1>5, <3>1, <3>2
  <2>5. QED BY <1>2, <2>3, <2>4, AgreesStay
<1>6. CASE ~a.ok
  <2>1. o = a /\ X = {}
    BY <1>1, <1>6
  <2>2. QED BY <1>2, <1>3, <1>5, <1>6, <2>1 DEF Coherent, L
<1>7. CASE a.ok
  <2> DEFINE e == [a.m.entry EXCEPT ![n] = "synced"]
             w == [a.m.val EXCEPT ![n] = a.m.value]
             c == WithEntries(a.m, e, w)
  <2>1. o \in Done(c)
    <3>1. [a.m EXCEPT !.entry[n] = "synced", !.val[n] = a.m.value] = c
      BY <1>3, BoardTypes DEF WithEntries, Fields
    <3>2. QED BY <1>1, <1>3, <1>7, <3>1
  <2>b. /\ c = WithEntries(a.m, e, w)
        /\ e \in [NameSet -> States] /\ w \in [NameSet -> Int]
        /\ e[n] = "synced" /\ w[n] = a.m.value
        /\ \A m \in NameSet \ {n} : e[m] = a.m.entry[m] /\ w[m] = a.m.val[m]
    BY <1>0, <1>3, BoardTypes DEF States
  <2> HIDE DEF e, w, c
  <2>a. EntrySet(a.m, o, n, a.m.value)
    BY <1>0, <1>2, <1>3, <1>7, <2>1, <2>b, SetEntry
  <2>2. /\ o.ok = TRUE /\ IsBoard(o.m) /\ o.m.par = a.m.par /\ o.m.budget = a.m.budget
        /\ o.m.entry[n] = "synced" /\ o.m.val[n] = a.m.value
        /\ \A m \in NameSet \ {n} : Kept(a.m, o.m, m)
        /\ \A m \in NameSet : \A x : Fits(a.m, m, x) <=> Fits(o.m, m, x)
    BY <2>a DEF EntrySet
  <2>3. X = {n}
    BY <2>2
  <2> HIDE DEF X
  <2>4. ASSUME NEW m \in NameSet \ {n} PROVE Good(a.m, m) <=> Good(o.m, m)
    BY <2>2 DEF Good, Agrees, Kept
  <2>5. ASSUME o.m.budget = b.budget, Good(o.m, "clock_speed"),
               NEW m \in NameSet, m \in X \/ Clean(b, L, m)
        PROVE  Good(o.m, m)
    <3>1. CASE m = n
      BY <2>5, <3>1
    <3>2. CASE m # n
      <4>1. Clean(b, L, m)
        BY <2>3, <2>5, <3>2
      <4>2. Good(a.m, m)
        BY <1>5, <1>7, <2>2, <2>5, <3>2, <4>1
      <4>3. QED BY <2>4, <3>2, <4>2
    <3>3. QED BY <3>1, <3>2
  <2>6. Coherent(b, o, L, X)
    BY <1>3, <2>2, <2>5 DEF Coherent
  <2>7. QED BY <2>6 DEF L, X
<1>8. QED BY <1>2, <1>6, <1>7

\* A set.
LEMMA SetCoherent ==
  ASSUME NEW b, IsBoard(b), NEW n \in NameSet, NEW v, Asks(n, v),
         NEW o, o \in UdxpSetAcquisitionValues(Entered(b, n, v), n, v)
  PROVE  Coherent(b, o, LeftBehind("set", n), IF o.ok THEN {n} ELSE {})
<1> DEFINE c == Entered(b, n, v)
           L == LeftBehind("set", n)
           X == IF o.ok THEN {n} ELSE {}
<1>1. v \in Int /\ o \in UdxpSetAcquisitionValues(c, n, v) /\ c = Entered(b, n, v)
  BY DEF Asks
<1> HIDE DEF c
<1>2. /\ IsBoard(c) /\ c.par = b.par /\ c.budget = b.budget /\ c.entry[n] # "absent"
      /\ Good(b, "clock_speed") => Good(c, "clock_speed")
      /\ \A J : \A m \in NameSet : Clean(b, J, m) => Clean(c, J, m)
  BY <1>1, EnteredBoard
<1>3. Coherent(c, o, L, X)
  <2>1. CASE n = "clock_speed"
    <3>1. v \in Nat
      BY <2>1 DEF Asks, Offsets
    <3>2. QED BY <1>1, <1>2, <2>1, <3>1, ClockFromKnown
  <2>2. CASE n # "clock_speed"
    BY <1>1, <1>2, <2>2, SetFromKnown
  <2>3. QED BY <2>1, <2>2
<1> HIDE DEF L, X
<1>4. Coherent(b, o, L, X)
  BY <1>2, <1>3, CoherentFrom
<1>5. QED BY <1>4 DEF L, X

-----------------------------------------------------------------------------
(* What is removed, saved, downloaded, and set past the cache. *)

\* An entry that is removed is no longer remembered.
LEMMA RemoveCoherent ==
  ASSUME NEW b, IsBoard(b), NEW n \in NameSet,
         NEW o, o \in Done([b EXCEPT !.entry[n] = "absent"]), NEW L
  PROVE  Coherent(b, o, L, {})
<1> DEFINE e == [b.entry EXCEPT ![n] = "absent"]
           w == b.val
           c == WithEntries(b, e, w)
<1>1. /\ b = [f \in Fields |-> b[f]] /\ b.val \in [NameSet -> Int]
      /\ b.entry \in [NameSet -> States]
  BY BoardTypes
<1>2. o \in Done(c)
  <2>1. [b EXCEPT !.entry[n] = "absent"] = c
    BY <1>1 DEF WithEntries, Fields
  <2>2. QED BY <2>1
<1>3. /\ c = WithEntries(b, e, w) /\ w = b.val
      /\ e \in [NameSet -> States] /\ w \in [NameSet -> Int]
      /\ \A m \in NameSet : e[m] = b.entry[m] \/ e[m] # "synced"
  BY <1>1 DEF States
<1> HIDE DEF e, w, c
<1>4. "clock_speed" \in NameSet
  BY NamesAre
<1>5. e["clock_speed"] = "synced" => w["clock_speed"] > 0
  BY <1>3, <1>4 DEF IsBoard
<1>6. /\ IsBoard(c) /\ c.entry = e /\ c.val = w
      /\ \A g \in Fields \ {"entry", "val"} : c[g] = b[g]
  BY <1>3, <1>5, EntriesSet
<1>7. /\ c.super = b.super /\ c.vega = b.vega /\ c.switched = b.switched
      /\ c.par = b.par /\ c.budget = b.budget
  BY <1>6 DEF Fields
<1>8. ASSUME NEW m \in NameSet, NEW x PROVE Fits(b, m, x) <=> Fits(c, m, x)
  BY <1>7, SameFit
<1>9. \A m \in NameSet : Clean(b, L, m) => Good(c, m)
  BY <1>3, <1>6, <1>8 DEF Clean, Good, Agrees
<1>10. o.ok = TRUE /\ o.m = c
  BY <1>2, DoneIs
<1>11. c.budget <= b.budget
  BY <1>7, BoardTypes
<1>12. QED BY <1>6, <1>9, <1>10, <1>11 DEF Coherent

\* The flash memory takes over the registers.
LEMMA SavedStep ==
  ASSUME NEW b, IsBoard(b), NEW f \in {"parsets", "gensets"}, NEW g,
         NEW c, c = WithField(b, f, g),
         f = "parsets" =>
             /\ g = [x \in {0, 1} \X {0, 1} |-> g[x]]
             /\ \A x \in {0, 1} \X {0, 1} : \A p \in ParsetParams(b) : g[x][p] \in RegisterValues(p),
         f = "gensets" =>
             /\ g = [x \in {0, 1} |-> g[x]]
             /\ \A x \in {0, 1} : \A p \in GensetParams(b) : g[x][p] \in RegisterValues(p),
         NEW R, NEW N
  PROVE  Step(b, c, R, N) /\ c.budget = b.budget
<1>1. b = [h \in Fields |-> b[h]] /\ f \in Fields
  BY BoardTypes DEF Fields
<1>2. /\ c = [h \in Fields |-> c[h]] /\ c[f] = g
      /\ \A h \in Fields \ {f} : c[h] = b[h]
  BY <1>1, FieldSet
<1>3. /\ c.par = b.par /\ c.super = b.super /\ c.vega = b.vega /\ c.switched = b.switched
      /\ c.entry = b.entry /\ c.val = b.val /\ c.value = b.value /\ c.budget = b.budget
  BY <1>2 DEF Fields
<1>4. ParsetParams(c) = ParsetParams(b) /\ GensetParams(c) = GensetParams(b)
  BY <1>3 DEF ParsetParams, GensetParams
<1>5. /\ c.parsets = [x \in {0, 1} \X {0, 1} |-> c.parsets[x]]
      /\ \A x \in {0, 1} \X {0, 1} : \A p \in ParsetParams(c) :
            c.parsets[x][p] \in RegisterValues(p)
  <2>1. CASE f = "parsets"
    BY <1>2, <1>4, <2>1
  <2>2. CASE f # "parsets"
    <3>1. c.parsets = b.parsets
      BY <1>2, <2>2 DEF Fields
    <3>2. QED BY <1>4, <3>1 DEF IsBoard
  <2>3. QED BY <2>1, <2>2
<1>6. /\ c.gensets = [x \in {0, 1} |-> c.gensets[x]]
      /\ \A x \in {0, 1} : \A p \in GensetParams(c) : c.gensets[x][p] \in RegisterValues(p)
  <2>1. CASE f = "gensets"
    BY <1>2, <1>4, <2>1
  <2>2. CASE f # "gensets"
    <3>1. c.gensets = b.gensets
      BY <1>2, <2>2 DEF Fields
    <3>2. QED BY <1>4, <3>1 DEF IsBoard
  <2>3. QED BY <2>1, <2>2
<1>7. IsBoard(c)
  BY <1>2, <1>3, <1>5, <1>6 DEF IsBoard
<1>8. SameBoard(b, c)
  BY <1>3, <1>7, BoardTypes DEF SameBoard
<1>9. Step(b, c, R, N)
  BY <1>3, <1>8 DEF Step, SameClock, Good, Tells, Kept
<1>10. QED BY <1>3, <1>9

\* Saving a parameter set touches the flash only.
LEMMA SaveParsetCoherent ==
  ASSUME NEW b, IsBoard(b), NEW s \in {0, 1}, NEW o, o \in UdxpSaveParset(b, s), NEW L
  PROVE  Coherent(b, o, L, {})
<1> DEFINE h == [p \in ParsetParams(b) |-> b.par[p]]
           i == <<b.par["FIPPI"], s>>
           g == [b.parsets EXCEPT ![i] = h]
           c == WithField(b, "parsets", g)
<1>1. b = [f \in Fields |-> b[f]] /\ b.par \in [Params -> Int]
  BY BoardTypes
<1>2. o \in Command(b, c)
  <2>1. [b EXCEPT !.parsets[i] = h] = c
    BY <1>1 DEF WithField, Fields
  <2>2. QED BY <2>1 DEF UdxpSaveParset, UdxpGetNumPtPerFiPPI
<1>3. i \in {0, 1} \X {0, 1}
  <2>1. b.par["FIPPI"] \in RegisterValues("FIPPI")
    BY ParamsAre DEF IsBoard
  <2>2. QED BY <2>1 DEF RegisterValues
<1>4. \A p \in ParsetParams(b) : h[p] \in RegisterValues(p)
  <2>1. ParsetParams(b) \subseteq Params
    BY DEF ParsetParams, Params
  <2>2. \A p \in Params : b.par[p] \in RegisterValues(p)
    BY DEF IsBoard
  <2>3. QED BY <2>1, <2>2
<1>5. /\ b.parsets = [x \in {0, 1} \X {0, 1} |-> b.parsets[x]]
      /\ \A x \in {0, 1} \X {0, 1} : \A p \in ParsetParams(b) :
            b.parsets[x][p] \in RegisterValues(p)
  BY DEF IsBoard
<1>6. c = WithField(b, "parsets", g) /\ g = [b.parsets EXCEPT ![i] = h]
  OBVIOUS
<1> HIDE DEF h, i, c, g
<1>7. /\ g = [x \in {0, 1} \X {0, 1} |-> g[x]] /\ g[i] = h
      /\ \A x \in ({0, 1} \X {0, 1}) \ {i} : g[x] = b.parsets[x]
  BY <1>3, <1>5, <1>6
<1>8. \A x \in {0, 1} \X {0, 1} : \A p \in ParsetParams(b) : g[x][p] \in RegisterValues(p)
  BY <1>4, <1>5, <1>7
<1>9. Step(b, c, {}, {}) /\ c.budget = b.budget
  <2>1. "parsets" # "gensets" /\ c = WithField(b, "parsets", g)
    BY <1>6
  <2>2. g = [x \in {0, 1} \X {0, 1} |-> g[x]]
    BY <1>7
  <2>3. QED BY <1>8, <2>1, <2>2, SavedStep
<1>10. Out(b, o, {}, {})
  BY <1>2, <1>9, CommandOut
<1>11. QED BY <1>10, OutCoherent

\* Saving a general set touches the flash only.
LEMMA SaveGensetCoherent ==
  ASSUME NEW b, IsBoard(b), NEW s \in {0, 1}, NEW o, o \in UdxpSaveGenset(b, s), NEW L
  PROVE  Coherent(b, o, L, {})
<1> DEFINE h == [p \in GensetParams(b) |-> b.par[p]]
           g == [b.gensets EXCEPT ![s] = h]
           c == WithField(b, "gensets", g)
<1>1. b = [f \in Fields |-> b[f]] /\ b.par \in [Params -> Int]
  BY BoardTypes
<1>2. o \in Command(b, c)
  <2>1. [b EXCEPT !.gensets[s] = h] = c
    BY <1>1 DEF WithField, Fields
  <2>2. QED BY <2>1 DEF UdxpSaveGenset
<1>4. \A p \in GensetParams(b) : h[p] \in RegisterValues(p)
  <2>1. GensetParams(b) \subseteq Params
    BY DEF GensetParams, Params
  <2>2. \A p \in Params : b.par[p] \in RegisterValues(p)
    BY DEF IsBoard
  <2>3. QED BY <2>1, <2>2
<1>5. /\ b.gensets = [x \in {0, 1} |-> b.gensets[x]]
      /\ \A x \in {0, 1} : \A p \in GensetParams(b) : b.gensets[x][p] \in RegisterValues(p)
  BY DEF IsBoard
<1>6. c = WithField(b, "gensets", g) /\ g = [b.gensets EXCEPT ![s] = h]
  OBVIOUS
<1> HIDE DEF h, c, g
<1>7. /\ g = [x \in {0, 1} |-> g[x]] /\ g[s] = h
      /\ \A x \in {0, 1} \ {s} : g[x] = b.gensets[x]
  BY <1>5, <1>6
<1>8. \A x \in {0, 1} : \A p \in GensetParams(b) : g[x][p] \in RegisterValues(p)
  BY <1>4, <1>5, <1>7
<1>9. Step(b, c, {}, {}) /\ c.budget = b.budget
  <2>1. "parsets" # "gensets" /\ c = WithField(b, "gensets", g)
    BY <1>6
  <2>2. g = [x \in {0, 1} |-> g[x]]
    BY <1>7
  <2>3. QED BY <1>8, <2>1, <2>2, SavedStep
<1>10. Out(b, o, {}, {})
  BY <1>2, <1>9, CommandOut
<1>11. QED BY <1>10, OutCoherent

\* A download forgets nothing: the entries of a parset are left behind.
LEMMA DownloadCoherent ==
  ASSUME NEW b, IsBoard(b), NEW f \in {0, 1}, NEW o, o \in UdxpDownloadFirmware(b, f),
         NEW L, L = LeftBehind("download", "fippi")
  PROVE  Coherent(b, o, L, {})
<1> DEFINE R == FilterParams \cup EnergyParams \cup {"FIPPI"}
<1>1. \A m \in NameSet : Sources(m) \cap R = {} \/ m \in L
  BY NamesAre, SourcesAre, BehindAre DEF ParsetMembers, FilterParams, EnergyParams
<1>2. "CLOCK" \notin R /\ "FIPPI" \in R /\ FilterParams \cup EnergyParams \subseteq R
  BY DEF FilterParams, EnergyParams
<1> HIDE DEF R
<1>3. Out(b, o, R, {})
  <2>1. CASE b.super
    BY <2>1, RefusedAtOnce DEF UdxpDownloadFirmware
  <2>2. CASE ~b.super
    <3> DEFINE s == b.par["PARSET"]
               c == LoadParset(b, f, s)
    <3>1. o \in Command(b, c) /\ c = LoadParset(b, f, s) /\ s = b.par["PARSET"]
      BY <2>2 DEF UdxpDownloadFirmware
    <3>2. s \in {0, 1}
      <4>1. b.par["PARSET"] \in RegisterValues("PARSET")
        BY ParamsAre DEF IsBoard
      <4>2. QED BY <4>1 DEF RegisterValues
    <3> HIDE DEF s, c
    <3>3. Step(b, c, R, {}) /\ c.budget = b.budget
      BY <1>2, <3>1, <3>2, LoadParsetStep
    <3>4. QED BY <3>1, <3>3, CommandOut
  <2>3. QED BY <2>1, <2>2
<1>4. QED BY <1>1, <1>3, OutCoherent

-----------------------------------------------------------------------------
(* Gets. *)

\* The number of SCAs, which a get may correct.
LEMMA NumScasCoherent ==
  ASSUME NEW b, IsBoard(b), NEW o, o \in NumScas(b), NEW L
  PROVE  Coherent(b, o, L, {})
<1> DEFINE n == "number_of_scas"
           R == {"NUMSCA"}
           N == {"number_of_scas"}
<1>1. \A m \in NameSet \ N : Sources(m) \cap R = {}
  BY NamesAre, SourcesAre
<1>2. n \in NameSet /\ n \in N /\ N = {n}
  BY NamesAre
<1>3. "NUMSCA" \in R /\ "number_of_scas" \in N
  OBVIOUS
<1> HIDE DEF R, N
<1>4. Out(b, o, R, N) /\ Acquired(b, o, n) /\ Spent(b, o)
  BY <1>3, NumScasOut, NumScasSpent
<1>5. ASSUME Good(b, "clock_speed"), o.m.budget = b.budget, NEW m \in N, Clean(b, L, m)
      PROVE  Good(o.m, m)
  <2>1. m = n /\ o.ok /\ Good(b, n)
    BY <1>2, <1>4, <1>5, CleanGood DEF Spent
  <2>2. QED BY <1>2, <1>4, <1>5, <2>1, AcquiredGood
<1>6. QED BY <1>1, <1>4, <1>5, OutCoherent

\* A limit, before which the number of SCAs is asked for.
LEMMA ScaCoherent ==
  ASSUME NEW b, IsBoard(b), NEW n \in {"sca0_lo", "sca1_hi"},
         NEW o, o \in UdxpGetAcquisitionValues(b, n, UdxpGetSca(b, ScaParam(n))), NEW L
  PROVE  Coherent(b, o, L, {})
<1> DEFINE q == "number_of_scas"
           R == {"NUMSCA"}
           N == {"number_of_scas"}
           outs == UdxpGetSca(b, ScaParam(n))
           F(c) == Done(IF c.entry[n] = "absent" THEN c
                        ELSE [c EXCEPT !.entry[n] = "synced", !.val[n] = c.got])
<1>1. \A m \in NameSet \ N : Sources(m) \cap R = {}
  BY NamesAre, SourcesAre
<1>2. q \in NameSet /\ N = {q} /\ n \in NameSet /\ n # q /\ n # "clock_speed" /\ n \notin N
  BY NamesAre
<1>3. "NUMSCA" \in R /\ "number_of_scas" \in N
  OBVIOUS
<1>4. ScaParam(n) \in Params
  BY ParamsAre DEF ScaParam
<1> HIDE DEF R, N
<1>5. \A z \in outs : GetFine(b, z, n, R, N)
  BY <1>3, ScaGet
<1>6. \A z \in outs : Good(b, "clock_speed") /\ z.m.budget = b.budget /\ Good(b, q) =>
          Good(z.m, q)
  BY <1>3, <1>4, ScaHeld
<1>7. o \in UdxpGetAcquisitionValues(b, n, outs)
  OBVIOUS
<1> HIDE DEF outs
<1>8. Out(b, o, R, N)
  BY <1>1, <1>2, <1>5, <1>7, AcquireOut
<1>9. ASSUME Good(b, "clock_speed"), o.m.budget = b.budget, Good(b, q)
      PROVE  Good(o.m, q)
  <2>1. CASE b.entry[n] = "synced"
    <3> DEFINE c == WithField(b, "got", b.val[n])
    <3>1. o \in Done(c) /\ c = WithField(b, "got", b.val[n])
      BY <1>7, <2>1 DEF UdxpGetAcquisitionValues, WithField
    <3> HIDE DEF c
    <3>2. o.m.par = b.par /\ Kept(b, o.m, q)
      BY <3>1, GotOut DEF Kept
    <3>3. SameBoard(b, o.m)
      BY <1>8 DEF Out
    <3>4. QED BY <1>2, <1>9, <3>2, <3>3, GoodKept
  <2>2. CASE b.entry[n] # "synced"
    <3>1. PICK z \in outs : o \in IF z.ok THEN F(z.m) ELSE {z}
      <4>1. o \in Then(outs, F)
        BY <1>7, <2>2 DEF UdxpGetAcquisitionValues
      <4> HIDE DEF F
      <4>2. QED BY <4>1 DEF Then
    <3>2. GetFine(b, z, n, R, N)
      BY <1>5
    <3>3. CASE ~z.ok
      <4>1. o = z
        BY <3>1, <3>3
      <4>2. QED BY <1>6, <1>9, <4>1
    <3>4. CASE z.ok
      <4>1. z.m.budget = b.budget /\ IsBoard(z.m) /\ z.m.got \in Int
        BY <3>2, <3>4 DEF GetFine, Out, SameBoard
      <4>2. Good(z.m, q)
        BY <1>6, <1>9, <4>1
      <4>3. CASE z.m.entry[n] = "absent"
        <5>1. o.m = z.m
          BY <3>1, <3>4, <4>3, DoneIs
        <5>2. QED BY <4>2, <5>1
      <4>4. CASE z.m.entry[n] # "absent"
        <5> DEFINE x == z.m.got
                   e == [z.m.entry EXCEPT ![n] = "synced"]
                   w == [z.m.val EXCEPT ![n] = x]
                   c == WithEntries(z.m, e, w)
        <5>1. o \in Done(c)
          <6>1. [z.m EXCEPT !.entry[n] = "synced", !.val[n] = z.m.got] = c
            BY <4>1, BoardTypes DEF WithEntries, Fields
          <6>2. QED BY <3>1, <3>4, <4>4, <6>1
        <5>2. /\ c = WithEntries(z.m, e, w) /\ x \in Int
              /\ e \in [NameSet -> States] /\ w \in [NameSet -> Int]
              /\ e[n] = "synced" /\ w[n] = x
              /\ \A m \in NameSet \ {n} : e[m] = z.m.entry[m] /\ w[m] = z.m.val[m]
          BY <1>2, <4>1, BoardTypes DEF States
        <5> HIDE DEF e, w, c, x
        <5>3. EntrySet(z.m, o, n, x)
          BY <1>2, <4>1, <4>4, <5>1, <5>2, SetEntry
        <5>4. QED BY <1>2, <4>2, <5>3 DEF EntrySet, Good, Agrees, Kept
      <4>5. QED BY <4>3, <4>4
    <3>5. QED BY <3>3, <3>4
  <2>3. QED BY <2>1, <2>2
<1>10. ASSUME Good(b, "clock_speed"), o.m.budget = b.budget, NEW m \in N, Clean(b, L, m)
       PROVE  Good(o.m, m)
  BY <1>2, <1>9, <1>10, CleanGood
<1>11. QED BY <1>1, <1>8, <1>10, OutCoherent

\* A get.
LEMMA GetCoherent ==
  ASSUME NEW b, IsBoard(b), b.got \in Int, NEW n \in NameSet,
         NEW o, o \in UdxpGetAcquisitionValues(b, n, GetFN(b, n)), NEW L
  PROVE  Coherent(b, o, L, {})
<1>1. CASE n = "number_of_scas"
  <2>1. GetFN(b, n) = UdxpGetNumScas(b)
    BY <1>1 DEF GetFN
  <2>2. o \in NumScas(b)
    BY <1>1, <2>1 DEF NumScas
  <2>3. QED BY <2>2, NumScasCoherent
<1>2. CASE n \in {"sca0_lo", "sca1_hi"}
  <2>1. GetFN(b, n) = UdxpGetSca(b, ScaParam(n))
    <3>1. CASE n = "sca0_lo"
      BY <3>1 DEF GetFN
    <3>2. CASE n = "sca1_hi"
      BY <3>2 DEF GetFN
    <3>3. QED BY <1>2, <3>1, <3>2
  <2>2. QED BY <1>2, <2>1, ScaCoherent
<1>3. CASE n \notin {"number_of_scas", "sca0_lo", "sca1_hi"}
  <2> DEFINE outs == GetFN(b, n)
             R == {}
             N == {}
  <2>1. n = "clock_speed" =>
            \A z \in outs : z.ok => /\ z.m.got > 0 /\ Fits(z.m, n, z.m.got)
                                    /\ z.m.entry = b.entry
    <3>1. ASSUME n = "clock_speed", NEW z \in outs, z.ok
          PROVE  z.m.got > 0 /\ Fits(z.m, n, z.m.got) /\ z.m.entry = b.entry
      <4>1. z \in UdxpGetClockSpd(b)
        BY <3>1 DEF GetFN
      <4>2. QED BY <3>1, <4>1, ClockSpdOut DEF Same
    <3>2. QED BY <3>1
  <2>2. \A z \in outs : GetFine(b, z, n, R, N)
    BY <1>3, GetFNFine
  <2>3. o \in UdxpGetAcquisitionValues(b, n, outs) /\ Sources(n) \cap R = {}
    OBVIOUS
  <2>4. \A m \in NameSet \ N : Sources(m) \cap R = {}
    OBVIOUS
  <2>5. N = {}
    OBVIOUS
  <2> HIDE DEF outs, R, N
  <2>6. Out(b, o, R, N)
    BY <2>1, <2>2, <2>3, AcquireOut
  <2>7. QED BY <2>4, <2>5, <2>6, OutCoherent
<1>4. QED BY <1>1, <1>2, <1>3

-----------------------------------------------------------------------------
(* The board operation that sets a preset past the cache. *)

\* A preset writes its two registers and leaves behind what LeftBehind names.
LEMMA SetPresetCoherent ==
  ASSUME NEW b, IsBoard(b), NEW t \in Int, NEW v \in Int, NEW o, o \in UdxpSetPreset(b, t, v),
         NEW L, L = LeftBehind("set_preset", "preset_type")
  PROVE  Coherent(b, o, L, {})
<1> DEFINE n == "preset_type"
           R == {"PRESET", "PRESETLEN"}
           N == {"preset_type"}
           E == {}
           outs == UdxpSetPresetType(b, t)
<1>1. \A m \in NameSet : Sources(m) \cap R = {} \/ m \in L
  BY NamesAre, SourcesAre, BehindAre
<1>2. n \in NameSet /\ N = {n} /\ n \in L /\ Sources(n) \cap R # {} /\ E = {}
  BY NamesAre, SourcesAre, BehindAre
<1>3. n \in Plain /\ Register[n] \in R /\ outs = SetFN(b, n, t) /\ R = {"PRESET", "PRESETLEN"}
  BY DEF Plain, Register, SetFN
<1>4. PICK z \in outs : o \in IF z.ok THEN UdxpSetPresetValue(z.m, v) ELSE {z}
  <2> DEFINE F(a) == UdxpSetPresetValue(a, v)
  <2>1. o \in Then(outs, F)
    BY DEF UdxpSetPreset
  <2> HIDE DEF outs, F
  <2>2. PICK z \in outs : o \in IF z.ok THEN F(z.m) ELSE {z}
    BY <2>1 DEF Then
  <2>3. QED BY <2>2 DEF F
<1> HIDE DEF R, N, E, outs
<1>5. Out(b, z, R, E) /\ Out(b, z, R, N)
  <2>1. SetFine(b, z, n, R, E, {}) /\ SetFine(b, z, n, R, N, {})
    BY <1>3, <1>4, PlainSetFN
  <2>2. QED BY <2>1 DEF SetFine
<1>6. CASE ~z.ok
  <2>1. o = z
    BY <1>4, <1>6
  <2>2. QED BY <1>1, <1>2, <1>5, <2>1, OutCoherent
<1>7. CASE z.ok
  <2>1. o \in UdxpSetPresetValue(z.m, v) /\ IsBoard(z.m) /\ z.m.budget = b.budget
    BY <1>4, <1>5, <1>7 DEF Out, SameBoard
  <2>2. /\ SetFine(z.m, o, "preset_value", R, N, {}) /\ Held(z.m, o, {"preset_type"})
        /\ Spent(z.m, o)
    BY <1>2, <1>3, <2>1, PresetValueSet
  <2>4. Out(b, o, R, N)
    BY <1>5, <1>7, <2>2, OutThen DEF SetFine
  <2>5. ASSUME Good(b, "clock_speed"), o.m.budget = b.budget, Clean(b, L, n)
        PROVE  Good(o.m, n)
    <3>1. o.ok
      BY <2>1, <2>2, <2>5 DEF Spent
    <3>2. SameBoard(b, z.m) /\ SameClock(b, z.m) /\ Tells(b, z.m, n, R)
      BY <1>2, <1>5, <1>7 DEF Out, Step
    <3>3. z.m.entry[n] # "synced"
      BY <1>2, <2>5, <3>2 DEF Tells, Learned, Kept, Clean
    <3>4. Good(z.m, "clock_speed")
      BY <2>5, <3>2, ClockBelief
    <3>5. QED BY <2>1, <2>2, <2>5, <3>1, <3>3, <3>4 DEF Held, Good
  <2>6. \A m \in NameSet \ N : Sources(m) \cap R = {} \/ m \in L
    BY <1>1
  <2>7. QED BY <1>2, <2>4, <2>5, <2>6, OutCoherent
<1>8. QED BY <1>6, <1>7

-----------------------------------------------------------------------------
(* Calibrations. *)

\* What was got last is a number, also where a command failed.
LEMMA CommandGot ==
  ASSUME NEW b, IsBoard(b), NEW n, IsBoard(n), b.got \in Int, n.got \in Int,
         NEW o, o \in Command(b, n)
  PROVE  o.m.got \in Int
<1>1. CASE o \in Done(n)
  BY <1>1, DoneIs
<1>2. ASSUME NEW c, IsBoard(c), c.got \in Int, b.budget # 0,
             o \in Refused(WithField(c, "budget", b.budget - 1))
      PROVE  o.m.got \in Int
  <2> DEFINE x == b.budget - 1
  <2>1. x \in Nat
    BY <1>2, BoardTypes
  <2>2. o.m = WithField(c, "budget", x)
    BY <1>2, RefusedIs
  <2> HIDE DEF x
  <2>3. \A g \in Fields \ {"budget"} : o.m[g] = c[g]
    BY <1>2, <2>1, <2>2, BudgetSpent
  <2>4. o.m.got = c.got
    BY <2>3 DEF Fields
  <2>5. QED BY <1>2, <2>4
<1>3. QED BY <1>1, <1>2 DEF Command, WithField

\* A read answers an integer.
LEMMA ReadGot ==
  ASSUME NEW b, IsBoard(b), b.got \in Int, NEW p \in Params, NEW o, o \in Read(b, p)
  PROVE  o.m.got \in Int
<1> DEFINE c == WithField(b, "got", b.par[p])
<1>1. o \in Command(b, c) /\ c = WithField(b, "got", b.par[p])
  BY DEF Read, WithField
<1>2. b.par[p] \in Int
  BY BoardTypes
<1> HIDE DEF c
<1>3. IsBoard(c) /\ c["got"] = b.par[p]
  BY <1>1, Scratch
<1>4. QED BY <1>1, <1>2, <1>3, CommandGot

\* Getting a value answers an integer.
LEMMA AcquireGot ==
  ASSUME NEW b, IsBoard(b), NEW n \in NameSet, NEW outs,
         \A z \in outs : IsBoard(z.m) /\ z.m.got \in Int,
         NEW o, o \in UdxpGetAcquisitionValues(b, n, outs)
  PROVE  o.m.got \in Int
<1>1. CASE b.entry[n] = "synced"
  <2> DEFINE c == WithField(b, "got", b.val[n])
  <2>1. o \in Done(c) /\ c = WithField(b, "got", b.val[n])
    BY <1>1 DEF UdxpGetAcquisitionValues, WithField
  <2> HIDE DEF c
  <2>2. o.m.got = b.val[n] /\ b.val[n] \in Int
    BY <2>1, GotOut, BoardTypes
  <2>3. QED BY <2>2
<1>2. CASE b.entry[n] # "synced"
  <2> DEFINE F(a) == Done(IF a.entry[n] = "absent" THEN a
                          ELSE [a EXCEPT !.entry[n] = "synced", !.val[n] = a.got])
  <2>1. PICK z \in outs : o \in IF z.ok THEN F(z.m) ELSE {z}
    <3>1. o \in Then(outs, F)
      BY <1>2 DEF UdxpGetAcquisitionValues
    <3> HIDE DEF F
    <3>2. QED BY <3>1 DEF Then
  <2>2. IsBoard(z.m) /\ z.m.got \in Int
    BY <2>1
  <2>3. CASE ~z.ok
    BY <2>1, <2>2, <2>3
  <2>4. CASE z.ok /\ z.m.entry[n] = "absent"
    BY <2>1, <2>2, <2>4, DoneIs
  <2>5. CASE z.ok /\ z.m.entry[n] # "absent"
    <3>1. o.m = [z.m EXCEPT !.entry[n] = "synced", !.val[n] = z.m.got]
      BY <2>1, <2>5, DoneIs
    <3>2. o.m.got = z.m.got
      BY <2>2, <3>1, BoardTypes DEF Fields
    <3>3. QED BY <2>2, <3>2
  <2>6. QED BY <2>3, <2>4, <2>5
<1>3. QED BY <1>1, <1>2

\* The gain, whose commands may fail.
LEMMA GainbaseSpent ==
  ASSUME NEW b, IsBoard(b), b.got \in Int, NEW o, o \in UdxpGetGainbase(b)
  PROVE  Spent(b, o) /\ IsBoard(o.m) /\ o.m.got \in Int
<1>1. PICK z \in UdxpGetGainMode(b) :
          o \in IF z.ok THEN Command(z.m, [z.m EXCEPT !.got = 2 * BaseGain(z.m)]) ELSE {z}
  BY DEF UdxpGetGainbase, Then
<1>2. Out(b, z, {}, {}) /\ (z.ok => z.m = b)
  BY GainModeOut
<1>3. Spent(b, z) /\ z.m.got \in Int /\ IsBoard(z.m)
  BY <1>2, CommandSpent, CommandGot DEF UdxpGetGainMode, Out, SameBoard
<1>4. CASE ~z.ok
  BY <1>1, <1>3, <1>4
<1>5. CASE z.ok
  <2> DEFINE x == 2 * BaseGain(b)
             c == WithField(b, "got", x)
  <2>1. o \in Command(b, c) /\ c = WithField(b, "got", x)
    BY <1>1, <1>2, <1>5 DEF WithField
  <2>2. x \in Int
    BY BoardTypes, ParamsAre DEF BaseGain
  <2> HIDE DEF x, c
  <2>3. IsBoard(c) /\ c["got"] = x
    BY <2>1, Scratch
  <2>4. Step(b, c, {}, {}) /\ c.budget = b.budget
    BY <2>1, ScratchStep
  <2>5. Out(b, o, {}, {})
    BY <2>1, <2>4, CommandOut
  <2>6. QED BY <2>1, <2>2, <2>3, <2>5, CommandSpent, CommandGot DEF Out, SameBoard
<1>6. QED BY <1>4, <1>5


\* Reading the gain trim answers an integer or spends a fault.
LEMMA GainTrimSpent ==
  ASSUME NEW b, IsBoard(b), b.got \in Int, NEW o, o \in UdxpGetGainTrim(b)
  PROVE  Spent(b, o) /\ IsBoard(o.m) /\ o.m.got \in Int
<1>1. PICK z \in UdxpGetGainMode(b) :
          o \in IF z.ok THEN Then(Read(z.m, "GENSET"), LAMBDA c :
                   Then(Read(c, "GAINTWEAK"), LAMBDA e : Done([e EXCEPT !.got = 2 * @])))
                ELSE {z}
  BY DEF UdxpGetGainTrim, UdxpGetGenset, Got, Then
<1>2. Out(b, z, {}, {}) /\ (z.ok => z.m = b)
  BY GainModeOut
<1>3. Spent(b, z) /\ z.m.got \in Int /\ IsBoard(z.m)
  BY <1>2, CommandSpent, CommandGot DEF UdxpGetGainMode, Out, SameBoard
<1>p. "GENSET" \in Params /\ "GAINTWEAK" \in Params
  BY ParamsAre
<1>4. CASE ~z.ok
  BY <1>1, <1>3, <1>4
<1>5. CASE z.ok
  <2>1. PICK y \in Read(b, "GENSET") :
            o \in IF y.ok THEN Then(Read(y.m, "GAINTWEAK"), LAMBDA e :
                                    Done([e EXCEPT !.got = 2 * @]))
                  ELSE {y}
    BY <1>1, <1>2, <1>5 DEF Then
  <2>2. /\ Spent(b, y) /\ y.m.got \in Int /\ IsBoard(y.m)
        /\ y.ok => y.m.budget = b.budget
    BY <1>p, ReadSpent, ReadGot, ReadOut DEF Out, SameBoard
  <2>3. CASE ~y.ok
    BY <2>1, <2>2, <2>3
  <2>4. CASE y.ok
    <3>1. PICK x \in Read(y.m, "GAINTWEAK") :
              o \in IF x.ok THEN Done([x.m EXCEPT !.got = 2 * @]) ELSE {x}
      BY <2>1, <2>4 DEF Then
    <3>2. Spent(y.m, x) /\ x.m.got \in Int /\ IsBoard(x.m)
      BY <1>p, <2>2, ReadSpent, ReadGot, ReadOut DEF Out, SameBoard
    <3>3. Spent(b, x)
      BY <2>2, <2>4, <3>2 DEF Spent
    <3>4. CASE ~x.ok
      BY <3>1, <3>2, <3>3, <3>4
    <3>5. CASE x.ok
      <4> DEFINE w == 2 * x.m.got
                 c == WithField(x.m, "got", w)
      <4>1. o.ok = TRUE /\ o.m = c /\ c = WithField(x.m, "got", w)
        <5>1. [x.m EXCEPT !.got = 2 * @] = c
          BY <3>2, BoardTypes DEF WithField, Fields
        <5>2. QED BY <3>1, <3>5, <5>1, DoneIs
      <4>2. w \in Int
        BY <3>2
      <4> HIDE DEF w, c
      <4>3. IsBoard(c) /\ c["got"] = w
        BY <3>2, <4>1, Scratch
      <4>4. QED BY <4>1, <4>2, <4>3 DEF Spent
    <3>6. QED BY <3>4, <3>5
  <2>5. QED BY <2>3, <2>4
<1>6. QED BY <1>4, <1>5

\* What a calibration does: the value is got, with the outcome z, and set, with y;
\* where that succeeds it is recorded.
Calibrates(b, o, n, z, y) ==
    /\ Out(b, z, {}, {}) /\ SetFine(z.m, y, n, Writes(n), {}, {})
    /\ o \in (IF y.ok
              THEN Done([y.m EXCEPT !.entry[n] = "synced", !.val[n] = y.m.value])
              ELSE {y})

\* A calibration that gets, multiplies and sets keeps the cache coherent.
LEMMA CalibratedCoherent ==
  ASSUME NEW b, IsBoard(b), NEW n \in {"gain", "gain_trim"}, b.entry[n] # "absent",
         NEW z, NEW y, NEW o, Calibrates(b, o, n, z, y), NEW L
  PROVE  Coherent(b, o, L, {})
<1> USE DEF Calibrates
<1> DEFINE M == LeftBehind("set", n)
<1>1. /\ n \in NameSet \ {"clock_speed"} /\ Shared(n) = {} /\ Forgotten(n) = {} /\ M = {}
  BY NamesAre, ForgottenAre DEF Single, LeftBehind
<1>m. M = LeftBehind("set", n)
  OBVIOUS
<1> HIDE DEF M
<1>2. /\ SameBoard(b, z.m) /\ IsBoard(z.m) /\ z.m.budget <= b.budget
      /\ z.m.entry[n] # "absent"
  BY <1>1 DEF Out, SameBoard
<1>3. /\ SameBoard(z.m, y.m) /\ IsBoard(y.m) /\ y.m.budget <= z.m.budget
      /\ y.m.entry[n] # "absent" /\ y.ok \in BOOLEAN
  BY <1>1, <1>2 DEF SetFine, Out, SameBoard
<1>4. y.m.budget <= b.budget /\ (y.m.budget = b.budget => z.m.budget = b.budget)
  BY <1>2, <1>3, BoardTypes
<1>5. ASSUME y.m.budget = b.budget, Good(b, "clock_speed")
      PROVE  /\ z.m.par = b.par /\ Good(z.m, "clock_speed")
             /\ \A m \in NameSet : Clean(b, L, m) => Good(z.m, m)
  <2>1. Step(b, z.m, {}, {})
    BY <1>4, <1>5 DEF Out
  <2>2. z.m.par = b.par
    <3>1. b.par \in [Params -> Int] /\ z.m.par \in [Params -> Int]
      BY <1>2, BoardTypes
    <3>2. \A p \in Params : z.m.par[p] = b.par[p]
      BY <2>1 DEF Step
    <3>3. QED BY <3>1, <3>2
  <2>3. Good(z.m, "clock_speed")
    BY <1>2, <1>5, <2>1, ClockBelief DEF Step
  <2>4. ASSUME NEW m \in NameSet, Clean(b, L, m) PROVE Good(z.m, m)
    BY <1>5, <2>1, <2>2, <2>4, StepClean
  <2>5. QED BY <2>2, <2>3, <2>4
<1>6. ASSUME y.m.budget = b.budget, Good(b, "clock_speed"), y.ok \/ y.m.par = b.par,
             NEW m \in NameSet, Clean(b, L, m), m = n => ~y.ok
      PROVE  Good(y.m, m)
  <2>1. Good(z.m, m) /\ Good(z.m, "clock_speed") /\ (y.ok \/ y.m.par = z.m.par)
    BY <1>5, <1>6
  <2>2. Clean(z.m, M, m)
    BY <1>1, <2>1 DEF Clean, Good
  <2>3. SetHeld(z.m, y, n, Shared(n))
    BY <1>1 DEF SetHeld
  <2>4. SetFine(z.m, y, n, Writes(n), Shared(n), Forgotten(n))
    BY <1>1
  <2>5. y.m.budget = z.m.budget
    BY <1>4, <1>6
  <2>6. QED BY <1>1, <1>2, <1>6, <1>m, <2>1, <2>2, <2>3, <2>4, <2>5, SetOthers
<1>7. CASE ~y.ok
  <2>1. o = y
    BY <1>7
  <2>2. QED BY <1>3, <1>4, <1>6, <1>7, <2>1 DEF Coherent
<1>8. CASE y.ok
  <2> DEFINE x == y.m.value
             e == [y.m.entry EXCEPT ![n] = "synced"]
             w == [y.m.val EXCEPT ![n] = x]
             c == WithEntries(y.m, e, w)
  <2>1. o \in Done(c)
    <3>1. [y.m EXCEPT !.entry[n] = "synced", !.val[n] = y.m.value] = c
      BY <1>3, BoardTypes DEF WithEntries, Fields
    <3>2. QED BY <1>8, <3>1
  <2>2. /\ c = WithEntries(y.m, e, w) /\ x \in Int
        /\ e \in [NameSet -> States] /\ w \in [NameSet -> Int]
        /\ e[n] = "synced" /\ w[n] = x
        /\ \A m \in NameSet \ {n} : e[m] = y.m.entry[m] /\ w[m] = y.m.val[m]
    BY <1>1, <1>3, BoardTypes DEF States
  <2>3. x = y.m.value
    OBVIOUS
  <2> HIDE DEF e, w, c, x
  <2>4. EntrySet(y.m, o, n, x)
    BY <1>1, <1>3, <2>1, <2>2, SetEntry
  <2>5. "clock_speed" \in NameSet \ {n}
    BY <1>1, NamesAre
  <2>6. Good(o.m, "clock_speed") => Good(y.m, "clock_speed")
    BY <2>4, <2>5 DEF EntrySet, Good, Agrees, Kept
  <2>7. Good(y.m, "clock_speed") => Good(o.m, n)
    <3>1. Good(y.m, "clock_speed") => Fits(y.m, n, x)
      BY <1>8, <2>3 DEF SetFine
    <3>2. QED BY <1>1, <2>4, <3>1 DEF EntrySet, Good, Agrees
  <2>8. ASSUME NEW m \in NameSet \ {n}, Good(y.m, m) PROVE Good(o.m, m)
    BY <2>4, <2>8 DEF EntrySet, Good, Agrees, Kept
  <2>9. IsBoard(o.m) /\ o.ok = TRUE /\ o.m.budget = y.m.budget
    BY <2>4 DEF EntrySet
  <2>10. QED BY <1>4, <1>6, <2>6, <2>7, <2>8, <2>9 DEF Coherent
<1>9. QED BY <1>7, <1>8

\* A call that starts from a board of which a scratch field was set.
LEMMA CoherentScratch ==
  ASSUME NEW b, IsBoard(b), NEW f \in {"got", "value", "room", "words"}, NEW x,
         f = "value" => x \in Int, NEW c, c = WithField(b, f, x),
         NEW o, NEW L, NEW X, Coherent(c, o, L, X)
  PROVE  Coherent(b, o, L, X)
<1>1. /\ Step(b, c, {}, {}) /\ c.budget = b.budget /\ c.par = b.par
      /\ c.entry = b.entry /\ c.val = b.val
  BY ScratchStep
<1>2. ASSUME NEW m \in NameSet, NEW y PROVE Fits(b, m, y) <=> Fits(c, m, y)
  BY <1>1, SameFit DEF Step, SameBoard
<1>3. Good(b, "clock_speed") => Good(c, "clock_speed")
  BY <1>1, <1>2, NamesAre DEF Good, Agrees
<1>4. \A m \in NameSet : Clean(b, L, m) => Clean(c, L, m)
  BY <1>1, <1>2 DEF Clean, Agrees
<1>5. QED BY <1>1, <1>3, <1>4, CoherentFrom

\* So the gain's.
LEMMA GainCalibrateCoherent ==
  ASSUME NEW b, IsBoard(b), b.entry["gain"] # "absent", NEW d \in Int,
         NEW o, o \in UdxpGainCalibrate(b, d), NEW L
  PROVE  Coherent(b, o, L, {})
<1> DEFINE n == "gain"
           e == WithField(b, "got", 0)
           gets == UdxpGetAcquisitionValues(e, n, UdxpGetGainbase(e))
           G(a) == UdxpSetGainbase(a, a.got + d)
           sets == Anyway(gets, G)
           F(c) == Done([c EXCEPT !.entry[n] = "synced", !.val[n] = c.value])
<1>1. o \in Then(sets, F)
  BY DEF UdxpGainCalibrate, Calibrated, WithField
<1>2. e = WithField(b, "got", 0)
  OBVIOUS
<1> HIDE DEF e
<1>3. IsBoard(e) /\ e["got"] = 0 /\ e.entry = b.entry
  BY <1>2, Scratch DEF Fields
<1>4. PICK y \in sets : o \in IF y.ok THEN F(y.m) ELSE {y}
  <2> HIDE DEF sets, F
  <2>1. QED BY <1>1 DEF Then
<1>5. PICK z \in gets : y \in G(z.m)
  <2>1. y \in Anyway(gets, G)
    BY <1>4
  <2> HIDE DEF gets, G
  <2>2. QED BY <2>1 DEF Anyway
<1>6. /\ n \in NameSet /\ Writes(n) = {"GAINBASE", "SWGAIN", "DGAINBASE"}
      /\ Sources("gain") \cap {} = {}
  BY NamesAre, WritesAre
<1>7. Out(e, z, {}, {})
  BY <1>3, <1>5, <1>6, GainOut
<1>8. z.m.got \in Int
  <2> DEFINE outs == UdxpGetGainbase(e)
  <2>1. \A x \in outs : IsBoard(x.m) /\ x.m.got \in Int
    BY <1>3, GainbaseSpent
  <2>2. z \in UdxpGetAcquisitionValues(e, n, outs)
    BY <1>5
  <2> HIDE DEF outs
  <2>3. QED BY <1>3, <1>6, <2>1, <2>2, AcquireGot
<1>9. SetFine(z.m, y, n, Writes(n), {}, {})
  <2>1. z.m.got + d \in Int /\ IsBoard(z.m)
    BY <1>7, <1>8 DEF Out, SameBoard
  <2>2. {"GAINBASE", "SWGAIN", "DGAINBASE"} \subseteq Writes(n)
    BY <1>6
  <2>3. y \in UdxpSetGainbase(z.m, z.m.got + d)
    BY <1>5
  <2>4. QED BY <2>1, <2>2, <2>3, GainbaseSet
<1>10. Coherent(e, o, L, {})
  <2>1. n \in {"gain", "gain_trim"} /\ e.entry[n] # "absent"
    BY <1>3
  <2>2. o \in (IF y.ok
               THEN Done([y.m EXCEPT !.entry[n] = "synced", !.val[n] = y.m.value])
               ELSE {y})
    BY <1>4
  <2>3. Calibrates(e, o, n, z, y)
    BY <1>7, <1>9, <2>2 DEF Calibrates
  <2> HIDE DEF n, gets, G, sets, F
  <2>4. QED BY <1>3, <2>1, <2>3, CalibratedCoherent
<1>11. QED BY <1>2, <1>10, CoherentScratch

\* So the gain trim's.
LEMMA GainTrimCalibrateCoherent ==
  ASSUME NEW b, IsBoard(b), b.entry["gain_trim"] # "absent", NEW d \in Int,
         NEW o, o \in UdxpGainTrimCalibrate(b, d), NEW L
  PROVE  Coherent(b, o, L, {})
<1> DEFINE n == "gain_trim"
           e == WithField(b, "got", 0)
           gets == UdxpGetAcquisitionValues(e, n, UdxpGetGainTrim(e))
           G(a) == UdxpSetGainTrim(a, a.got + d)
           sets == Anyway(gets, G)
           F(c) == Done([c EXCEPT !.entry[n] = "synced", !.val[n] = c.value])
<1>1. o \in Then(sets, F)
  BY DEF UdxpGainTrimCalibrate, Calibrated, WithField
<1>2. e = WithField(b, "got", 0)
  OBVIOUS
<1> HIDE DEF e
<1>3. IsBoard(e) /\ e["got"] = 0 /\ e.entry = b.entry
  BY <1>2, Scratch DEF Fields
<1>4. PICK y \in sets : o \in IF y.ok THEN F(y.m) ELSE {y}
  <2> HIDE DEF sets, F
  <2>1. QED BY <1>1 DEF Then
<1>5. PICK z \in gets : y \in G(z.m)
  <2>1. y \in Anyway(gets, G)
    BY <1>4
  <2> HIDE DEF gets, G
  <2>2. QED BY <2>1 DEF Anyway
<1>6. /\ n \in NameSet /\ Writes(n) = {"GAINTWEAK"}
      /\ Sources("gain") \cap Writes(n) = {}
  BY NamesAre, WritesAre, SourcesAre
<1>7. Out(e, z, {}, {}) /\ z.m.got \in Int
  <2> DEFINE outs == UdxpGetGainTrim(e)
             R == {}
  <2>1. \A x \in outs : IsBoard(x.m) /\ x.m.got \in Int
    BY <1>3, GainTrimSpent
  <2>2. z \in UdxpGetAcquisitionValues(e, n, outs)
    BY <1>5
  <2>3. \A x \in outs : GetFine(e, x, n, R, R)
    BY <1>3, GainTrimGet
  <2>4. Sources(n) \cap R = {} /\ n # "clock_speed" /\ R = {}
    OBVIOUS
  <2> HIDE DEF outs, R
  <2>5. Out(e, z, R, R)
    BY <1>3, <1>6, <2>2, <2>3, <2>4, AcquireOut
  <2>6. z.m.got \in Int
    BY <1>3, <1>6, <2>1, <2>2, AcquireGot
  <2>7. QED BY <2>4, <2>5, <2>6
<1>9. SetFine(z.m, y, n, Writes(n), {}, {})
  <2>1. z.m.got + d \in Int /\ IsBoard(z.m)
    BY <1>7 DEF Out, SameBoard
  <2>2. "GAINTWEAK" \in Writes(n) /\ Sources("gain") \cap Writes(n) = {}
    BY <1>6
  <2>3. y \in UdxpSetGainTrim(z.m, z.m.got + d)
    BY <1>5
  <2>4. QED BY <2>1, <2>2, <2>3, GainTrimSet
<1>10. Coherent(e, o, L, {})
  <2>1. n \in {"gain", "gain_trim"} /\ e.entry[n] # "absent"
    BY <1>3
  <2>2. o \in (IF y.ok
               THEN Done([y.m EXCEPT !.entry[n] = "synced", !.val[n] = y.m.value])
               ELSE {y})
    BY <1>4
  <2>3. Calibrates(e, o, n, z, y)
    BY <1>7, <1>9, <2>2 DEF Calibrates
  <2> HIDE DEF n, gets, G, sets, F
  <2>4. QED BY <1>3, <2>1, <2>3, CalibratedCoherent
<1>11. QED BY <1>2, <1>10, CoherentScratch

-----------------------------------------------------------------------------
(* Traces, and spectra. *)

\* A trace writes its wait and remembers the one it wrote.
LEMMA TraceCoherent ==
  ASSUME NEW b, IsBoard(b), b.entry["adc_trace_wait"] # "absent", NEW v \in Int,
         NEW o, o \in UdxpDoTrace(b, v), NEW L
  PROVE  Coherent(b, o, L, {})
<1> DEFINE n == "adc_trace_wait"
           R == {"TRACEWAIT"}
           N == {}
           J(c) == Done([c EXCEPT !.entry["adc_trace_wait"] = "synced",
                                  !.val["adc_trace_wait"] = c.value])
           H(c) == Then(Write(c, "TRACEWAIT", Rounded(c.value, c.got) - 1), J)
           G(c) == Then(Clock(c), H)
           outs == UdxpCheckTraceWaitRange(b, v)
<1>1. o \in Then(outs, G)
  BY DEF UdxpDoTrace, UdxpSetParameter
<1>2. PICK z \in outs : o \in IF z.ok THEN G(z.m) ELSE {z}
  <2> HIDE DEF outs, G
  <2>1. QED BY <1>1 DEF Then
<1>3. /\ n \in NameSet \ {"clock_speed"} /\ "TRACEWAIT" \in Params /\ "TRACEWAIT" \in R
      /\ "CLOCK" \notin R /\ Sources(n) \cap R = {} /\ "TRACEWAIT" # "CLOCK" /\ N = {}
      /\ \A m \in NameSet \ N : Sources(m) \cap R = {}
  BY NamesAre, ParamsAre, SourcesAre
<1> HIDE DEF R, N
<1>4. Out(b, z, R, N)
  BY <1>2, <1>3, TraceWaitSet DEF SetFine
<1>5. CASE ~z.ok
  <2>1. o = z
    BY <1>2, <1>5
  <2>2. QED BY <1>3, <1>4, <2>1, OutCoherent
<1>6. CASE z.ok
  <2>1. IsBoard(z.m) /\ z.m.entry[n] # "absent"
    BY <1>3, <1>4 DEF Out, SameBoard
  <2>2. PICK y \in Clock(z.m) : o \in IF y.ok THEN H(y.m) ELSE {y}
    <3>1. o \in Then(Clock(z.m), H)
      BY <1>2, <1>6
    <3> HIDE DEF H
    <3>2. QED BY <3>1 DEF Then
  <2>3. Out(z.m, y, R, N) /\ (y.ok => y.m.got \in Nat \ {0})
    BY <1>3, <2>1, <2>2, ClockOut
  <2>4. Out(b, y, R, N)
    BY <1>4, <1>6, <2>3, OutThen
  <2>5. CASE ~y.ok
    <3>1. o = y
      BY <2>2, <2>5
    <3>2. QED BY <1>3, <2>4, <3>1, OutCoherent
  <2>6. CASE y.ok
    <3> DEFINE t == Rounded(y.m.value, y.m.got) - 1
               sets == Write(y.m, "TRACEWAIT", t)
    <3>1. IsBoard(y.m) /\ y.m.entry[n] # "absent" /\ y.m.value \in Int
      BY <1>3, <2>1, <2>3, BoardTypes DEF Out, SameBoard
    <3>2. t \in RegisterValues("TRACEWAIT")
      <4>1. Rounded(y.m.value, y.m.got) \in Int
        BY <2>3, <2>6, <3>1, RoundedType
      <4>2. QED BY <4>1 DEF RegisterValues
    <3>3. PICK x \in sets : o \in IF x.ok THEN J(x.m) ELSE {x}
      <4>1. o \in Then(sets, J)
        BY <2>2, <2>6
      <4> HIDE DEF sets, J
      <4>2. QED BY <4>1 DEF Then
    <3>4. x \in Write(y.m, "TRACEWAIT", t)
      BY <3>3
    <3> HIDE DEF t, sets
    <3>5. Out(y.m, x, R, N)
      <4>1. Wrote(y.m, x, "TRACEWAIT", t, R, N)
        BY <1>3, <3>1, <3>2, <3>4, WriteFine
      <4>2. QED BY <4>1 DEF Wrote
    <3>6. Out(b, x, R, N)
      BY <2>4, <2>6, <3>5, OutThen
    <3>7. CASE ~x.ok
      <4>1. o = x
        BY <3>3, <3>7
      <4>2. QED BY <1>3, <3>6, <4>1, OutCoherent
    <3>8. CASE x.ok
      <4> DEFINE w == x.m.value
                 e == [x.m.entry EXCEPT ![n] = "synced"]
                 u == [x.m.val EXCEPT ![n] = w]
                 c == WithEntries(x.m, e, u)
      <4>1. IsBoard(x.m) /\ x.m.entry[n] # "absent" /\ w \in Int
        BY <1>3, <3>1, <3>5, BoardTypes DEF Out, SameBoard
      <4>2. o \in Done(c)
        <5>1. [x.m EXCEPT !.entry["adc_trace_wait"] = "synced",
                          !.val["adc_trace_wait"] = x.m.value] = c
          BY <4>1, BoardTypes DEF WithEntries, Fields
        <5>2. QED BY <3>3, <3>8, <5>1
      <4>3. Fits(x.m, n, w)
        BY DEF Fits, HostValues
      <4>4. e = [x.m.entry EXCEPT ![n] = "synced"] /\ u = [x.m.val EXCEPT ![n] = w]
            /\ c = WithEntries(x.m, e, u)
        OBVIOUS
      <4> HIDE DEF e, u, w, c
      <4>5. Step(x.m, c, R, N) /\ Recorded(x.m, c, e, u)
        BY <1>3, <4>1, <4>3, <4>4, LearnStep
      <4>6. Out(x.m, o, R, N)
        BY <4>2, <4>5, DoneOut DEF Recorded
      <4>7. Out(b, o, R, N)
        BY <3>6, <3>8, <4>6, OutThen
      <4>8. QED BY <1>3, <4>7, OutCoherent
    <3>9. QED BY <3>7, <3>8
  <2>7. QED BY <2>5, <2>6
<1>7. QED BY <1>5, <1>6

\* What follows a call that succeeded, and changes no register.
LEMMA CoherentThen ==
  ASSUME NEW b, IsBoard(b), NEW z, NEW L, Coherent(b, z, L, {}), z.ok,
         NEW o, Out(z.m, o, {}, {})
  PROVE  Coherent(b, o, L, {})
<1>1. /\ IsBoard(z.m) /\ IsBoard(o.m) /\ o.ok \in BOOLEAN
      /\ z.m.budget <= b.budget /\ o.m.budget <= z.m.budget
  BY DEF Coherent, Out, SameBoard
<1>2. o.m.budget <= b.budget /\ (o.m.budget = b.budget => z.m.budget = b.budget)
  BY <1>1, BoardTypes
<1>3. ASSUME o.m.budget = b.budget, Good(b, "clock_speed"), Good(o.m, "clock_speed"),
             NEW m \in NameSet, Clean(b, L, m)
      PROVE  Good(o.m, m)
  <2>1. Step(z.m, o.m, {}, {}) /\ z.m.budget = b.budget
    BY <1>2, <1>3 DEF Out
  <2>2. Good(z.m, "clock_speed")
    BY <1>1, <1>3, <2>1, ClockBelief DEF Step
  <2>3. Good(z.m, m)
    BY <1>3, <2>1, <2>2 DEF Coherent
  <2> DEFINE M == {}
  <2>4. Clean(z.m, M, m) /\ Sources(m) \cap M = {} /\ m \in NameSet \ M /\ M = {}
    BY <2>3 DEF Clean, Good
  <2> HIDE DEF M
  <2>5. Step(z.m, o.m, M, M)
    BY <2>1, <2>4
  <2>6. QED BY <1>1, <2>2, <2>4, <2>5, StepClean
<1>4. QED BY <1>1, <1>2, <1>3 DEF Coherent

\* The length of a buffer is kept.
LEMMA RoomIs ==
  ASSUME NEW b, IsBoard(b), NEW x, NEW c, c = WithField(b, "room", x), NEW o, o \in Done(c),
         NEW R, NEW N
  PROVE  Out(b, o, R, N) /\ o.ok /\ o.m.room = x /\ Same(b, o.m)
<1>2. /\ Step(b, c, R, N) /\ c["room"] = x /\ c.budget = b.budget
      /\ c.par = b.par /\ c.entry = b.entry /\ c.val = b.val
  BY ScratchStep
<1>3. Out(b, o, R, N) /\ o.ok /\ o.m = c
  BY <1>2, DoneOut
<1>4. QED BY <1>2, <1>3 DEF Same

\* The caller's array has the length the library answered.
LEMMA RoomOut ==
  ASSUME NEW b, IsBoard(b), NEW o, o \in Done([b EXCEPT !.room = b.got]), NEW R, NEW N
  PROVE  Out(b, o, R, N) /\ o.ok /\ o.m.room = b.got /\ Same(b, o.m)
<1> DEFINE c == WithField(b, "room", b.got)
<1>1. o \in Done(c) /\ c = WithField(b, "room", b.got)
  BY DEF WithField
<1> HIDE DEF c
<1>2. QED BY <1>1, RoomIs

\* The data of an entry, whatever its state.
LEMMA DefaultOut ==
  ASSUME NEW b, IsBoard(b), NEW n \in NameSet, NEW o, o \in UdxpGetDefault(b, n),
         NEW R, NEW N
  PROVE  /\ Out(b, o, R, N)
         /\ o.ok => /\ b.entry[n] # "absent" /\ o.m.got = b.val[n]
                    /\ o.m.room = b.room /\ Same(b, o.m)
<1>1. CASE b.entry[n] = "absent"
  BY <1>1, RefusedAtOnce DEF UdxpGetDefault
<1>2. CASE b.entry[n] # "absent"
  <2> DEFINE c == WithField(b, "got", b.val[n])
  <2>1. o \in Done(c) /\ c = WithField(b, "got", b.val[n])
    BY <1>2 DEF UdxpGetDefault, WithField
  <2> HIDE DEF c
  <2>2. /\ Out(b, o, R, N) /\ o.ok /\ o.m.got = b.val[n]
        /\ o.m.par = b.par /\ o.m.entry = b.entry /\ o.m.val = b.val
    BY <2>1, GotOut
  <2>3. \A g \in Fields \ {"got"} : c[g] = b[g]
    BY <2>1, Scratch
  <2>4. o.m.room = b.room
    BY <2>1, <2>3, DoneIs DEF Fields
  <2>5. QED BY <1>2, <2>2, <2>4 DEF Same
<1>3. QED BY <1>1, <1>2

\* The data fill as many words as the entry says.
LEMMA FilledOut ==
  ASSUME NEW b, IsBoard(b), NEW n \in NameSet, NEW w, w \in UdxpGetDefault(b, n),
         NEW o, o \in (IF w.ok THEN Filled(w.m) ELSE {w}), NEW R, NEW N
  PROVE  /\ Out(b, o, R, N)
         /\ o.ok => /\ b.entry[n] # "absent" /\ o.m.words = b.val[n] /\ o.m.room = b.room
<1>1. /\ Out(b, w, R, N)
      /\ w.ok => /\ b.entry[n] # "absent" /\ w.m.got = b.val[n] /\ w.m.room = b.room
  BY DefaultOut
<1>2. CASE ~w.ok
  BY <1>1, <1>2
<1>3. CASE w.ok
  <2> DEFINE c == WithField(w.m, "words", w.m.got)
  <2>1. o \in Command(w.m, c) /\ c = WithField(w.m, "words", w.m.got)
    BY <1>3 DEF Filled, WithField
  <2>2. IsBoard(w.m)
    BY <1>1 DEF Out, SameBoard
  <2> HIDE DEF c
  <2>3. /\ Step(w.m, c, R, N) /\ c["words"] = w.m.got /\ c.budget = w.m.budget
        /\ \A g \in Fields \ {"words"} : c[g] = w.m[g]
    BY <2>1, <2>2, ScratchStep
  <2>4. Out(w.m, o, R, N) /\ (o.ok => o.m = c)
    BY <2>1, <2>2, <2>3, CommandOut
  <2>5. Out(b, o, R, N)
    BY <1>1, <1>3, <2>4, OutThen
  <2>6. c.room = w.m.room
    BY <2>3 DEF Fields
  <2>7. QED BY <1>1, <1>3, <2>3, <2>4, <2>5, <2>6
<1>4. QED BY <1>2, <1>3

\* After the length has been asked for.
LEMMA DataFits ==
  ASSUME NEW b, NEW n \in NameSet, NEW z, IsBoard(z.m), z.ok, Acquired(b, z, n),
         NEW y, y \in Done([z.m EXCEPT !.room = z.m.got]),
         NEW c, IsBoard(c), Same(y.m, c), c.room = y.m.room,
         NEW w, w \in UdxpGetDefault(c, n), NEW o, o \in (IF w.ok THEN Filled(w.m) ELSE {w})
  PROVE  o.ok => o.m.words \in Int /\ o.m.room = o.m.words
<1> SUFFICES ASSUME o.ok PROVE o.m.words \in Int /\ o.m.room = o.m.words
  OBVIOUS
<1>1. y.m.room = z.m.got /\ Same(z.m, y.m)
  BY RoomOut
<1>2. c.entry[n] # "absent" /\ o.m.words = c.val[n] /\ o.m.room = c.room
  BY FilledOut
<1>3. c.val[n] = z.m.got /\ c.val[n] \in Int
  BY <1>1, <1>2, BoardTypes DEF Acquired, Same
<1>4. QED BY <1>1, <1>2, <1>3

\* Spectra: the length is asked for first, and the data fill it.
LEMMA McaCoherent ==
  ASSUME NEW b, IsBoard(b), b.got \in Int, NEW o, o \in RunData(b, "mca"), NEW L
  PROVE  Coherent(b, o, L, {}) /\ (o.ok => o.m.words \in Int /\ o.m.room = o.m.words)
<1> DEFINE n == "number_mca_channels"
           gets == UdxpGetAcquisitionValues(b, n, UdxpGetNumMCA(b))
           H(a) == Done([a EXCEPT !.room = a.got])
           lens == Then(gets, H)
           K(a) == Then(UdxpGetDefault(a, n), Filled)
<1>1. o \in Then(lens, UdxpGetMCAData)
  BY DEF RunData, UdxpGetMCALength, Room
<1>2. PICK y \in lens : o \in IF y.ok THEN UdxpGetMCAData(y.m) ELSE {y}
  <2> HIDE DEF lens
  <2>1. QED BY <1>1 DEF Then
<1>3. PICK z \in gets : y \in IF z.ok THEN H(z.m) ELSE {z}
  <2>1. y \in Then(gets, H)
    BY <1>2
  <2> HIDE DEF gets, H
  <2>2. QED BY <2>1 DEF Then
<1>4. n \in NameSet /\ "bytes_per_bin" \in NameSet /\ GetFN(b, n) = UdxpGetNumMCA(b)
  BY NamesAre DEF GetFN
<1>5. Coherent(b, z, L, {})
  BY <1>3, <1>4, GetCoherent
<1>6. Out(b, z, {}, {}) /\ Acquired(b, z, n)
  <2> DEFINE outs == GetFN(b, n)
             R == {}
  <2>1. \A x \in outs : GetFine(b, x, n, R, R)
    BY <1>4, GetFNFine
  <2>2. z \in UdxpGetAcquisitionValues(b, n, outs) /\ Sources(n) \cap R = {} /\ R = {}
        /\ n # "clock_speed"
    BY <1>3, <1>4
  <2> HIDE DEF outs, R
  <2>3. Out(b, z, R, R) /\ Acquired(b, z, n)
    BY <1>4, <2>1, <2>2, AcquireOut
  <2>4. QED BY <2>2, <2>3
<1>7. CASE ~z.ok
  BY <1>2, <1>3, <1>5, <1>7
<1>8. CASE z.ok
  <2>1. IsBoard(z.m) /\ y \in Done([z.m EXCEPT !.room = z.m.got])
    BY <1>3, <1>6, <1>8 DEF Out, SameBoard
  <2>2. Out(z.m, y, {}, {}) /\ y.ok /\ Same(z.m, y.m) /\ IsBoard(y.m)
    <3>1. Out(z.m, y, {}, {}) /\ y.ok /\ Same(z.m, y.m)
      BY <2>1, RoomOut
    <3>2. QED BY <3>1 DEF Out, SameBoard
  <2>3. PICK x \in UdxpGetDefault(y.m, "bytes_per_bin") : o \in IF x.ok THEN K(x.m) ELSE {x}
    <3> DEFINE gs == UdxpGetDefault(y.m, "bytes_per_bin")
    <3>1. o \in Then(gs, K)
      BY <1>2, <2>2 DEF UdxpGetMCAData, UdxpGetMcaCmd
    <3> HIDE DEF gs, K
    <3>2. PICK x \in gs : o \in IF x.ok THEN K(x.m) ELSE {x}
      BY <3>1 DEF Then
    <3>3. QED BY <3>2 DEF gs
  <2>4. /\ Out(y.m, x, {}, {}) /\ IsBoard(x.m)
        /\ x.ok => Same(y.m, x.m) /\ x.m.room = y.m.room
    <3>1. Out(y.m, x, {}, {}) /\ (x.ok => Same(y.m, x.m) /\ x.m.room = y.m.room)
      BY <1>4, <2>2, <2>3, DefaultOut
    <3>2. QED BY <3>1 DEF Out, SameBoard
  <2>5. Out(z.m, x, {}, {})
    BY <2>1, <2>2, <2>4, OutThen
  <2>6. CASE ~x.ok
    <3>1. o = x
      BY <2>3, <2>6
    <3>2. QED BY <1>5, <1>8, <2>5, <2>6, <3>1, CoherentThen
  <2>7. CASE x.ok
    <3>1. PICK w \in UdxpGetDefault(x.m, n) : o \in IF w.ok THEN Filled(w.m) ELSE {w}
      <4> DEFINE gs == UdxpGetDefault(x.m, n)
      <4>1. o \in Then(gs, Filled)
        BY <2>3, <2>7
      <4> HIDE DEF gs
      <4>2. PICK w \in gs : o \in IF w.ok THEN Filled(w.m) ELSE {w}
        BY <4>1 DEF Then
      <4>3. QED BY <4>2 DEF gs
    <3>2. Out(x.m, o, {}, {})
      BY <1>4, <2>4, <3>1, FilledOut
    <3>3. Out(z.m, o, {}, {})
      BY <2>1, <2>5, <2>7, <3>2, OutThen
    <3>4. Coherent(b, o, L, {})
      BY <1>5, <1>8, <3>3, CoherentThen
    <3>5. o.ok => o.m.words \in Int /\ o.m.room = o.m.words
      BY <1>4, <1>6, <1>8, <2>1, <2>4, <2>7, <3>1, DataFits
    <3>6. QED BY <3>4, <3>5
  <2>8. QED BY <2>6, <2>7
<1>9. QED BY <1>7, <1>8

\* The SCA data read are as long as the length answered.
LEMMA ScaDataCoherent ==
  ASSUME NEW b, IsBoard(b), NEW o, o \in RunData(b, "sca"), NEW L
  PROVE  Coherent(b, o, L, {}) /\ (o.ok => o.m.words \in Int /\ o.m.room = o.m.words)
<1> DEFINE n == "number_of_scas"
           gets == NumScas(b)
           H(a) == Done([a EXCEPT !.room = a.got])
           lens == Then(gets, H)
<1>1. o \in Then(lens, UdxpGetSCAData)
  BY DEF RunData, UdxpGetSCALength, Room
<1>2. PICK y \in lens : o \in IF y.ok THEN UdxpGetSCAData(y.m) ELSE {y}
  <2> HIDE DEF lens
  <2>1. QED BY <1>1 DEF Then
<1>3. PICK z \in gets : y \in IF z.ok THEN H(z.m) ELSE {z}
  <2>1. y \in Then(gets, H)
    BY <1>2
  <2> HIDE DEF gets, H
  <2>2. QED BY <2>1 DEF Then
<1>4. n \in NameSet
  BY NamesAre
<1>5. Coherent(b, z, L, {})
  BY <1>3, NumScasCoherent
<1>6. IsBoard(z.m) /\ Acquired(b, z, n)
  <2> DEFINE R == {"NUMSCA"}
             N == {"number_of_scas"}
  <2>1. "NUMSCA" \in R /\ "number_of_scas" \in N
    OBVIOUS
  <2> HIDE DEF R, N
  <2>2. Out(b, z, R, N) /\ Acquired(b, z, n)
    BY <1>3, <2>1, NumScasOut
  <2>3. QED BY <2>2 DEF Out, SameBoard
<1>7. CASE ~z.ok
  BY <1>2, <1>3, <1>5, <1>7
<1>8. CASE z.ok
  <2>1. y \in Done([z.m EXCEPT !.room = z.m.got])
    BY <1>3, <1>8
  <2>2. Out(z.m, y, {}, {}) /\ y.ok /\ Same(z.m, y.m) /\ IsBoard(y.m)
    <3>1. Out(z.m, y, {}, {}) /\ y.ok /\ Same(z.m, y.m)
      BY <1>6, <2>1, RoomOut
    <3>2. QED BY <3>1 DEF Out, SameBoard
  <2>3. PICK w \in UdxpGetDefault(y.m, n) : o \in IF w.ok THEN Filled(w.m) ELSE {w}
    <3> DEFINE gs == UdxpGetDefault(y.m, n)
    <3>1. o \in Then(gs, Filled)
      BY <1>2, <2>2 DEF UdxpGetSCAData
    <3> HIDE DEF gs
    <3>2. PICK w \in gs : o \in IF w.ok THEN Filled(w.m) ELSE {w}
      BY <3>1 DEF Then
    <3>3. QED BY <3>2 DEF gs
  <2>4. Out(y.m, o, {}, {})
    BY <1>4, <2>2, <2>3, FilledOut
  <2>5. Out(z.m, o, {}, {})
    BY <1>6, <2>2, <2>4, OutThen
  <2>6. Coherent(b, o, L, {})
    BY <1>5, <1>8, <2>5, CoherentThen
  <2>7. o.ok => o.m.words \in Int /\ o.m.room = o.m.words
    <3>1. Same(y.m, y.m) /\ y.m.room = y.m.room
      BY DEF Same
    <3>2. QED BY <1>4, <1>6, <1>8, <2>1, <2>2, <2>3, <3>1, DataFits
  <2>8. QED BY <2>6, <2>7
<1>9. QED BY <1>7, <1>8

-----------------------------------------------------------------------------
(* What a set that succeeds leaves. *)

\* A set that succeeded made its entry true.
LEMMA SetTrue ==
  ASSUME NEW b, IsBoard(b), NEW n \in NameSet, NEW v, Asks(n, v),
         NEW o, o \in UdxpSetAcquisitionValues(Entered(b, n, v), n, v), o.ok,
         Good(o.m, "clock_speed")
  PROVE  Agrees(o.m, n)
<1> DEFINE c == Entered(b, n, v)
           E(a) == Done(IF a.entry[n] = "absent" THEN a
                        ELSE [a EXCEPT !.entry[n] = "synced", !.val[n] = a.value])
           outs == SetFN(c, n, v)
<1>1. o \in Then(outs, E) /\ v \in Int /\ c = Entered(b, n, v)
  BY DEF UdxpSetAcquisitionValues, Asks
<1> HIDE DEF c
<1>2. IsBoard(c) /\ c.entry[n] # "absent"
  BY <1>1, EnteredBoard
<1>3. PICK a \in outs : o \in IF a.ok THEN E(a.m) ELSE {a}
  <2> HIDE DEF outs, E
  <2>1. QED BY <1>1 DEF Then
<1>4. a.ok
  BY <1>3
<1>5. /\ SameBoard(c, a.m) /\ IsBoard(a.m)
      /\ n = "clock_speed" => a.m.value > 0
      /\ n # "clock_speed" => (Good(a.m, "clock_speed") => Fits(a.m, n, a.m.value))
  <2>1. CASE n = "clock_speed"
    <3>1. v \in Nat /\ a \in UdxpSetClockSpd(c, v)
      BY <1>3, <2>1 DEF Asks, Offsets, SetFN
    <3>2. SameBoard(c, a.m) /\ a.m.value > 0
      BY <1>2, <1>4, <3>1, ClockSpdSet
    <3>3. QED BY <2>1, <3>2 DEF SameBoard
  <2>2. CASE n # "clock_speed"
    <3>1. SetFine(c, a, n, Writes(n), Shared(n), Forgotten(n))
      BY <1>2, <1>3, <2>2, SetFNFine
    <3>2. QED BY <1>4, <2>2, <3>1 DEF SetFine, Out, SameBoard
  <2>3. QED BY <2>1, <2>2
<1>6. a.m.entry[n] # "absent" /\ a.m.value \in Int
  BY <1>2, <1>5, BoardTypes DEF SameBoard
<1> DEFINE x == a.m.value
           e == [a.m.entry EXCEPT ![n] = "synced"]
           w == [a.m.val EXCEPT ![n] = x]
           d == WithEntries(a.m, e, w)
<1>7. o \in Done(d)
  <2>1. [a.m EXCEPT !.entry[n] = "synced", !.val[n] = a.m.value] = d
    BY <1>5, BoardTypes DEF WithEntries, Fields
  <2>2. QED BY <1>3, <1>4, <1>6, <2>1
<1>8. /\ d = WithEntries(a.m, e, w) /\ x \in Int /\ x = a.m.value
      /\ e \in [NameSet -> States] /\ w \in [NameSet -> Int]
      /\ e[n] = "synced" /\ w[n] = x
      /\ \A m \in NameSet \ {n} : e[m] = a.m.entry[m] /\ w[m] = a.m.val[m]
  BY <1>5, <1>6, BoardTypes DEF States
<1> HIDE DEF e, w, d, x
<1>9. EntrySet(a.m, o, n, x)
  BY <1>5, <1>6, <1>7, <1>8, SetEntry
<1>10. CASE n = "clock_speed"
  BY <1>9, <1>10 DEF EntrySet, Good
<1>11. CASE n # "clock_speed"
  <2>1. "clock_speed" \in NameSet \ {n}
    BY <1>11, NamesAre
  <2>2. Good(a.m, "clock_speed")
    BY <1>9, <2>1 DEF EntrySet, Good, Agrees, Kept
  <2>3. Fits(a.m, n, x)
    BY <1>5, <1>8, <1>11, <2>2
  <2>4. QED BY <1>9, <2>3 DEF EntrySet, Agrees
<1>12. QED BY <1>10, <1>11

-----------------------------------------------------------------------------
(* The invariant. *)

\* Between two calls nothing is got and nothing asked for.  As long as no call
\* failed half way, the clock is known, and so are the entries the code does not
\* leave behind; run data last read fill their buffer.
CacheInv ==
    /\ IsBoard(k) /\ k.got = 0 /\ k.value = 0
    /\ topic \in Topics /\ outdated \subseteq NameSet
    /\ ~upset => ClockKnown(k)
    /\ CacheCoherent
    /\ DataFitsLength

\* A board at rest.
AtRest(b) == [b EXCEPT !.got = 0, !.value = 0]

\* A board at rest after a call has the entries it had.
LEMMA Rest ==
  ASSUME NEW b, IsBoard(b), NEW c, c = AtRest(b)
  PROVE  /\ IsBoard(c) /\ c.got = 0 /\ c.value = 0 /\ c.entry = b.entry
         /\ c.room = b.room /\ c.words = b.words
         /\ \A m \in NameSet : Agrees(b, m) <=> Agrees(c, m)
<1> DEFINE d == WithField(b, "got", 0)
           e == WithField(d, "value", 0)
<1>1. c = e
  BY BoardTypes DEF WithField, Fields, AtRest
<1>2. d = WithField(b, "got", 0) /\ e = WithField(d, "value", 0)
  OBVIOUS
<1> HIDE DEF d, e
<1>3. IsBoard(d) /\ d["got"] = 0 /\ \A g \in Fields \ {"got"} : d[g] = b[g]
  BY <1>2, Scratch
<1>4. IsBoard(e) /\ e["value"] = 0 /\ \A g \in Fields \ {"value"} : e[g] = d[g]
  BY <1>2, <1>3, Scratch
<1>5. /\ c.got = 0 /\ c.value = 0 /\ c.entry = b.entry /\ c.val = b.val /\ c.par = b.par
      /\ c.super = b.super /\ c.vega = b.vega /\ c.switched = b.switched
      /\ c.room = b.room /\ c.words = b.words
  BY <1>1, <1>3, <1>4 DEF Fields
<1>6. \A m \in NameSet : Agrees(b, m) <=> Agrees(c, m)
  BY <1>5, SameFit DEF Agrees
<1>7. QED BY <1>1, <1>4, <1>5, <1>6

\* What a call leaves of the invariant.
LEMMA CallInv ==
  ASSUME CacheInv, NEW op, NEW n, NEW outs, Call(op, n, outs),
         \A o \in outs : Coherent(k, o, LeftBehind(op, n),
                                  IF op = "set" /\ o.ok THEN {n} ELSE {}),
         op \in {"mca", "sca"} =>
             \A o \in outs : o.ok => o.m.words \in Int /\ o.m.room = o.m.words
  PROVE  CacheInv'
<1> DEFINE L == LeftBehind(op, n)
           X(o) == IF op = "set" /\ o.ok THEN {n} ELSE {}
<1>1. PICK o \in outs :
          /\ k' = AtRest(o.m)
          /\ last' = [op |-> op, name |-> n, ok |-> o.ok]
          /\ upset' = (\/ upset \/ o.m.budget < k.budget \/ ~ClockKnown(o.m)
                       \/ ~o.ok /\ o.m.par # k.par)
          /\ outdated' = ((outdated \ X(o)) \cup (L \cap Synced(k))) \cap Synced(o.m)
  <2>1. PICK o \in outs :
          /\ k' = [o.m EXCEPT !.got = 0, !.value = 0]
          /\ last' = [op |-> op, name |-> n, ok |-> o.ok]
          /\ upset' = (\/ upset \/ o.m.budget < k.budget \/ ~ClockKnown(o.m)
                       \/ ~o.ok /\ o.m.par # k.par)
          /\ outdated' = ((outdated \ (IF op = "set" /\ o.ok THEN {n} ELSE {}))
                          \cup (LeftBehind(op, n) \cap Synced(k))) \cap Synced(o.m)
    BY ONLY Call(op, n, outs), ZenonT(30) DEF Call
  <2>2. k' = AtRest(o.m)
    BY <2>1 DEF AtRest
  <2>3. outdated' = ((outdated \ X(o)) \cup (L \cap Synced(k))) \cap Synced(o.m)
    BY <2>1
  <2> HIDE DEF X, L
  <2>4. QED BY <2>1, <2>2, <2>3
<1>2. topic' = topic
  BY DEF Call
<1>3. Coherent(k, o, L, X(o))
  OBVIOUS
<1> HIDE DEF L
<1>4. IsBoard(o.m) /\ o.m.budget <= k.budget /\ IsBoard(k)
  BY <1>3 DEF Coherent, CacheInv
<1>5. /\ IsBoard(k') /\ k'.got = 0 /\ k'.value = 0 /\ k'.entry = o.m.entry
      /\ k'.room = o.m.room /\ k'.words = o.m.words
      /\ \A m \in NameSet : Agrees(o.m, m) <=> Agrees(k', m)
  BY <1>1, <1>4, Rest
<1>6. outdated' \subseteq NameSet
  BY <1>1 DEF Synced
<1>7. ASSUME ~upset' PROVE ClockKnown(k') /\ \A m \in Synced(k') \ outdated' : Agrees(k', m)
  <2>1. /\ ~upset /\ ClockKnown(o.m) /\ (o.ok \/ o.m.par = k.par)
        /\ ~(o.m.budget < k.budget)
    BY <1>1, <1>7
  <2>2. o.m.budget = k.budget
    BY <1>4, <2>1, BoardTypes
  <2>3. Good(k, "clock_speed") /\ Good(o.m, "clock_speed")
    BY <2>1 DEF CacheInv, ClockKnown, Good
  <2>4. \A m \in NameSet : m \in X(o) \/ Clean(k, L, m) => Good(o.m, m)
    BY <1>3, <2>1, <2>2, <2>3 DEF Coherent
  <2>5. "clock_speed" \in NameSet
    BY NamesAre
  <2>6. ClockKnown(k')
    BY <1>5, <2>3, <2>5 DEF ClockKnown, Good
  <2>7. ASSUME NEW m \in Synced(k') \ outdated' PROVE Agrees(k', m)
    <3>1. m \in NameSet /\ m \in Synced(o.m) /\ o.m.entry[m] = "synced"
      BY <1>5 DEF Synced
    <3>2. ~(m \in L /\ m \in Synced(k)) /\ (m \notin outdated \/ m \in X(o))
      BY <1>1, <3>1
    <3>3. CASE m \in X(o)
      BY <1>5, <2>4, <3>1, <3>3 DEF Good
    <3>4. CASE m \notin outdated
      <4>1. Clean(k, L, m)
        BY <2>1, <3>1, <3>2, <3>4 DEF Clean, CacheInv, CacheCoherent, Synced
      <4>2. QED BY <1>5, <2>4, <3>1, <4>1 DEF Good
    <3>5. QED BY <3>2, <3>3, <3>4
  <2>8. QED BY <2>6, <2>7
<1>8. DataFitsLength'
  <2>1. last'.op = op /\ last'.ok = o.ok
    BY <1>1
  <2>2. op \in {"mca", "sca"} /\ o.ok => k'.words \in Int /\ k'.room = k'.words
    BY <1>5
  <2>3. QED BY <2>1, <2>2 DEF DataFitsLength
<1>9. QED BY <1>2, <1>5, <1>6, <1>7, <1>8 DEF CacheInv, CacheCoherent

\* The boards of a start.
LEMMA StartRegisters ==
  ASSUME NEW c \in {0, 1}
  PROVE  LET p == [Registers EXCEPT !["CODEVAR"] = c] IN
         p \in [Params -> Int] /\ \A q \in Params : p[q] \in RegisterValues(q)
<1> DEFINE p == [Registers EXCEPT !["CODEVAR"] = c]
<1>1. \A q \in Params : Registers[q] \in RegisterValues(q)
  <2>1. ASSUME NEW q \in FilterParams \cup EnergyParams \cup SpectrumParams
        PROVE  Registers[q] \in RegisterValues(q)
    <3>1. q \in Params /\ Registers[q] = FlashValue(0, 0, q)
      BY DEF Registers, Params
    <3>2. QED BY <3>1, FlashAssumption
  <2>2. ASSUME NEW q \in GlobalParams, q \notin FilterParams \cup EnergyParams \cup SpectrumParams
        PROVE  Registers[q] \in RegisterValues(q)
    <3>1. q \in Params /\ Registers[q] = 0
      BY <2>2 DEF Registers, Params
    <3>2. 0 \in RegisterValues(q)
      BY <2>2 DEF RegisterValues, FilterParams, GlobalParams
    <3>3. QED BY <3>1, <3>2
  <2>3. QED BY <2>1, <2>2 DEF Params
<1>2. Registers = [q \in Params |-> Registers[q]] /\ "CODEVAR" \in Params
  BY ParamsAre DEF Registers
<1>3. c \in RegisterValues("CODEVAR")
  BY DEF RegisterValues
<1>4. p = [q \in Params |-> p[q]]
  BY <1>2
<1>5. \A q \in Params : p[q] \in RegisterValues(q)
  BY <1>1, <1>2, <1>3
<1>6. p \in [Params -> Int]
  BY <1>4, <1>5, ParamTypes
<1>7. QED BY <1>5, <1>6

\* A board at the start is one, with nothing remembered.
LEMMA StartBoard ==
  ASSUME NEW s \in BOOLEAN, NEW c \in {0, 1}, NEW w \in BOOLEAN, NEW v \in BOOLEAN,
         NEW f \in 0..MaxFaults, NEW b, b = Board(s, c, w, v, f)
  PROVE  IsBoard(b) /\ b.got = 0 /\ b.value = 0 /\ Synced(b) = {}
<1> DEFINE P == FilterParams \cup (IF s THEN EnergyParams ELSE {})
           G == SpectrumParams \cup (IF s THEN {} ELSE EnergyParams)
<1>2. /\ b.super = s /\ b.vega = v /\ b.switched = w /\ b.got = 0 /\ b.value = 0
      /\ b.budget = f /\ b.par = [Registers EXCEPT !["CODEVAR"] = c]
      /\ b.parsets = [x \in {0, 1} \X {0, 1} |-> [p \in P |-> FlashValue(x[1], x[2], p)]]
      /\ b.gensets = [x \in {0, 1} |-> [p \in G |-> FlashValue(0, x, p)]]
      /\ b.entry = [n \in NameSet |->
             IF n \in {"sca0_lo", "sca1_hi"} THEN "absent" ELSE "unknown"]
      /\ b.val = [n \in NameSet |-> IF n = "bytes_per_bin" THEN 3 ELSE 0]
  BY DEF Board
<1>3. b = [g \in Fields |-> b[g]]
  BY DEF Fields, Board
<1>4. ParsetParams(b) = P /\ GensetParams(b) = G
  BY <1>2 DEF ParsetParams, GensetParams
<1>5. P \subseteq Params /\ G \subseteq Params
  BY DEF Params
<1> HIDE DEF P, G
<1>6. \A x \in {0, 1} \X {0, 1} : \A p \in P : b.parsets[x][p] \in RegisterValues(p)
  <2>1. ASSUME NEW x \in {0, 1} \X {0, 1}, NEW p \in P
        PROVE  b.parsets[x][p] \in RegisterValues(p)
    <3>1. x[1] \in {0, 1} /\ x[2] \in {0, 1} /\ p \in Params
      BY <1>5
    <3>2. b.parsets[x][p] = FlashValue(x[1], x[2], p)
      BY <1>2
    <3>3. QED BY <3>1, <3>2, FlashAssumption
  <2>2. QED BY <2>1
<1>7. \A x \in {0, 1} : \A p \in G : b.gensets[x][p] \in RegisterValues(p)
  <2>1. ASSUME NEW x \in {0, 1}, NEW p \in G
        PROVE  b.gensets[x][p] \in RegisterValues(p)
    <3>1. p \in Params /\ b.gensets[x][p] = FlashValue(0, x, p)
      BY <1>2, <1>5
    <3>2. QED BY <3>1, FlashAssumption
  <2>2. QED BY <2>1
<1>8. b.parsets = [x \in {0, 1} \X {0, 1} |-> b.parsets[x]]
      /\ b.gensets = [x \in {0, 1} |-> b.gensets[x]]
  BY <1>2
<1>9. b.entry \in [NameSet -> States] /\ b.val \in [NameSet -> Int]
      /\ \A n \in NameSet : b.entry[n] # "synced"
  BY <1>2 DEF States
<1>10. b.par \in [Params -> Int] /\ \A q \in Params : b.par[q] \in RegisterValues(q)
  BY <1>2, StartRegisters
<1>11. b.budget \in Nat
  BY <1>2, LimitsAssumption
<1>12. "clock_speed" \in NameSet
  BY NamesAre
<1>13. b.super \in BOOLEAN /\ b.vega \in BOOLEAN /\ b.switched \in BOOLEAN
  BY <1>2, Zenon
<1>14. \A x \in {0, 1} \X {0, 1} : \A p \in ParsetParams(b) :
             b.parsets[x][p] \in RegisterValues(p)
  BY <1>4, <1>6, Zenon
<1>15. \A x \in {0, 1} : \A p \in GensetParams(b) : b.gensets[x][p] \in RegisterValues(p)
  BY <1>4, <1>7, Zenon
<1>16. b.value \in Int
  BY <1>2
<1>17. IsBoard(b)
  BY <1>3, <1>8, <1>9, <1>10, <1>11, <1>12, <1>13, <1>14, <1>15, <1>16 DEF IsBoard
<1>18. QED BY <1>2, <1>9, <1>17 DEF Synced

\* The invariant holds at the start.
LEMMA InitInv == Init => CacheInv
<1> SUFFICES ASSUME Init PROVE CacheInv
  OBVIOUS
<1>1. topic \in Topics
  BY ONLY Init, Zenon DEF Init
<1>2. outdated = {} /\ last = [op |-> "start", name |-> "none", ok |-> TRUE]
  BY ONLY Init, Zenon DEF Init
<1>3. last.op = "start"
  BY ONLY <1>2
<1>4. PICK s \in BOOLEAN, f \in 0..MaxFaults :
      \E c \in IF "preamp_value" \in topic THEN {0, 1} ELSE {0} :
      \E w \in IF "gain" \in topic THEN BOOLEAN ELSE {FALSE} :
      \E v \in IF "high_voltage" \in topic /\ s THEN BOOLEAN ELSE {FALSE} :
          k = Board(s, c, w, v, f)
  BY ONLY Init, Zenon DEF Init
<1>5. PICK c \in {0, 1}, w \in BOOLEAN, v \in BOOLEAN : k = Board(s, c, w, v, f)
  BY <1>4
<1>6. IsBoard(k) /\ k.got = 0 /\ k.value = 0 /\ Synced(k) = {}
  BY <1>5, StartBoard
<1>7. ClockKnown(k)
  BY <1>6, NamesAre DEF ClockKnown, Synced
<1>8. CacheCoherent
  BY ONLY <1>6, Zenon DEF CacheCoherent
<1>9. DataFitsLength
  BY ONLY <1>3 DEF DataFitsLength
<1>10. outdated \subseteq NameSet
  BY ONLY <1>2
<1>11. QED BY ONLY <1>1, <1>6, <1>7, <1>8, <1>9, <1>10, Zenon DEF CacheInv

\* A call that is no set and reads no run data.
LEMMA PlainCallInv ==
  ASSUME CacheInv, NEW op, op \notin {"set", "mca", "sca"}, NEW n, NEW outs, Call(op, n, outs),
         \A o \in outs : Coherent(k, o, LeftBehind(op, n), {})
  PROVE  CacheInv'
<1>1. \A o \in outs : Coherent(k, o, LeftBehind(op, n), IF op = "set" /\ o.ok THEN {n} ELSE {})
  OBVIOUS
<1>2. QED BY <1>1, CallInv

\* A call that reads run data.
LEMMA DataCallInv ==
  ASSUME CacheInv, NEW op \in {"mca", "sca"}, NEW n, NEW outs, Call(op, n, outs),
         \A o \in outs : /\ Coherent(k, o, LeftBehind(op, n), {})
                         /\ o.ok => o.m.words \in Int /\ o.m.room = o.m.words
  PROVE  CacheInv'
<1>1. \A o \in outs : Coherent(k, o, LeftBehind(op, n), IF op = "set" /\ o.ok THEN {n} ELSE {})
  OBVIOUS
<1>2. \A o \in outs : o.ok => o.m.words \in Int /\ o.m.room = o.m.words
  OBVIOUS
<1>3. QED BY ONLY CacheInv, op \in {"mca", "sca"}, Call(op, n, outs), <1>1, <1>2, CallInv

\* What the application asks for is in the limits of the name.
LEMMA ValuesAsked ==
  ASSUME NEW t \in Topics, NEW n \in t, NEW v \in Values[n]
  PROVE  n \in NameSet /\ Asks(n, v)
<1>1. /\ t \subseteq NameSet
      /\ Values[n] \subseteq (IF n \in Offsets THEN Int ELSE Nat)
      /\ "genset" \in t => Values["genset"] \subseteq {0, 1}
      /\ "baseline_length" \in t => 0 \notin Values["baseline_length"]
  BY ValuesAssumption
<1>2. v \in Int /\ (n \notin Offsets => v \in Nat)
  BY <1>1
<1>3. n = "genset" => v \in {0, 1}
  BY <1>1
<1>4. n = "baseline_length" => v # 0
  BY <1>1
<1>5. QED BY <1>1, <1>2, <1>3, <1>4 DEF Asks

\* Setting a value keeps the invariant.
LEMMA SetValueInv == ASSUME CacheInv, SetValue PROVE CacheInv'
<1>a. PICK n \in topic : \E v \in Values[n] :
        Call("set", n, UdxpSetAcquisitionValues(Entered(k, n, v), n, v))
  BY ONLY SetValue, Zenon DEF SetValue
<1>1. PICK v \in Values[n] : Call("set", n, UdxpSetAcquisitionValues(Entered(k, n, v), n, v))
  BY ONLY <1>a, Zenon
<1> DEFINE outs == UdxpSetAcquisitionValues(Entered(k, n, v), n, v)
<1>2. n \in NameSet /\ Asks(n, v) /\ IsBoard(k)
  <2>1. IsBoard(k) /\ topic \in Topics
    BY DEF CacheInv
  <2>2. QED BY <2>1, ValuesAsked
<1>3. \A o \in outs : Coherent(k, o, LeftBehind("set", n), IF o.ok THEN {n} ELSE {})
  BY <1>2, SetCoherent
<1>4. Call("set", n, outs)
  BY <1>1
<1> HIDE DEF outs
<1>5. \A o \in outs : Coherent(k, o, LeftBehind("set", n), IF "set" = "set" /\ o.ok THEN {n} ELSE {})
  BY <1>3
<1>6. QED BY <1>4, <1>5, CallInv

\* Getting a value keeps the invariant.
LEMMA GetValueInv == ASSUME CacheInv, GetValue PROVE CacheInv'
<1>1. PICK n \in topic : Call("get", n, UdxpGetAcquisitionValues(k, n, GetFN(k, n)))
  BY ONLY GetValue, Zenon DEF GetValue
<1> DEFINE outs == UdxpGetAcquisitionValues(k, n, GetFN(k, n))
<1>2. n \in NameSet /\ IsBoard(k) /\ k.got \in Int
  BY ValuesAssumption DEF CacheInv
<1>3. \A o \in outs : Coherent(k, o, LeftBehind("get", n), {})
  BY <1>2, GetCoherent
<1>4. Call("get", n, outs)
  BY <1>1
<1> HIDE DEF outs
<1>5. QED BY <1>3, <1>4, PlainCallInv

\* Removing a value keeps the invariant.
LEMMA RemoveValueInv == ASSUME CacheInv, RemoveValue PROVE CacheInv'
<1>1. PICK n \in topic : Call("remove", n, Done([k EXCEPT !.entry[n] = "absent"]))
  BY ONLY RemoveValue, Zenon DEF RemoveValue
<1> DEFINE outs == Done([k EXCEPT !.entry[n] = "absent"])
<1>2. n \in NameSet /\ IsBoard(k)
  BY ValuesAssumption DEF CacheInv
<1>3. \A o \in outs : Coherent(k, o, LeftBehind("remove", n), {})
  BY <1>2, RemoveCoherent
<1>4. Call("remove", n, outs)
  BY <1>1
<1> HIDE DEF outs
<1>5. QED BY <1>3, <1>4, PlainCallInv

\* Loading a FiPPI keeps the invariant.
LEMMA DownloadFiPPIInv == ASSUME CacheInv, DownloadFiPPI PROVE CacheInv'
<1>1. PICK f \in {0, 1} : Call("download", "fippi", UdxpDownloadFirmware(k, f))
  BY ONLY DownloadFiPPI, Zenon DEF DownloadFiPPI
<1> DEFINE outs == UdxpDownloadFirmware(k, f)
<1>2. IsBoard(k)
  BY DEF CacheInv
<1>3. \A o \in outs : Coherent(k, o, LeftBehind("download", "fippi"), {})
  BY <1>2, DownloadCoherent
<1>4. Call("download", "fippi", outs)
  BY <1>1
<1> HIDE DEF outs
<1>5. QED BY <1>3, <1>4, PlainCallInv

\* Saving a parameter set keeps the invariant.
LEMMA SaveParsetInv == ASSUME CacheInv, SaveParset PROVE CacheInv'
<1>1. PICK s \in {0, 1} : Call("save", "parset", UdxpSaveParset(k, s))
  BY ONLY SaveParset, Zenon DEF SaveParset
<1> DEFINE outs == UdxpSaveParset(k, s)
<1>2. IsBoard(k)
  BY DEF CacheInv
<1>3. \A o \in outs : Coherent(k, o, LeftBehind("save", "parset"), {})
  BY <1>2, SaveParsetCoherent
<1>4. Call("save", "parset", outs)
  BY <1>1
<1> HIDE DEF outs
<1>5. QED BY <1>3, <1>4, PlainCallInv

\* Saving a general set keeps the invariant.
LEMMA SaveGensetInv == ASSUME CacheInv, SaveGenset PROVE CacheInv'
<1>1. PICK s \in {0, 1} : Call("save", "genset", UdxpSaveGenset(k, s))
  BY ONLY SaveGenset, Zenon DEF SaveGenset
<1> DEFINE outs == UdxpSaveGenset(k, s)
<1>2. IsBoard(k)
  BY DEF CacheInv
<1>3. \A o \in outs : Coherent(k, o, LeftBehind("save", "genset"), {})
  BY <1>2, SaveGensetCoherent
<1>4. Call("save", "genset", outs)
  BY <1>1
<1> HIDE DEF outs
<1>5. QED BY <1>3, <1>4, PlainCallInv

\* Setting a preset keeps the invariant.
LEMMA SetPresetInv == ASSUME CacheInv, SetPreset PROVE CacheInv'
<1>1. PICK t \in Values["preset_type"] :
          Call("set_preset", "preset_type", UdxpSetPreset(k, t, 3))
  BY ONLY SetPreset, Zenon DEF SetPreset
<1> DEFINE outs == UdxpSetPreset(k, t, 3)
<1>2. IsBoard(k) /\ t \in Int /\ 3 \in Int
  <2>1. topic \in Topics /\ "preset_type" \in topic
    BY DEF SetPreset, CacheInv
  <2>2. IsBoard(k)
    BY DEF CacheInv
  <2>3. QED BY <2>1, <2>2, ValuesAsked DEF Asks
<1>3. \A o \in outs : Coherent(k, o, LeftBehind("set_preset", "preset_type"), {})
  BY <1>2, SetPresetCoherent
<1>4. Call("set_preset", "preset_type", outs)
  BY <1>1
<1> HIDE DEF outs
<1>5. QED BY <1>3, <1>4, PlainCallInv

\* Calibrating keeps the invariant.
LEMMA CalibrateInv == ASSUME CacheInv, Calibrate PROVE CacheInv'
<1> DEFINE g == UdxpGainCalibrate(k, 2)
           t == UdxpGainTrimCalibrate(k, 2)
<1>1. /\ "absent" \notin {k.entry["gain"], k.entry["gain_trim"]}
      /\ Call("calibrate", "gain", g) \/ Call("calibrate", "gain_trim", t)
  BY ONLY Calibrate, Zenon DEF Calibrate
<1>2. IsBoard(k) /\ k.entry["gain"] # "absent" /\ k.entry["gain_trim"] # "absent"
  BY <1>1 DEF CacheInv
<1>3. \A o \in g : Coherent(k, o, LeftBehind("calibrate", "gain"), {})
  BY <1>2, GainCalibrateCoherent
<1>4. \A o \in t : Coherent(k, o, LeftBehind("calibrate", "gain_trim"), {})
  BY <1>2, GainTrimCalibrateCoherent
<1> HIDE DEF g, t
<1>5. CASE Call("calibrate", "gain", g)
  BY <1>3, <1>5, PlainCallInv
<1>6. CASE Call("calibrate", "gain_trim", t)
  BY <1>4, <1>6, PlainCallInv
<1>7. QED BY <1>1, <1>5, <1>6

\* Taking a trace keeps the invariant.
LEMMA TraceInv == ASSUME CacheInv, Trace PROVE CacheInv'
<1> DEFINE outs == UdxpDoTrace(k, 9)
<1>1. k.entry["adc_trace_wait"] # "absent" /\ Call("trace", "adc_trace_wait", outs)
  BY ONLY Trace, Zenon DEF Trace
<1>2. IsBoard(k)
  BY DEF CacheInv
<1>3. \A o \in outs : Coherent(k, o, LeftBehind("trace", "adc_trace_wait"), {})
  BY <1>1, <1>2, TraceCoherent
<1> HIDE DEF outs
<1>4. QED BY <1>1, <1>3, PlainCallInv

\* Reading a spectrum keeps the invariant.
LEMMA ReadMCAInv == ASSUME CacheInv, ReadMCA PROVE CacheInv'
<1> DEFINE outs == RunData(k, "mca")
<1>1. Call("mca", "number_mca_channels", outs)
  BY ONLY ReadMCA, Zenon DEF ReadMCA
<1>2. IsBoard(k) /\ k.got \in Int
  BY DEF CacheInv
<1>3. \A o \in outs : /\ Coherent(k, o, LeftBehind("mca", "number_mca_channels"), {})
                      /\ o.ok => o.m.words \in Int /\ o.m.room = o.m.words
  BY <1>2, McaCoherent
<1> HIDE DEF outs
<1>4. QED BY <1>1, <1>3, DataCallInv

\* Reading the SCAs keeps the invariant.
LEMMA ReadSCAInv == ASSUME CacheInv, ReadSCA PROVE CacheInv'
<1> DEFINE outs == RunData(k, "sca")
<1>1. Call("sca", "number_of_scas", outs)
  BY ONLY ReadSCA, Zenon DEF ReadSCA
<1>2. IsBoard(k)
  BY DEF CacheInv
<1>3. \A o \in outs : /\ Coherent(k, o, LeftBehind("sca", "number_of_scas"), {})
                      /\ o.ok => o.m.words \in Int /\ o.m.room = o.m.words
  BY <1>2, ScaDataCoherent
<1> HIDE DEF outs
<1>4. QED BY <1>1, <1>3, DataCallInv

\* So does every step.
LEMMA NextInv == ASSUME CacheInv, [Next]_vars PROVE CacheInv'
<1>1. CASE Next
  BY <1>1, SetValueInv, GetValueInv, RemoveValueInv, SetPresetInv, DownloadFiPPIInv,
     SaveParsetInv, SaveGensetInv, CalibrateInv, TraceInv, ReadMCAInv, ReadSCAInv DEF Next
<1>2. CASE UNCHANGED vars
  <2>1. /\ k' = k /\ topic' = topic /\ outdated' = outdated /\ upset' = upset
        /\ last' = last
    BY <1>2 DEF vars
  <2>2. QED BY ONLY CacheInv, <2>1, Zenon
        DEF CacheInv, CacheCoherent, DataFitsLength, Synced, ClockKnown
<1>3. QED BY <1>1, <1>2

-----------------------------------------------------------------------------
(* The theorems. *)

\* The invariant holds in every state of a behaviour.
LEMMA Invariant == Spec => []CacheInv
<1>1. QED BY InitInv, NextInv, PTL DEF Spec

\* The board and its defaults are what they are taken for: every register in the
\* range the microprocessor keeps it in, the sets of the flash memory with the
\* parameters their FiPPI and product have, every entry in one of its three states.
THEOREM BoardTypeCorrect == Spec => []IsBoard(k)
<1>1. CacheInv => IsBoard(k)
  BY DEF CacheInv
<1>2. QED BY <1>1, Invariant, PTL

\* A value the host believes in is the value of the board, as long as no command
\* failed, but for the entries that a call is known to leave behind.
THEOREM CacheIsCoherent == Spec => []CacheCoherent
<1>1. CacheInv => CacheCoherent
  BY DEF CacheInv
<1>2. QED BY <1>1, Invariant, PTL

\* A spectrum or the counts of SCAs fill exactly the buffer whose length was asked
\* for in the same call.
THEOREM DataFitTheirLength == Spec => []DataFitsLength
<1>1. CacheInv => DataFitsLength
  BY DEF CacheInv
<1>2. QED BY <1>1, Invariant, PTL

\* A call is remembered by its kind, its name and how it ended.
LEMMA CallIs ==
  ASSUME NEW op, NEW n, NEW outs, Call(op, n, outs)
  PROVE  last'.op = op /\ \E o \in outs : k' = AtRest(o.m) /\ last'.name = n /\ last'.ok = o.ok
<1>1. PICK o \in outs :
          /\ k' = [o.m EXCEPT !.got = 0, !.value = 0]
          /\ last' = [op |-> op, name |-> n, ok |-> o.ok]
  BY ONLY Call(op, n, outs), ZenonT(30) DEF Call
<1>2. k' = AtRest(o.m)
  BY <1>1 DEF AtRest
<1>3. last'.op = op /\ last'.name = n /\ last'.ok = o.ok
  BY ONLY <1>1
<1>4. QED BY <1>2, <1>3

\* Only SetValue records a set as the last call.
LEMMA OtherCalls ==
  ASSUME Next, ~SetValue
  PROVE  last'.op # "set"
<1>1. CASE GetValue
  <2>1. PICK n \in topic : Call("get", n, UdxpGetAcquisitionValues(k, n, GetFN(k, n)))
    BY ONLY GetValue, Zenon DEF GetValue
  <2>2. QED BY <2>1, CallIs
<1>2. CASE RemoveValue
  <2>1. PICK n \in topic : Call("remove", n, Done([k EXCEPT !.entry[n] = "absent"]))
    BY ONLY RemoveValue, Zenon DEF RemoveValue
  <2>2. QED BY <2>1, CallIs
<1>3. CASE SetPreset
  <2>1. PICK t \in Values["preset_type"] :
            Call("set_preset", "preset_type", UdxpSetPreset(k, t, 3))
    BY ONLY SetPreset, Zenon DEF SetPreset
  <2>2. QED BY <2>1, CallIs
<1>4. CASE DownloadFiPPI
  <2>1. PICK f \in {0, 1} : Call("download", "fippi", UdxpDownloadFirmware(k, f))
    BY ONLY DownloadFiPPI, Zenon DEF DownloadFiPPI
  <2>2. QED BY <2>1, CallIs
<1>5. CASE SaveParset
  <2>1. PICK s \in {0, 1} : Call("save", "parset", UdxpSaveParset(k, s))
    BY ONLY SaveParset, Zenon DEF SaveParset
  <2>2. QED BY <2>1, CallIs
<1>6. CASE SaveGenset
  <2>1. PICK s \in {0, 1} : Call("save", "genset", UdxpSaveGenset(k, s))
    BY ONLY SaveGenset, Zenon DEF SaveGenset
  <2>2. QED BY <2>1, CallIs
<1>7. CASE Calibrate
  <2>1. \/ Call("calibrate", "gain", UdxpGainCalibrate(k, 2))
        \/ Call("calibrate", "gain_trim", UdxpGainTrimCalibrate(k, 2))
    BY ONLY Calibrate, Zenon DEF Calibrate
  <2>2. QED BY <2>1, CallIs
<1>8. CASE Trace
  <2>1. Call("trace", "adc_trace_wait", UdxpDoTrace(k, 9))
    BY ONLY Trace, Zenon DEF Trace
  <2>2. QED BY <2>1, CallIs
<1>9. CASE ReadMCA
  <2>1. Call("mca", "number_mca_channels", RunData(k, "mca"))
    BY ONLY ReadMCA, Zenon DEF ReadMCA
  <2>2. QED BY <2>1, CallIs
<1>10. CASE ReadSCA
  <2>1. Call("sca", "number_of_scas", RunData(k, "sca"))
    BY ONLY ReadSCA, Zenon DEF ReadSCA
  <2>2. QED BY <2>1, CallIs
<1>11. QED BY <1>1, <1>2, <1>3, <1>4, <1>5, <1>6, <1>7, <1>8, <1>9, <1>10 DEF Next

\* A set that succeeds, whatever the board was like before.
LEMMA SetStepTrue ==
  ASSUME CacheInv, SetValue, last'.ok, ClockKnown(k')
  PROVE  Agrees(k', last'.name)
<1>1. PICK n \in topic : \E v \in Values[n] :
        Call("set", n, UdxpSetAcquisitionValues(Entered(k, n, v), n, v))
  BY ONLY SetValue, Zenon DEF SetValue
<1>2. PICK v \in Values[n] : Call("set", n, UdxpSetAcquisitionValues(Entered(k, n, v), n, v))
  BY ONLY <1>1, Zenon
<1> DEFINE outs == UdxpSetAcquisitionValues(Entered(k, n, v), n, v)
<1>3. Call("set", n, outs)
  BY <1>2
<1>4. IsBoard(k) /\ topic \in Topics
  BY DEF CacheInv
<1>5. n \in NameSet /\ Asks(n, v)
  BY <1>4, ValuesAsked
<1>6. \A o \in outs : Coherent(k, o, LeftBehind("set", n), IF o.ok THEN {n} ELSE {})
  BY <1>4, <1>5, SetCoherent
<1>7. \A o \in outs : o.ok /\ Good(o.m, "clock_speed") => Agrees(o.m, n)
  BY <1>4, <1>5, SetTrue
<1> HIDE DEF outs
<1>8. PICK o \in outs : k' = AtRest(o.m) /\ last'.name = n /\ last'.ok = o.ok
  BY <1>3, CallIs
<1>9. IsBoard(o.m)
  BY <1>6 DEF Coherent
<1>10. k'.entry = o.m.entry /\ \A m \in NameSet : Agrees(o.m, m) <=> Agrees(k', m)
  BY <1>8, <1>9, Rest
<1>11. Good(o.m, "clock_speed")
  BY <1>10, NamesAre DEF ClockKnown, Good
<1>12. QED BY <1>5, <1>7, <1>8, <1>10, <1>11

\* A set that succeeds makes its entry true whatever went wrong before: a command
\* whose answer was lost, an entry left behind, one removed and entered again.
THEOREM SetsMakeTrue == Spec => SetMakesTrue
<1>1. CacheInv /\ [Next]_vars =>
          [last'.op = "set" /\ last'.ok /\ ClockKnown(k') => Agrees(k', last'.name)]_vars
  BY OtherCalls, SetStepTrue
<1>2. QED BY <1>1, Invariant, PTL DEF Spec, SetMakesTrue

\* What the application is told of a value is what the board has, whether the entry
\* is asked or the board, and being asked changes no register but a number of SCAs
\* the board cannot have.
THEOREM GetsAnswerTheBoard ==
  ASSUME NEW b, IsBoard(b), b.got \in Int, NEW n \in NameSet, Good(b, n),
         Good(b, "clock_speed"), NEW o, o \in UdxpGetAcquisitionValues(b, n, GetFN(b, n))
  PROVE  o.ok => /\ Fits(o.m, n, o.m.got)
                 /\ \A p \in Params \ {"NUMSCA"} : o.m.par[p] = b.par[p]
<1> DEFINE outs == GetFN(b, n)
           R == {"NUMSCA"}
           N == {"number_of_scas"}
<1>1. "CLOCK" \notin R /\ "NUMSCA" \in R /\ "number_of_scas" \in N
  OBVIOUS
<1>2. n \in N \/ Sources(n) \cap R = {}
  BY NamesAre, SourcesAre
<1>3. n = "clock_speed" =>
          \A z \in outs : z.ok => /\ z.m.got > 0 /\ Fits(z.m, n, z.m.got)
                                  /\ z.m.entry = b.entry
  <2>1. ASSUME n = "clock_speed", NEW z \in outs, z.ok
        PROVE  z.m.got > 0 /\ Fits(z.m, n, z.m.got) /\ z.m.entry = b.entry
    <3>1. z \in UdxpGetClockSpd(b)
      BY <2>1 DEF GetFN
    <3>2. QED BY <2>1, <3>1, ClockSpdOut DEF Same
  <2>2. QED BY <2>1
<1>4. R = {"NUMSCA"}
  OBVIOUS
<1> HIDE DEF R, N
<1>5. \A z \in outs : GetFine(b, z, n, R, N)
  BY <1>1, GetFNFine
<1>6. o \in UdxpGetAcquisitionValues(b, n, outs)
  OBVIOUS
<1> HIDE DEF outs
<1>7. Out(b, o, R, N) /\ Acquired(b, o, n)
  BY <1>2, <1>3, <1>5, <1>6, AcquireOut
<1>8. o.ok => Fits(o.m, n, o.m.got)
  BY <1>7, AcquiredGood
<1>9. o.ok => \A p \in Params \ R : o.m.par[p] = b.par[p]
  BY <1>7 DEF Out, Step
<1>10. QED BY <1>4, <1>8, <1>9

=============================================================================
