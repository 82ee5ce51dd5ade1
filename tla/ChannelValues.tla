----------------------------- MODULE ChannelValues -----------------------------
(***************************************************************************)
(* The acquisition values that say how a channel counts and how a module   *)
(* is mapped, in the xMAP, Mercury, STJ and Saturn: the length of the      *)
(* spectrum, the preset run, the regions of interest (SCAs), the mapping   *)
(* mode, its pixels and buffers, and the bits of the module's registers:   *)
(* polarity of the input, gate, pixel advance, synchronous runs, master.   *)
(*                                                                         *)
(* The registers belong to the system FPGA that all channels share, and    *)
(* switching the mapping mode loads another one.  A module is a record as  *)
(* in AcqValues, with                                                      *)
(*   sys       the system FPGA: "mca" (the one it starts with), "mapping"  *)
(*             (its register VAR says so) or "broken"                      *)
(*   cacheSys  m->currentFirmware[c].currentSysFPGA, the same for all c    *)
(*   mcr, csr  the bits set in the registers MCR and CSR                   *)
(*   sync, clear  the registers SYNCCNT and CLRBUFSIZE                     *)
(*   sca       the limits of the SCAs in the DSP, by channel and name      *)
(*   nSca      m->ch[c].n_sca                                              *)
(*   host      m->ch[c].sca_lo and sca_hi, which only the Saturn reads     *)
(*   freed, ended  an entry of the defaults was freed twice; the process    *)
(*             did not survive it                                          *)
(*                                                                         *)
(* Not here: the variants of the Mercury OEM.                              *)
(***************************************************************************)
EXTENDS AcqValues, FiniteSets

CONSTANTS Products,        \* which modules
          Topics,          \* sets of values set together
          Values,          \* what the application asks for, by name
          Start,           \* the defaults before the first call
          Block,           \* *_MEMORY_BLOCK_SIZE
          MinBins,         \* MIN_MCA_CHANNELS
          MaxBins,         \* MAX_MCA_CHANNELS, the bound of MCALIMHI
          BinWidth,        \* mca_bin_width, of which mca_low_limit is a multiple
          MaxScas,         \* MAX_NUM_INTERNAL_SCA
          WordSize,        \* how many values a parameter has
          PresetScale,     \* preset clock ticks per unit of time
          Auto,            \* stands for -1: the DSP chooses the pixels per buffer
          MaxFaults,       \* accesses that fail
          MaxCalls         \* calls after the start

Limits == <<"sca0_lo", "sca0_hi", "sca1_lo", "sca1_hi">>
ScaNum(n) == IF n \in {"sca0_lo", "sca0_hi"} THEN 0 ELSE 1

\* The defaults of a product in their order; what need not be there, at the end.
NamesOf == [
    xmap |-> <<"number_mca_channels", "preset_type", "preset_value", "number_of_scas",
               "num_map_pixels_per_buffer", "num_map_pixels", "input_logic_polarity",
               "gate_master", "sync_master", "sync_count", "gate_ignore", "gate_mode",
               "lbus_master", "mapping_mode", "synchronous_run", "list_mode_variant",
               "buffer_clear_size">> \o Limits \o <<"pixel_advance_mode">>,
    mercury |-> <<"preset_type", "preset_value", "number_mca_channels", "number_of_scas",
                  "mapping_mode", "input_logic_polarity", "gate_ignore",
                  "list_mode_variant">> \o Limits \o
                <<"num_map_pixels_per_buffer", "num_map_pixels", "pixel_advance_mode",
                  "sync_count">>,
    stj |-> <<"number_mca_channels", "preset_type", "preset_value",
              "num_map_pixels_per_buffer", "num_map_pixels", "mapping_mode",
              "list_mode_variant">>,
    saturn |-> <<"number_mca_channels", "mca_low_limit", "preset_type", "preset_value",
                 "number_of_scas">> \o Limits \o
               <<"preset_standard", "preset_runtime">>]

Names == UNION {ToSet(NamesOf[p]) : p \in DOMAIN NamesOf}

Params == {"MCALIMLO", "MCALIMHI", "PRESETTYPE", "PRESETLEN", "PRESETLENA",
           "PRESETLENB", "PRESETLENC", "NUMSCA", "NUMPIXELS", "NUMPIXELSA",
           "PIXPERBUF", "MAPPINGMODE", "MODNUM", "SCAMAPMODE", "DETCHANNEL",
           "DETELEMENT", "GATEMODE", "LISTMODEVAR"}

VARIABLES m,      \* the module
          topic,  \* the names this behaviour is about
          last,   \* the last call: [op, name, value, chans, ok]
          calls   \* how many there were

vars == <<m, topic, last, calls>>

Chans(product) == IF product = "saturn" THEN {0} ELSE {0, 1}

-----------------------------------------------------------------------------
(* Spectrum and preset run. *)

\* psl__SetNumMCAChans: whole blocks of memory, from MCALIMLO on.
XmapSetNumMCAChans(k, c) ==
    LET bins == k.value - (k.value % Block) IN
    IF bins > MaxBins \/ bins < MinBins THEN Refused(k)
    ELSE Then(Access(k, [k EXCEPT !.value = bins]), LAMBDA a :
              SetParameter(a, c, "MCALIMHI", a.par[c]["MCALIMLO"] + bins))
MercurySetNumMCAChans(k, c) == XmapSetNumMCAChans(k, c)

\* The STJ takes the nearest number there is.
StjSetNumMCAChans(k, c) ==
    LET near == IF k.value > MaxBins THEN MaxBins
                ELSE IF k.value < MinBins THEN MinBins ELSE k.value IN
    XmapSetNumMCAChans([k EXCEPT !.value = near], c)

\* pslDoNumMCAChannels: within the bounds of the parameter, wherever it starts.
SaturnDoNumMCAChannels(k, c) ==
    LET hi == k.value + k.par[c]["MCALIMLO"] IN
    Then(Access(k, k), LAMBDA a :
         IF k.value < MinBins \/ k.value > MaxBins \/ hi > MaxBins THEN Refused(a)
         ELSE Then(SetParameter(a, c, "MCALIMHI", hi), LAMBDA b :
                   Done(PslSetDefault(b, c, "number_mca_channels", k.value))))

\* pslDoMCALowLimit: asked for in eV, remembered in bins.
SaturnDoMCALowLimit(k, c) ==
    LET bin == k.value \div BinWidth IN
    Then(Access(k, k), LAMBDA a :
         IF bin > a.par[c]["MCALIMHI"] - 1 THEN Refused(a)
         ELSE Then(SetParameter(a, c, "MCALIMLO", bin), LAMBDA b :
                   Done(PslSetDefault(b, c, "mca_low_limit", bin))))

\* XIA_PRESET_NONE, _FIXED_REAL, _FIXED_LIVE, _FIXED_EVENTS, _FIXED_TRIGGERS
PresetTypes == 0..4

\* psl__SetPresetType
XmapSetPresetType(k, c) ==
    IF k.value \notin PresetTypes THEN Refused(k)
    ELSE SetParameter(k, c, "PRESETTYPE", k.value)
MercurySetPresetType(k, c) == XmapSetPresetType(k, c)
StjSetPresetType(k, c) == XmapSetPresetType(k, c)
SaturnSetPresetType(k, c) ==
    Then(XmapSetPresetType(k, c), LAMBDA a :
         Done(PslSetDefault(a, c, "preset_type", a.value)))

\* Times are counted in ticks of the preset clock, events as they are.
PresetLength(type, v) == IF type \in {1, 2} THEN v * PresetScale ELSE v

\* Word i of a length.
Digit(x, i) == (x \div WordSize^i) % WordSize

PresetWords(len) ==
    <<<<"PRESETLEN", Digit(len, 0)>>, <<"PRESETLENA", Digit(len, 1)>>,
      <<"PRESETLENB", Digit(len, 2)>>, <<"PRESETLENC", Digit(len, 3)>>>>

\* psl__SetPresetValue: means what the type in the DSP says; without a type it
\* is only remembered.
XmapSetPresetValue(k, c) ==
    LET type == k.par[c]["PRESETTYPE"] IN
    Then(Access(k, k), LAMBDA a :
         IF type = 0 THEN Done(a)
         ELSE Writes(a, c, PresetWords(PresetLength(type, a.value))))
MercurySetPresetValue(k, c) == XmapSetPresetValue(k, c)
StjSetPresetValue(k, c) == XmapSetPresetValue(k, c)

\* The Saturn has two words, the high one first, and remembers nothing without
\* a type.
SaturnSetPresetValue(k, c) ==
    LET type == k.par[c]["PRESETTYPE"]
        len == PresetLength(type, k.value) IN
    Then(Access(k, k), LAMBDA a :
         IF k.value >= WordSize^2 THEN Refused(a)
         ELSE IF type = 0 THEN Done(a)
         ELSE Then(Writes(a, c, <<<<"PRESETLENA", Digit(len, 1)>>,
                                  <<"PRESETLEN", Digit(len, 0)>>>>), LAMBDA b :
                   Done(PslSetDefault(b, c, "preset_value", b.value))))

\* preset_standard is a preset type, preset_runtime and the like a type and a
\* value.
SaturnSetPresetRun(k, c, type) ==
    Then(SaturnSetPresetType(Asked(k, type), c), LAMBDA a :
         IF type = 0 THEN Done(Asked(a, k.value))
         ELSE SaturnSetPresetValue(Asked(a, k.value), c))

-----------------------------------------------------------------------------
(* Regions of interest. *)

\* The limits of the SCAs from n on, in the order they are removed in.
Gone(k, c, n) == SelectSeq(Limits, LAMBDA e : ScaNum(e) >= n /\ ScaNum(e) < k.nSca[c])

\* pslRemoveDefault leaves its result as it was when there is no such limit, so
\* that what was removed before is freed once more: the process may end.
FreesTwice(k, c, n) ==
    LET gone == Gone(k, c, n) IN
    \E i, j \in DOMAIN gone :
        i < j /\ k.val[c][gone[i]] # NoEntry /\ k.val[c][gone[j]] = NoEntry

DropLimits(k, c, n) ==
    LET limits == ToSet(Gone(k, c, n))
        kept == [k EXCEPT !.val[c] = [e \in DOMAIN @ |-> IF e \in limits THEN NoEntry ELSE @[e]]]
        twice == [kept EXCEPT !.freed = TRUE]
    IN IF FreesTwice(k, c, n) THEN Done(twice) \cup Refused([twice EXCEPT !.ended = TRUE])
       ELSE Done(kept)

\* pslDestroySCAs, and the arrays that are allocated after it.
DestroySCAs(k, c) == [k EXCEPT !.nSca[c] = 0, !.host[c] = [e \in DOMAIN @ |-> 0]]

\* psl__SetNumberSCAs: the limits of those that go are forgotten even when the
\* number is not accepted.
XmapSetNumberSCAs(k, c) ==
    IF k.value > MaxScas THEN Refused(k)
    ELSE Then(DropLimits(k, c, k.value), LAMBDA d :
         Then(SetParameter(DestroySCAs(d, c), c, "NUMSCA", k.value), LAMBDA a :
              Done([a EXCEPT !.nSca[c] = k.value])))
MercurySetNumberSCAs(k, c) == XmapSetNumberSCAs(k, c)

\* _pslDoNSca
SaturnDoNSca(k, c) ==
    Then(XmapSetNumberSCAs(k, c), LAMBDA a :
         Done(PslSetDefault(a, c, "number_of_scas", k.value)))

\* Mutant: one SCA more than there are.
MutSetSCA(k, c, n) ==
    IF ScaNum(n) > k.nSca[c] THEN Refused(k)
    ELSE Then(Access(k, k), LAMBDA a : Access(a, [a EXCEPT !.sca[c][n] = k.value]))

\* psl__SetSCA: the limit is written to the data memory.
XmapSetSCA(k, c, n) ==
    IF ScaNum(n) >= k.nSca[c] THEN Refused(k)
    ELSE Then(Access(k, k), LAMBDA a : Access(a, [a EXCEPT !.sca[c][n] = k.value]))
MercurySetSCA(k, c, n) == XmapSetSCA(k, c, n)

Lower == [sca0_hi |-> "sca0_lo", sca1_hi |-> "sca1_lo"]
Upper == [sca0_lo |-> "sca0_hi", sca1_lo |-> "sca1_hi"]

\* The Saturn compares a limit with the other one, unless that is 0.
Mismatch(k, c, n) ==
    IF n \in DOMAIN Upper
    THEN k.host[c][Upper[n]] # 0 /\ k.value > k.host[c][Upper[n]]
    ELSE k.host[c][Lower[n]] # 0 /\ k.value < k.host[c][Lower[n]]

\* _pslDoSCA
SaturnDoSCA(k, c, n) ==
    IF ScaNum(n) >= k.nSca[c] \/ Mismatch(k, c, n) THEN Refused(k)
    ELSE Then(Access(k, [k EXCEPT !.sca[c][n] = k.value]), LAMBDA a :
              Done(PslSetDefault([a EXCEPT !.host[c][n] = k.value], c, n, k.value)))

-----------------------------------------------------------------------------
(* Mapping and the registers. *)

\* psl__IsMapping, as what G is given: whether the channel is mapping.  The
\* FPGA for mapping with a channel whose MAPPINGMODE is none of the modes is a
\* case the code does not expect: an assertion, or whatever the variable was.
XmapIsMapping(k, c) ==
    IF k.sys # "mapping" THEN {FALSE}
    ELSE IF k.par[c]["MAPPINGMODE"] = 0 THEN {TRUE, FALSE} ELSE {TRUE}

\* The Mercury asks for list mode only.
MercuryIsMapping(k, c) ==
    IF k.sys # "mapping" THEN {FALSE}
    ELSE CASE k.par[c]["MAPPINGMODE"] = 0 -> {TRUE, FALSE}
           [] k.par[c]["MAPPINGMODE"] = 3 -> {TRUE}
           [] OTHER -> {FALSE}

\* The STJ has one FPGA, and the parameter decides.
StjIsMapping(k, c) == {k.par[c]["MAPPINGMODE"] # 0}

\* Writes that are made only when mapping is as asked; the status is a success
\* either way.
WhenMapping(k, c, mapping, ws) ==
    Then(Access(k, k), LAMBDA a :
         UNION {IF is THEN Writes(a, c, ws) ELSE Done(a) : is \in mapping})

\* The two words of a number of pixels.
PixelWords(n) == <<<<"NUMPIXELS", n % WordSize>>,
                   <<"NUMPIXELSA", (n \div WordSize) % WordSize>>>>

\* psl__SetNumMapPixels
XmapSetNumMapPixels(k, c) == Writes(k, c, PixelWords(k.value))
MercurySetNumMapPixels(k, c) == XmapSetNumMapPixels(k, c)
StjSetNumMapPixels(k, c) ==
    WhenMapping(k, c, StjIsMapping(k, c), PixelWords(k.value))

\* psl__SetNumMapPtsBuffer
PixPerBuf(v) == IF v = Auto THEN 0 ELSE v
XmapSetNumMapPtsBuffer(k, c) == SetParameter(k, c, "PIXPERBUF", PixPerBuf(k.value))
MercurySetNumMapPtsBuffer(k, c) == XmapSetNumMapPtsBuffer(k, c)
StjSetNumMapPtsBuffer(k, c) ==
    WhenMapping(k, c, StjIsMapping(k, c), <<<<"PIXPERBUF", PixPerBuf(k.value)>>>>)

\* psl__SetListModeVariant, up to XIA_LIST_MODE_CLOCK and XIA_LIST_MODE_PMT.
XmapSetListModeVariant(k, c) ==
    Then(Access(k, k), LAMBDA a :
         UNION {IF ~is THEN Done(a) ELSE IF a.value > 2 THEN Refused(a)
                ELSE SetParameter(a, c, "LISTMODEVAR", a.value) : is \in XmapIsMapping(a, c)})
MercurySetListModeVariant(k, c) ==
    WhenMapping(k, c, MercuryIsMapping(k, c), <<<<"LISTMODEVAR", k.value>>>>)
StjSetListModeVariant(k, c) ==
    Then(Access(k, k), LAMBDA a :
         UNION {IF ~is THEN Done(a) ELSE IF a.value > 3 THEN Refused(a)
                ELSE SetParameter(a, c, "LISTMODEVAR", a.value) : is \in StjIsMapping(a, c)})

\* psl__SetGateMode
XmapSetGateMode(k, c) == SetParameter(k, c, "GATEMODE", k.value)

\* psl__SetRegisterBit and psl__ClearRegisterBit: the register is read and
\* written.
XmapSetRegisterBit(k, bit) ==
    Then(Access(k, k), LAMBDA a : Access(a, [a EXCEPT !.mcr = @ \cup {bit}]))
XmapClearRegisterBit(k, bit) ==
    Then(Access(k, k), LAMBDA a : Access(a, [a EXCEPT !.mcr = @ \ {bit}]))
MercurySetRegisterBit(k, bit) == XmapSetRegisterBit(k, bit)
MercuryClearRegisterBit(k, bit) == XmapClearRegisterBit(k, bit)

\* psl__SetInputLogicPolarity, psl__SetGateIgnore: anything but 1 clears.
XmapSetInputLogicPolarity(k) ==
    IF k.value = 1 THEN XmapSetRegisterBit(k, 2) ELSE XmapClearRegisterBit(k, 2)
XmapSetGateIgnore(k) ==
    IF k.value = 1 THEN XmapSetRegisterBit(k, 5) ELSE XmapClearRegisterBit(k, 5)
MercurySetInputLogicPolarity(k) == XmapSetInputLogicPolarity(k)
MercurySetGateIgnore(k) == XmapSetGateIgnore(k)

\* psl__SetPixelAdvanceMode: XIA_MAPPING_CTL_GATE and _SYNC.
XmapSetPixelAdvanceMode(k) ==
    CASE k.value = 1 -> XmapClearRegisterBit(k, 4)
      [] k.value = 2 -> XmapSetRegisterBit(k, 4)
      [] OTHER -> Refused(k)
MercurySetPixelAdvanceMode(k) == XmapSetPixelAdvanceMode(k)

\* psl__SetSynchRun: a bit of the other register.
XmapSetSynchRun(k) ==
    IF k.value \notin {0, 1} THEN Refused(k)
    ELSE Then(Access(k, k), LAMBDA a :
              Access(a, [a EXCEPT !.csr = IF k.value = 1 THEN @ \cup {4} ELSE @ \ {4}]))

\* psl__SetSyncCount
XmapSetSyncCount(k) == Access(k, [k EXCEPT !.sync = k.value])
MercurySetSyncCount(k) == XmapSetSyncCount(k)

\* psl__SetBufferClearSize
XmapSetBufferClearSize(k, c) ==
    Then(Access(k, k), LAMBDA a :
         UNION {IF is THEN Access(a, [a EXCEPT !.clear = a.value]) ELSE Done(a)
                  : is \in XmapIsMapping(a, c)})

\* The masters, and the bits of the MCR that select their input.
Masters == {"gate_master", "sync_master", "lbus_master"}
InputBits == [gate_master |-> {0}, sync_master |-> {1}, lbus_master |-> {0, 1}]

\* The input of the master: the first bit, then the second.
SetInput(k, bits) ==
    InTurn(k, <<0, 1>>, LAMBDA a, b :
           IF b \in bits THEN XmapSetRegisterBit(a, b) ELSE XmapClearRegisterBit(a, b))
XmapSetInputNC(k) == SetInput(k, {})
XmapSetInputGATE(k) == SetInput(k, {0})
XmapSetInputSYNC(k) == SetInput(k, {1})
XmapSetInputLBUS(k) == SetInput(k, {0, 1})
SetInputOf(k, type) ==
    CASE type = "gate_master" -> XmapSetInputGATE(k)
      [] type = "sync_master" -> XmapSetInputSYNC(k)
      [] type = "lbus_master" -> XmapSetInputLBUS(k)

\* psl__CurrentMaster: a bit that cannot be read counts as clear.
XmapCurrentMaster(k, type) ==
    {[ok |-> (k.mcr \cap {0, 1}) \ lost = InputBits[type],
      m |-> [k EXCEPT !.budget = @ - Cardinality(lost)]]
       : lost \in {s \in SUBSET {0, 1} : Cardinality(s) <= k.budget}}

\* Mutant: the other masters stay in the defaults.
MutSetMaster(k, c, type) ==
    UNION {IF now.ok THEN Done(now.m)
           ELSE Then(SetInputOf(now.m, type), LAMBDA a :
                     XmapSetRegisterBit(a, 3))
             : now \in XmapCurrentMaster(k, type)}

\* psl__SetMaster: nothing to do for the current master; else the input, the
\* defaults of the others, and the bit that enables it.
XmapSetMaster(k, c, type) ==
    UNION {IF now.ok THEN Done(now.m)
           ELSE Then(SetInputOf(now.m, type), LAMBDA a :
                     XmapSetRegisterBit(
                         [a EXCEPT !.val[c] = [n \in DOMAIN @ |->
                             IF n \in Masters \ {type} THEN 0 ELSE @[n]]], 3))
             : now \in XmapCurrentMaster(k, type)}

\* psl__ClearMaster
XmapClearMaster(k, c, type) ==
    UNION {IF ~now.ok THEN Done(now.m)
           ELSE Then(XmapSetInputNC(PslSetDefault(now.m, c, type, 0)), LAMBDA a :
                     XmapClearRegisterBit(a, 3))
             : now \in XmapCurrentMaster(k, type)}

\* The first channel speaks for the module.
SetAsMaster(k, c, type) ==
    CASE c # 0 -> Done(k)
      [] c = 0 /\ k.value = 1 -> XmapSetMaster(k, c, type)
      [] c = 0 /\ k.value = 0 -> XmapClearMaster(k, c, type)
      [] OTHER -> Refused(k)
XmapSetGateMaster(k, c) == SetAsMaster(k, c, "gate_master")
XmapSetSyncMaster(k, c) == SetAsMaster(k, c, "sync_master")
XmapSetLBusMaster(k, c) == SetAsMaster(k, c, "lbus_master")

-----------------------------------------------------------------------------
(* Switching the mapping mode. *)

\* psl__SwitchSystemFPGA: skipped when the name is the one remembered.  The
\* registers start anew.
XmapSwitchSystemFPGA(k, c, file) ==
    IF k.cacheSys = file THEN {[ok |-> TRUE, m |-> k, updated |-> FALSE]}
    ELSE {[ok |-> TRUE, m |-> [k EXCEPT !.sys = file, !.mcr = {}, !.csr = {}, !.sync = 0,
                                        !.clear = 0], updated |-> TRUE]}
         \cup {o @@ [updated |-> FALSE] : o \in Faulty([k EXCEPT !.sys = "broken"])}
MercurySwitchSystemFPGA(k, c, file) == XmapSwitchSystemFPGA(k, c, file)

\* The values that are set by channel or by module with an FPGA.
XmapSetPerFPGA(k, c, n) ==
    CASE n = "num_map_pixels" -> XmapSetNumMapPixels(k, c)
      [] n = "num_map_pixels_per_buffer" -> XmapSetNumMapPtsBuffer(k, c)
      [] n = "sync_count" -> XmapSetSyncCount(k)
      [] n = "pixel_advance_mode" -> XmapSetPixelAdvanceMode(k)
      [] n = "list_mode_variant" -> XmapSetListModeVariant(k, c)
      [] n = "buffer_clear_size" -> XmapSetBufferClearSize(k, c)
      [] n = "input_logic_polarity" -> XmapSetInputLogicPolarity(k)
      [] n = "gate_master" -> XmapSetGateMaster(k, c)
      [] n = "sync_master" -> XmapSetSyncMaster(k, c)
      [] n = "lbus_master" -> XmapSetLBusMaster(k, c)
      [] n = "gate_ignore" -> XmapSetGateIgnore(k)
      [] n = "gate_mode" -> XmapSetGateMode(k, c)
      [] n = "synchronous_run" -> XmapSetSynchRun(k)
MercurySetPerFPGA(k, c, n) ==
    CASE n = "num_map_pixels" -> MercurySetNumMapPixels(k, c)
      [] n = "num_map_pixels_per_buffer" -> MercurySetNumMapPtsBuffer(k, c)
      [] n = "sync_count" -> MercurySetSyncCount(k)
      [] n = "pixel_advance_mode" -> MercurySetPixelAdvanceMode(k)
      [] n = "list_mode_variant" -> MercurySetListModeVariant(k, c)
      [] n = "input_logic_polarity" -> MercurySetInputLogicPolarity(k)
      [] n = "gate_ignore" -> MercurySetGateIgnore(k)

\* The update column of ACQ_VALUES: what is set again with which FPGA.
XmapAlways == Masters \cup {"input_logic_polarity", "gate_ignore", "gate_mode",
                            "synchronous_run"}
XmapMapping == {"num_map_pixels", "num_map_pixels_per_buffer", "sync_count",
                "pixel_advance_mode", "list_mode_variant", "buffer_clear_size"}
MercuryAlways == {"input_logic_polarity", "gate_ignore"}
MercuryMapping == XmapMapping \ {"buffer_clear_size"}

\* What is in the defaults is asked for again.
Again(k, c, n) == Asked(k, k.val[c][n])

\* Mutant: only the DSP is told.
MutUpdateParams(k, c, flagged) == Access(k, k)

\* psl__UpdateParams: the flagged entries of this channel, set again, and an
\* apply.
XmapUpdateParams(k, c, flagged) ==
    Then(InTurn(k, NamesOf["xmap"], LAMBDA a, n :
                IF n \in flagged
                THEN SetEntry(a, c, n, XmapSetPerFPGA(Again(a, c, n), c, n)) ELSE Done(a)),
         LAMBDA b : Access(b, b))
MercuryUpdateParams(k, c, flagged) ==
    Then(InTurn(k, NamesOf["mercury"], LAMBDA a, n :
                IF n \in flagged
                THEN SetEntry(a, c, n, MercurySetPerFPGA(Again(a, c, n), c, n))
                ELSE Done(a)),
         LAMBDA b : Access(b, b))

\* Every channel is told its number, and the first the module's.
Numbered(k, scaMapping) ==
    InTurn(k, SetToSortSeq(DOMAIN k.par, <), LAMBDA a, c :
        Writes(a, c, (IF c # 0 THEN <<>>
                      ELSE <<<<"MODNUM", 0>>>> \o
                           IF scaMapping THEN <<<<"SCAMAPMODE", 1>>>> ELSE <<>>)
                     \o <<<<"DETCHANNEL", c>>, <<"DETELEMENT", c>>>>))

\* psl__SetMappingMode: only once everything has succeeded is the FPGA
\* remembered.
XmapSetMappingMode(k, c) ==
    LET mode == k.value
        remembered(outs, file) ==
            Then(outs, LAMBDA a : Done([a EXCEPT !.cacheSys = file])) IN
    IF mode > 3 THEN Refused(k)
    ELSE IF mode > 0
    THEN remembered(
             Then(XmapSwitchSystemFPGA(k, c, "mapping"), LAMBDA a :
             Then(SetParameter(a, c, "MAPPINGMODE", mode), LAMBDA b :
             Then(XmapUpdateParams(b, c, XmapAlways \cup XmapMapping), LAMBDA d :
                  Numbered(d, mode = 2)))), "mapping")
    ELSE remembered(
             UNION {IF ~(o.ok /\ o.updated) THEN {[ok |-> o.ok, m |-> o.m]}
                    ELSE Then(SetParameter(o.m, c, "MAPPINGMODE", 0), LAMBDA a :
                              XmapUpdateParams(a, c, XmapAlways))
                      : o \in XmapSwitchSystemFPGA(k, c, "mca")}, "mca")

\* The Mercury writes MAPPINGMODE first, and has one mode.
MercurySetMappingMode(k, c) ==
    LET remembered(outs, file) ==
            Then(outs, LAMBDA a : Done([a EXCEPT !.cacheSys = file])) IN
    IF k.value > 1 THEN Refused(k)
    ELSE Then(SetParameter(k, c, "MAPPINGMODE", k.value), LAMBDA w :
         IF k.value = 1
         THEN remembered(
                  Then(MercurySwitchSystemFPGA(w, c, "mapping"), LAMBDA a :
                  Then(MercuryUpdateParams(a, c, MercuryAlways \cup MercuryMapping),
                       LAMBDA b : Numbered(b, FALSE))), "mapping")
         ELSE remembered(
                  UNION {IF ~(o.ok /\ o.updated) THEN {[ok |-> o.ok, m |-> o.m]}
                         ELSE MercuryUpdateParams(o.m, c, MercuryAlways)
                           : o \in MercurySwitchSystemFPGA(w, c, "mca")}, "mca"))

\* The STJ has nothing to load, and sets nothing again.
StjSetMappingMode(k, c) ==
    IF k.value > 3 THEN Refused(k)
    ELSE Then(SetParameter(k, c, "MAPPINGMODE", k.value), LAMBDA a :
              IF k.value > 0 THEN Numbered(a, k.value = 2) ELSE Done(a))

-----------------------------------------------------------------------------
(* The acquisition values of each product, by name. *)

XmapSetter(k, c, n) ==
    CASE n = "number_mca_channels" -> XmapSetNumMCAChans(k, c)
      [] n = "preset_type" -> XmapSetPresetType(k, c)
      [] n = "preset_value" -> XmapSetPresetValue(k, c)
      [] n = "number_of_scas" -> XmapSetNumberSCAs(k, c)
      [] n = "mapping_mode" -> XmapSetMappingMode(k, c)
      [] n \in ToSet(Limits) -> XmapSetSCA(k, c, n)
      [] OTHER -> XmapSetPerFPGA(k, c, n)

MercurySetter(k, c, n) ==
    CASE n = "number_mca_channels" -> MercurySetNumMCAChans(k, c)
      [] n = "preset_type" -> MercurySetPresetType(k, c)
      [] n = "preset_value" -> MercurySetPresetValue(k, c)
      [] n = "number_of_scas" -> MercurySetNumberSCAs(k, c)
      [] n = "mapping_mode" -> MercurySetMappingMode(k, c)
      [] n \in ToSet(Limits) -> MercurySetSCA(k, c, n)
      [] OTHER -> MercurySetPerFPGA(k, c, n)

StjSetter(k, c, n) ==
    CASE n = "number_mca_channels" -> StjSetNumMCAChans(k, c)
      [] n = "preset_type" -> StjSetPresetType(k, c)
      [] n = "preset_value" -> StjSetPresetValue(k, c)
      [] n = "num_map_pixels" -> StjSetNumMapPixels(k, c)
      [] n = "num_map_pixels_per_buffer" -> StjSetNumMapPtsBuffer(k, c)
      [] n = "mapping_mode" -> StjSetMappingMode(k, c)
      [] n = "list_mode_variant" -> StjSetListModeVariant(k, c)

SaturnSetter(k, c, n) ==
    CASE n = "number_mca_channels" -> SaturnDoNumMCAChannels(k, c)
      [] n = "mca_low_limit" -> SaturnDoMCALowLimit(k, c)
      [] n = "preset_type" -> SaturnSetPresetType(k, c)
      [] n = "preset_value" -> SaturnSetPresetValue(k, c)
      [] n = "preset_standard" -> SaturnSetPresetRun(k, c, 0)
      [] n = "preset_runtime" -> SaturnSetPresetRun(k, c, 1)
      [] n = "number_of_scas" -> SaturnDoNSca(k, c)
      [] n \in ToSet(Limits) -> SaturnDoSCA(k, c, n)

SetFN(k, c, n) ==
    CASE k.product = "xmap" -> XmapSetter(k, c, n)
      [] k.product = "mercury" -> MercurySetter(k, c, n)
      [] k.product = "stj" -> StjSetter(k, c, n)
      [] k.product = "saturn" -> SaturnSetter(k, c, n)

\* psl__SynchNumberSCAs: the number that was set in this process.
SaturnSynchNumberSCAs(k, c) == PslSetDefault(k, c, "number_of_scas", k.nSca[c])

\* Mutant: from the last entry to the first.
MutUserSetup(k, c) ==
    InTurn(k, Reverse(NamesOf[k.product]), LAMBDA a, n :
           SetEntry(a, c, n, SetFN(Again(a, c, n), c, n)))

\* pslUserSetup: every entry in its order.
XmapUserSetup(k, c) ==
    InTurn(k, NamesOf[k.product], LAMBDA a, n :
           SetEntry(a, c, n, SetFN(Again(a, c, n), c, n)))
MercuryUserSetup(k, c) == XmapUserSetup(k, c)
StjUserSetup(k, c) == XmapUserSetup(k, c)

\* The Saturn synchronises, and runs briefly before and after.
SaturnUserSetup(k, c) ==
    Then(Access(SaturnSynchNumberSCAs(k, c), SaturnSynchNumberSCAs(k, c)), LAMBDA a :
    Then(XmapUserSetup(a, c), LAMBDA b : Access(b, b)))

UserSetup(k, c) == IF k.product = "saturn" THEN SaturnUserSetup(k, c) ELSE XmapUserSetup(k, c)

-----------------------------------------------------------------------------
(* Starting the system, and the calls. *)

\* The DSP program and the system FPGA start with their own values.
Downloaded(k) ==
    [k EXCEPT !.sys = "mca", !.cacheSys = "mca", !.mcr = {}, !.csr = {}, !.sync = 0,
              !.clear = 0,
              !.par = [c \in DOMAIN k.val |-> [p \in Params |-> 0]],
              !.sca = [c \in DOMAIN k.val |-> [n \in ToSet(Limits) |-> 0]]]

\* xiaStartSystem: firmware, then every channel set up.
StartSystem(k) ==
    InTurn(Downloaded(k), SetToSortSeq(DOMAIN k.val, <), LAMBDA a, c : UserSetup(a, c))

\* A new process: the module as the ini file describes it, the SCAs unknown.
Loaded(k) ==
    [k EXCEPT !.nSca = [c \in DOMAIN k.val |-> 0],
              !.host = [c \in DOMAIN k.val |-> [n \in ToSet(Limits) |-> 0]]]

\* A call with the name n on the channels ds.
Called(k, ds, n, v) ==
    InTurn(k, ds, LAMBDA a, c :
        LET e == Entered(a, c, n, v) IN
        PslSetAcquisitionValues(e, c, n, SetFN(Asked(e, v), c, n)))

\* A module before its first start.
Blank(product) ==
    LET cs == Chans(product) IN
    Loaded(Downloaded([
        product |-> product, value |-> 0, budget |-> 0,
        val |-> [c \in cs |-> [n \in Names |->
                     IF n \in ToSet(NamesOf[product]) /\ ~(product = "mercury" /\ n \in
                            {"num_map_pixels", "num_map_pixels_per_buffer", "sync_count"})
                     THEN Start[n] ELSE NoEntry]],
        par |-> <<>>, sca |-> <<>>, nSca |-> <<>>, host |-> <<>>, sys |-> "mca",
        cacheSys |-> "mca", mcr |-> {}, csr |-> {}, sync |-> 0, clear |-> 0,
        freed |-> FALSE, ended |-> FALSE]))

\* A module that has just been started.
Init ==
    /\ topic \in Topics
    /\ \E product \in Products : \E o \in StartSystem(Blank(product)) :
          o.ok /\ m = [o.m EXCEPT !.budget = MaxFaults]
    /\ last = [op |-> "start", name |-> "none", value |-> 0, chans |-> <<>>, ok |-> TRUE]
    /\ calls = 0

\* Names the application uses with a product.
Known(product) == topic \cap ToSet(NamesOf[product])

\* A call is made, by a process that is there.
Call == ~m.ended /\ calls < MaxCalls /\ calls' = calls + 1 /\ UNCHANGED topic

SetValue(ds, n, v) ==
    /\ Call
    /\ \E o \in Called(m, ds, n, v) :
          /\ m' = o.m
          /\ last' = [op |-> "set", name |-> n, value |-> v, chans |-> ds, ok |-> o.ok]

\* Without faults.
Sound(k) == [k EXCEPT !.budget = 0]

\* xiaStartSystem again.
Restart ==
    /\ Call
    /\ \E o \in StartSystem(Sound(m)) :
          /\ m' = [o.m EXCEPT !.budget = m.budget]
          /\ last' = [op |-> "start", name |-> "none", value |-> 0, chans |-> <<>>,
                      ok |-> o.ok]

Next ==
    \/ \E n \in Known(m.product) : \E v \in Values[n] :
          \/ \E c \in DOMAIN m.val : SetValue(<<c>>, n, v)
          \/ SetValue(SetToSortSeq(DOMAIN m.val, <), n, v)      \* detChan -1
    \/ Restart

Spec == Init /\ [][Next]_vars

-----------------------------------------------------------------------------
(* What the hardware does is what the defaults say. *)

\* The channel maps as its mapping_mode says.
Mapped(k, c) ==
    /\ k.val[c]["mapping_mode"] > 0 /\ k.par[c]["MAPPINGMODE"] = k.val[c]["mapping_mode"]
    /\ k.product # "stj" => k.sys = "mapping"

SpectrumHeld(k, c, n, v) ==
    CASE n = "number_mca_channels" -> k.par[c]["MCALIMHI"] - k.par[c]["MCALIMLO"] = v
      [] n = "mca_low_limit" -> k.par[c]["MCALIMLO"] = v
      [] n = "preset_type" -> k.par[c]["PRESETTYPE"] = v
      [] n = "preset_value" ->
            LET len == PresetLength(k.par[c]["PRESETTYPE"], v) IN
            \/ k.par[c]["PRESETTYPE"] = 0
            \/ k.product = "saturn" /\ len >= WordSize^2    \* cut off
            \/ \A i \in 1..4 : k.par[c][PresetWords(len)[i][1]] = PresetWords(len)[i][2]
      [] n = "number_of_scas" -> k.par[c]["NUMSCA"] = v /\ k.nSca[c] = v
      [] n \in ToSet(Limits) -> k.sca[c][n] = v /\ ScaNum(n) < k.nSca[c]
      [] OTHER -> TRUE

MappingHeld(k, c, n, v) ==
    CASE n = "mapping_mode" -> IF v > 0 THEN Mapped(k, c)
                               ELSE IF k.product = "stj" THEN k.par[c]["MAPPINGMODE"] = 0
                               ELSE k.sys = "mca"
      [] n = "num_map_pixels" ->
            \/ k.product = "stj" /\ ~Mapped(k, c)
            \/ \A i \in 1..2 : k.par[c][PixelWords(v)[i][1]] = PixelWords(v)[i][2]
      [] n = "num_map_pixels_per_buffer" ->
            (k.product = "stj" => Mapped(k, c)) => k.par[c]["PIXPERBUF"] = PixPerBuf(v)
      [] n = "list_mode_variant" ->
            Mapped(k, c) /\ (k.product = "mercury" => k.par[c]["MAPPINGMODE"] = 3)
                => k.par[c]["LISTMODEVAR"] = v
      [] n = "gate_mode" -> k.par[c]["GATEMODE"] = v
      [] n = "sync_count" -> Mapped(k, c) => k.sync = v
      [] n = "buffer_clear_size" -> Mapped(k, c) => k.clear = v
      [] n = "pixel_advance_mode" -> v \in {1, 2} /\ (Mapped(k, c) => (4 \in k.mcr <=> v = 2))
      [] n = "input_logic_polarity" -> 2 \in k.mcr <=> v = 1
      [] n = "gate_ignore" -> 5 \in k.mcr <=> v = 1
      [] n = "synchronous_run" -> 4 \in k.csr <=> v = 1
      [] n \in Masters -> c = 0 =>
            IF v = 1 THEN k.mcr \cap {0, 1} = InputBits[n] /\ 3 \in k.mcr
            ELSE k.mcr \cap {0, 1} # InputBits[n]
      [] OTHER -> TRUE

Held(k, c, n) ==
    k.val[c][n] = NoEntry \/ (SpectrumHeld(k, c, n, k.val[c][n])
                              /\ MappingHeld(k, c, n, k.val[c][n]))

\* What the channels share, they must agree on.
Shared == {"mapping_mode", "input_logic_polarity", "gate_ignore", "pixel_advance_mode",
           "sync_count", "synchronous_run", "buffer_clear_size"}
Agreed(k, n) == n \in Shared => \A c, d \in DOMAIN k.val : k.val[c][n] = k.val[d][n]

AllHeld(k) ==
    \A n \in ToSet(NamesOf[k.product]) : Agreed(k, n) /\ \A c \in DOMAIN k.val : Held(k, c, n)

-----------------------------------------------------------------------------
(* Properties. *)

\* A value that is set with success is what the hardware has, also when an
\* earlier call failed half way.  (A master, as long as no access has failed:
\* the code takes the input it finds for all of it.  The mapping mode, when the
\* FPGA is the one that is remembered, or the call before was the same and
\* failed.)
SuccessHolds ==
    [][/\ last'.ok /\ last'.op = "set"
       /\ last'.name \in Masters => m'.budget = MaxFaults
       /\ last'.name = "mapping_mode" => m.sys = m.cacheSys \/ last = [last' EXCEPT !.ok = FALSE]
       => \A c \in ToSet(last'.chans) : Held(m', c, last'.name)]_vars

\* A call with success leaves what the other names stand for as it was.  (But
\* the meaning of a preset value depends on the type; the length of a Saturn's
\* spectrum on where it starts; and a mapping mode that a channel other than
\* the first sets loses the masters, or changed by the STJ leaves the pixels.)
OthersKept ==
    [][/\ last'.ok /\ last'.op = "set" /\ m'.budget = m.budget
       => \A c \in DOMAIN m.val, n \in ToSet(NamesOf[m.product]) \ {last'.name} :
             \/ n = "preset_value" /\ last'.name \in {"preset_type", "preset_standard"}
             \/ n = "number_mca_channels" /\ last'.name = "mca_low_limit"
             \/ n \in Masters /\ last'.name = "mapping_mode" /\ last'.chans[1] # 0
             \/ m.product = "stj" /\ last'.name = "mapping_mode"
             \/ Agreed(m, n) /\ Held(m, c, n) => Held(m', c, n)]_vars

\* The module is started again from the values it reports, in this process or
\* in another that has loaded them: the start succeeds, and they hold.  (Not
\* the low limit of the Saturn, stored in other units; its SCAs in a new
\* process; a preset run once set by its short name, which is set again as it
\* was then; the pixels of the STJ.)
RestartHolds ==
    ~m.ended /\ AllHeld(m) =>
        \A k \in {m} \cup (IF m.product = "saturn" THEN {} ELSE {Loaded(m)}) :
            \A o \in StartSystem(Sound(k)) :
                /\ o.ok
                /\ \A c \in DOMAIN m.val, n \in ToSet(NamesOf[m.product]) :
                      \/ n \in {"mca_low_limit", "number_mca_channels"} /\ m.product = "saturn"
                      \/ n \in {"num_map_pixels", "num_map_pixels_per_buffer"}
                         /\ m.product = "stj"
                      \/ n \in {"preset_type", "preset_value"} /\
                         {m.val[c]["preset_standard"], m.val[c]["preset_runtime"]} # {NoEntry}
                      \/ Held(o.m, c, n) /\ o.m.val[c][n] = m.val[c][n]

\* The entries of the defaults that a number of SCAs makes superfluous are
\* removed and freed once (a run shows that they are not).
FreedOnce == ~m.freed

\* One master at a time, as long as no access has failed.
OneMaster ==
    m.product = "xmap" /\ m.budget = MaxFaults =>
        \A n1, n2 \in Masters : m.val[0][n1] = 1 /\ m.val[0][n2] = 1 => n1 = n2
=============================================================================
