---------------------------- MODULE BoardFirmware ----------------------------
(***************************************************************************)
(* How FPGAs and DSPs are loaded: the drivers (devices/*/*.c) and what     *)
(* Xerxes (xerxes.c) does above them.  A module is a record k as in        *)
(* AcqValues, with                                                         *)
(*                                                                         *)
(*   fippi  the configuration of the FiPPI, or Broken                      *)
(*   dsp    the program of the DSP, or "none": DSP Active is not set       *)
(*   run    "normal"; "special" when only RUNTYPE says so; "asleep" when   *)
(*          the DSP executes the special run that lets go of the FPGAs     *)
(*   named  what Xerxes has read for the FiPPI (Board.fippi_a, fippi)      *)
(*   busy   Xerxes takes the module for running (state[0] and state[4];    *)
(*          the Saturn's also when the board says so)                      *)
(*   full   Board.is_full_reboot                                           *)
(*                                                                         *)
(* A bitstream or a program is one value: neither its words nor how often  *)
(* a register is polled is here, nor the list of files Xerxes has read     *)
(* before.  An access that fails has no effect; a status that never comes  *)
(* is such a failure.                                                      *)
(***************************************************************************)
EXTENDS AcqValues

Broken == [type |-> "none", lo |-> 0, hi |-> 0, dec |-> 0, peakInt |-> 0, peakSam |-> 0]

\* The FiPPI is reset for a configuration; it has the one that was named.
NoFippi(k) == [k EXCEPT !.fippi = Broken]
NamedFippi(k) == [k EXCEPT !.fippi = k.named]

\* The DSP is reset; it starts program t with its own parameters.
NoDsp(k) == [k EXCEPT !.dsp = "none"]
Booted(k, t) ==
    [k EXCEPT !.dsp = t, !.run = "normal",
              !.par = [c \in DOMAIN @ |-> [p \in DOMAIN @[c] |-> 0]]]

\* RUNTYPE is written, or Run Enable is cleared.
Special(k) == [k EXCEPT !.run = IF @ = "asleep" THEN @ ELSE "special"]
Disabled(k) == [k EXCEPT !.run = IF @ = "asleep" THEN "special" ELSE @]
Normal(k) == [k EXCEPT !.run = "normal"]
Asleep(k) == [k EXCEPT !.run = "asleep"]

-----------------------------------------------------------------------------
(* Registers and DSP parameters; the board is n afterwards. *)

XmapRegister(k, n) == Access(k, n)
MercuryRegister(k, n) == Access(k, n)
StjRegister(k, n) == Access(k, n)
SaturnRegister(k, n) == Access(k, n)

\* Read, a bit changed, written.
XmapCsrBit(k, n) == XmapRegister(k, n)
MercuryCsrBit(k, n) == MercuryRegister(k, n)
StjCsrBit(k, n) == StjRegister(k, n)

XmapWriteMemory(k, n) == XmapRegister(k, n)
MercuryWriteWord(k, n) == MercuryRegister(k, n)
MercuryWriteBlock(k, n) == MercuryRegister(k, n)
StjWriteMemory(k, n) == StjRegister(k, n)
SaturnWriteBlock(k, n) == SaturnRegister(k, n)

\* A parameter or a status that is waited for.
XmapReadMemory(k) == XmapRegister(k, k)
MercuryReadWord(k) == MercuryRegister(k, k)
StjReadMemory(k) == StjRegister(k, k)
MercuryWaitForActive(k) == MercuryRegister(k, k)
SaturnWaitForBusy(k) == SaturnRegister(k, k)
SaturnDownloadDspDone(k) == SaturnRegister(k, k)

XmapModifyDspsymbol(k, n) == XmapWriteMemory(k, n)
MercuryModifyDspsymbol(k, n) == MercuryWriteWord(k, n)
StjModifyDspsymbol(k, n) == StjWriteMemory(k, n)
SaturnModifyDspsymbol(k, n) == SaturnWriteBlock(k, n)

-----------------------------------------------------------------------------
(* Files.  xia_find_file and what the reader of the product makes of it. *)

XmapReadFippi(k) == Access(k, k)
MercuryReadFippi(k) == Access(k, k)
StjReadFippi(k) == Access(k, k)
SaturnReadFippi(k) == Access(k, k)

XmapLoadSymbols(k) == Access(k, k)
MercuryLoadSymbols(k) == Access(k, k)
StjLoadSymbols(k) == Access(k, k)
SaturnLoadSymbols(k) == Access(k, k)

\* The symbols first, then the code.
XmapReadDsp(k) == Then(XmapLoadSymbols(k), LAMBDA a : Access(a, a))
MercuryReadDsp(k) == Then(MercuryLoadSymbols(k), LAMBDA a : Access(a, a))
StjReadDsp(k) == Then(StjLoadSymbols(k), LAMBDA a : Access(a, a))
SaturnReadDsp(k) == Then(SaturnLoadSymbols(k), LAMBDA a : Access(a, a))

ReadFippi(k) ==
    CASE k.product = "xmap" -> XmapReadFippi(k)
      [] k.product = "mercury" -> MercuryReadFippi(k)
      [] k.product = "stj" -> StjReadFippi(k)
      [] k.product = "saturn" -> SaturnReadFippi(k)

ReadDsp(k) ==
    CASE k.product = "xmap" -> XmapReadDsp(k)
      [] k.product = "mercury" -> MercuryReadDsp(k)
      [] k.product = "stj" -> StjReadDsp(k)
      [] k.product = "saturn" -> SaturnReadDsp(k)

\* dxp_add_fippi puts the new entry in its place before it is read; an entry
\* that cannot be read is freed and left there.
AddFippi(k, f) ==
    {[o EXCEPT !.m.named = IF o.ok THEN f ELSE Broken] : o \in ReadFippi(k)}

\* dxp_add_dsp: the new entry is put in its place at the end.
AddDsp(k) == ReadDsp(k)

-----------------------------------------------------------------------------
(* Special runs that the downloads need. *)

\* dxp__put_dsp_to_sleep, of a DSP that is active.
XmapPutDspToSleep(k) ==
    Then(XmapRegister(k, k), LAMBDA a :
         IF a.dsp = "none" THEN Done(a)
         ELSE Then(XmapModifyDspsymbol(a, Special(a)), LAMBDA b :
                   XmapCsrBit(b, Asleep(b))))

\* The same, in dxp__do_specialrun.
MercuryPutDspToSleep(k) ==
    Then(MercuryRegister(k, k), LAMBDA a :
         IF a.dsp = "none" THEN Done(a)
         ELSE Then(MercuryModifyDspsymbol(a, Special(a)), LAMBDA b :
                   MercuryCsrBit(b, Asleep(b))))

\* Mutant: the run is ended, but RUNTYPE is left at special.
MutWakeDspUp(k) ==
    Then(XmapRegister(k, k), LAMBDA a :
         IF a.dsp = "none" THEN Done(a) ELSE XmapCsrBit(a, Disabled(a)))

\* dxp__wake_dsp_up
XmapWakeDspUp(k) ==
    Then(XmapRegister(k, k), LAMBDA a :
         IF a.dsp = "none" THEN Done(a)
         ELSE Then(XmapCsrBit(a, Disabled(a)), LAMBDA b :
              Then(XmapRegister(b, b), LAMBDA d : XmapModifyDspsymbol(d, Normal(d)))))
MercuryWakeDspUp(k) == XmapWakeDspUp(k)
StjWakeDspUp(k) == XmapWakeDspUp(k)

\* dxp_do_apply: a DSP that sleeps goes on sleeping until the poll gives up
\* and ends the run; RUNTYPE is left at special.
XmapDoApply(k) ==
    Then(XmapModifyDspsymbol(k, Special(k)), LAMBDA a :
         IF a.run = "asleep" \/ a.dsp = "none" THEN Refused(Disabled(a))
         ELSE XmapRegister(a, a))
MercuryDoApply(k) == XmapDoApply(k)
StjDoApply(k) == XmapDoApply(k)

\* dxp_begin_control_task
XmapBeginControlTask(k, type) ==
    CASE type = "wake_dsp" -> XmapWakeDspUp(k) [] type = "apply" -> XmapDoApply(k)
MercuryBeginControlTask(k, type) ==
    CASE type = "wake_dsp" -> MercuryWakeDspUp(k) [] type = "apply" -> MercuryDoApply(k)
StjBeginControlTask(k, type) ==
    CASE type = "wake_dsp" -> StjWakeDspUp(k) [] type = "apply" -> StjDoApply(k)
BeginControlTask(k, type) ==
    CASE k.product = "xmap" -> XmapBeginControlTask(k, type)
      [] k.product = "mercury" -> MercuryBeginControlTask(k, type)
      [] k.product = "stj" -> StjBeginControlTask(k, type)

\* dxp_start_control_task: refused when Xerxes has something running, unless
\* the board says that a run is active.
StartControlTask(k, type) ==
    Then(XmapRegister(k, k), LAMBDA a :
         IF a.busy /\ a.run # "asleep" THEN Refused(a)
         ELSE Then(BeginControlTask(a, type), LAMBDA b : Done([b EXCEPT !.busy = TRUE])))

\* dxp_stop_control_task: the run is ended, RUNTYPE is normal, then Xerxes
\* forgets it.
StopControlTask(k) ==
    Then(XmapCsrBit(k, Disabled(k)), LAMBDA a :
    Then(XmapModifyDspsymbol(a, Normal(a)), LAMBDA b :
         Done([b EXCEPT !.busy = FALSE])))

ControlTask(k, type) == Then(StartControlTask(k, type), LAMBDA a : StopControlTask(a))

-----------------------------------------------------------------------------
(* FPGAs.  The board is lost while the configuration is under way, n at its *)
(* end.                                                                     *)

XmapDownloadFpga(k, lost, n) == Done(n) \cup Faulty(k) \cup Faulty(lost)
MercuryDownloadFpga(k, lost, n) == XmapDownloadFpga(k, lost, n)
StjDownloadFpga(k, lost, n) == XmapDownloadFpga(k, lost, n)

\* Both FiPPIs, again while the checksum is wrong; when it is wrong every
\* time, the loop ends and what follows reports a success.
XmapFippiAttempts(k) ==
    XmapDownloadFpga(k, NoFippi(k), NamedFippi(k))
    \cup (IF k.budget = 0 THEN {} ELSE Done([NoFippi(k) EXCEPT !.budget = @ - 1]))
StjFippiAttempts(k) == XmapFippiAttempts(k)

\* dxp_download_fippis_dsp_no_wake
XmapDownloadFippisNoWake(k) ==
    Then(IF k.full THEN Done(k) ELSE XmapPutDspToSleep(k), LAMBDA a :
         XmapFippiAttempts(a))

\* dxp_download_fippis: after an error the DSP is left asleep.
XmapDownloadFippis(k) ==
    Then(IF k.full THEN Done(k) ELSE XmapPutDspToSleep(k), LAMBDA a :
    Then(XmapFippiAttempts(a), LAMBDA b :
         IF b.full THEN Done(b) ELSE XmapWakeDspUp(b)))

\* The STJ does not put its DSP to sleep, and wakes it.
StjDownloadFippisNoWake(k) == StjFippiAttempts(k)
StjDownloadFippis(k) ==
    Then(StjFippiAttempts(k), LAMBDA a :
         IF a.full THEN Done(a) ELSE StjWakeDspUp(a))

\* One attempt, and a DSP that is active is put to sleep also in a reboot.
MercuryDownloadFippiNoWake(k) ==
    Then(MercuryPutDspToSleep(k), LAMBDA a :
         MercuryDownloadFpga(a, NoFippi(a), NamedFippi(a)))
MercuryDownloadFippi(k) ==
    Then(MercuryDownloadFippiNoWake(k), LAMBDA a : MercuryWakeDspUp(a))

\* The system FPGA: a DSP may go on below it or not.
XmapDownloadSystemFpga(k) == UNION {XmapDownloadFpga(k, NoDsp(k), n) : n \in {k, NoDsp(k)}}
MercuryDownloadSystemFpga(k) ==
    UNION {MercuryDownloadFpga(k, NoDsp(k), n) : n \in {k, NoDsp(k)}}
StjDownloadSystemFpga(k) == UNION {StjDownloadFpga(k, NoDsp(k), n) : n \in {k, NoDsp(k)}}

\* "all": the system FPGA, then the FiPPIs.
XmapDownloadAllFpgas(k) == Then(XmapDownloadSystemFpga(k), LAMBDA a : XmapDownloadFippis(a))
MercuryDownloadAllFpgas(k) ==
    Then(MercuryDownloadSystemFpga(k), LAMBDA a : MercuryDownloadFippi(a))
StjDownloadAllFpgas(k) == Then(StjDownloadSystemFpga(k), LAMBDA a : StjDownloadFippis(a))

\* dxp_begin_control_task of the Saturn's sleep task: a run that is begun while
\* the DSP sleeps wakes it, or it sleeps again.
SaturnBeginSleep(k) ==
    Then(SaturnModifyDspsymbol(k, Special(k)), LAMBDA a :
         SaturnRegister(a, Asleep(a))
         \cup (IF a.run = "asleep" THEN SaturnRegister(a, Disabled(a)) ELSE {}))

\* dxp_end_control_task: a run is begun, the DSP comes back, and RUNTASKS is
\* normal again.  (What dxp_end_run reports is always a success.)
SaturnEndSleep(k) ==
    Then(SaturnRegister(k, Disabled(k)), LAMBDA a :
    Then(SaturnDownloadDspDone(a), LAMBDA b : SaturnModifyDspsymbol(b, Normal(b))))

\* dxp_download_fpgaconfig of the Saturn: the transfer; and the sleep around it,
\* not in a reboot.  Every error on the way leaves the task with Xerxes.
SaturnTransferFpga(k) ==
    Then(SaturnRegister(k, NoFippi(k)), LAMBDA a : SaturnRegister(a, NamedFippi(a)))
SaturnDownloadFpgaconfig(k) ==
    IF k.full THEN SaturnTransferFpga(k)
    ELSE Then(SaturnBeginSleep(k), LAMBDA a :
         LET tasked == [a EXCEPT !.busy = TRUE] IN
         IF a.run # "asleep" THEN Refused(tasked)
         ELSE Then(SaturnDownloadDspDone(tasked), LAMBDA b :
              Then(SaturnTransferFpga(b), LAMBDA d :
              Then(SaturnEndSleep(d), LAMBDA e :
                   SaturnDownloadDspDone([e EXCEPT !.busy = FALSE])))))

\* dxp_download_fpgaconfig by the name of the FPGAs.
XmapDownloadFpgaconfig(k, name) ==
    CASE name = "all" -> XmapDownloadAllFpgas(k)
      [] name = "a_and_b" -> XmapDownloadFippis(k)
      [] name = "a_and_b_dsp_no_wake" -> XmapDownloadFippisNoWake(k)
MercuryDownloadFpgaconfig(k, name) ==
    CASE name = "all" -> MercuryDownloadAllFpgas(k)
      [] name = "a" -> MercuryDownloadFippi(k)
      [] name = "a_dsp_no_wake" -> MercuryDownloadFippiNoWake(k)
StjDownloadFpgaconfig(k, name) ==
    CASE name = "all" -> StjDownloadAllFpgas(k)
      [] name = "a_and_b" -> StjDownloadFippis(k)
      [] name = "a_and_b_dsp_no_wake" -> StjDownloadFippisNoWake(k)

DownloadFpgaconfig(k, name) ==
    CASE k.product = "xmap" -> XmapDownloadFpgaconfig(k, name)
      [] k.product = "mercury" -> MercuryDownloadFpgaconfig(k, name)
      [] k.product = "stj" -> StjDownloadFpgaconfig(k, name)
      [] k.product = "saturn" -> SaturnDownloadFpgaconfig(k)

\* dxp_download_fpga_done: FIPERR of the Saturn; nothing in the others.
DownloadFpgaDone(k) == IF k.product = "saturn" THEN SaturnRegister(k, k) ELSE Done(k)

\* dxp_replace_fpgaconfig.  "a_dsp_no_wake" is none of the names whose file is
\* read: the Mercury loads the one that was named before.
DxpReplaceFpgaconfig(k, name, f) ==
    Then(IF name = "a_dsp_no_wake" THEN Done(k) ELSE AddFippi(k, f), LAMBDA a :
    Then(DownloadFpgaconfig(a, name), LAMBDA b : DownloadFpgaDone(b)))

-----------------------------------------------------------------------------
(* DSPs. *)

XmapResetDsp(k) == XmapCsrBit(k, NoDsp(k))
MercuryResetDsp(k) == MercuryCsrBit(k, NoDsp(k))
StjResetDsp(k) == StjCsrBit(k, NoDsp(k))
SaturnResetDsp(k) == SaturnRegister(k, NoDsp(k))

\* dxp_boot_dsp: the DSP becomes active, then idle; in a full reboot it is told
\* to initialise and to apply its parameters.
XmapBootDsp(k, t) ==
    Then(XmapCsrBit(k, Booted(k, t)), LAMBDA a :
    Then(XmapReadMemory(a), LAMBDA b :
         IF ~b.full THEN Done(b)
         ELSE Then(XmapModifyDspsymbol(b, b), LAMBDA d : XmapDoApply(d))))
StjBootDsp(k, t) ==
    Then(StjCsrBit(k, Booted(k, t)), LAMBDA a :
    Then(StjReadMemory(a), LAMBDA b :
         IF ~b.full THEN Done(b)
         ELSE Then(StjModifyDspsymbol(b, b), LAMBDA d : StjDoApply(d))))
MercuryBootDsp(k, t) ==
    Then(MercuryCsrBit(k, Booted(k, t)), LAMBDA a :
    Then(MercuryWaitForActive(a), LAMBDA b : MercuryReadWord(b)))

\* The xMAP counts the words that arrived and repeats the transfer; the STJ
\* does not look.
XmapDownloadDspconfig(k, t) ==
    Then(XmapResetDsp(k), LAMBDA a :
    Then(XmapRegister(a, a), LAMBDA b : XmapBootDsp(b, t)))
StjDownloadDspconfig(k, t) ==
    Then(StjResetDsp(k), LAMBDA a :
    Then(StjRegister(a, a), LAMBDA b : StjBootDsp(b, t)))
MercuryDownloadDspconfig(k, t) ==
    Then(MercuryResetDsp(k), LAMBDA a :
    Then(MercuryWriteBlock(a, a), LAMBDA b : MercuryBootDsp(b, t)))

\* The Saturn's DSP starts when its first two words are written.
SaturnDownloadDspconfig(k, t) ==
    Then(SaturnResetDsp(k), LAMBDA a :
    Then(SaturnWriteBlock(a, Booted(a, t)), LAMBDA b : SaturnWaitForBusy(b)))

DownloadDspconfig(k, t) ==
    CASE k.product = "xmap" -> XmapDownloadDspconfig(k, t)
      [] k.product = "mercury" -> MercuryDownloadDspconfig(k, t)
      [] k.product = "stj" -> StjDownloadDspconfig(k, t)
      [] k.product = "saturn" -> SaturnDownloadDspconfig(k, t)

DxpReplaceDspconfig(k, t) == Then(AddDsp(k), LAMBDA a : DownloadDspconfig(a, t))

\* dxp_user_setup: FPGAs and DSPs from nothing.  An error leaves the boards
\* marked for a full reboot.
DxpUserSetup(k, t) ==
    Then(DownloadFpgaconfig([k EXCEPT !.full = TRUE], "all"), LAMBDA a :
    Then(DownloadDspconfig(a, t), LAMBDA b : Done([b EXCEPT !.full = FALSE])))
=============================================================================
