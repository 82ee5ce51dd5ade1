------------------------------ MODULE AcqValues ------------------------------
(***************************************************************************)
(* How an acquisition value travels from Handel to a channel, whatever the *)
(* value and the product:                                                  *)
(*                                                                         *)
(*   xiaSetAcquisitionValues (handel_run_params.c)  enters an unknown name *)
(*     in the channel's defaults, walks a detChan set;                     *)
(*   pslSetAcquisitionValues (devices/*/*_psl.c)  calls the setter of the  *)
(*     name and keeps, or restores, the entry of the defaults;             *)
(*   pslUserSetup  sets every entry of the defaults again.                 *)
(*                                                                         *)
(* A module is a record m; the fields used here are                        *)
(*   val     the defaults: what Handel reports, by channel and name        *)
(*   par     the DSP parameters, by channel and name                       *)
(*   value   the double the caller passed, which a setter may adjust       *)
(*   budget  how many accesses to the hardware may still fail              *)
(* Every access may be the one that fails.                                 *)
(***************************************************************************)
EXTENDS Outcomes

\* A name that is not in the defaults.
NoEntry == -1

-----------------------------------------------------------------------------
\* An access fails.
Faulty(m) == IF m.budget = 0 THEN {} ELSE Refused([m EXCEPT !.budget = @ - 1])

\* A step that touches the hardware and changes what is modelled to n.
Access(m, n) == Done(n) \cup Faulty(m)

\* pslSetParameter: dxp_set_one_dspsymbol.
SetParameter(m, c, p, x) == Access(m, [m EXCEPT !.par[c][p] = x])

\* The parameters of ws, a sequence of <<name, value>>, in that order.
Writes(m, c, ws) ==
    FoldLeft(LAMBDA outs, w : Then(outs, LAMBDA k : SetParameter(k, c, w[1], w[2])),
             Done(m), ws)

\* A parameter of the C type parameter_t.
Word(x) == x % 65536

-----------------------------------------------------------------------------
(* The defaults. *)

\* pslSetDefault; a name that is not there is left out.
PslSetDefault(m, c, n, v) ==
    IF m.val[c][n] = NoEntry THEN m ELSE [m EXCEPT !.val[c][n] = v]

\* The value a setter is called with.
Asked(m, v) == [m EXCEPT !.value = v]

\* pslIsUpperCase: the name of a DSP parameter.
IsRaw(n) == n = "RAWPARAM"

\* pslSetAcquisitionValues of the xMAP, outs being what the setter did: the
\* entry becomes the value as the setter adjusted it, or what it was.  A raw
\* DSP parameter is entered before it is written, and that is not undone.
XmapSetAcquisitionValues(m, c, n, outs) ==
    {[o EXCEPT !.m = [PslSetDefault(o.m, c, n,
                                    IF o.ok \/ IsRaw(n) THEN o.m.value ELSE m.val[c][n])
                          EXCEPT !.value = m.value]]
       : o \in outs}

\* The same in Mercury and STJ.
MercurySetAcquisitionValues(m, c, n, outs) == XmapSetAcquisitionValues(m, c, n, outs)
StjSetAcquisitionValues(m, c, n, outs) == XmapSetAcquisitionValues(m, c, n, outs)

\* In the Saturn every setter stores its entry, and nothing is restored; the
\* parameters are read back at the end.
SaturnSetAcquisitionValues(m, c, n, outs) ==
    {[o EXCEPT !.m.value = m.value] : o \in Then(outs, LAMBDA k : Access(k, k))}

PslSetAcquisitionValues(m, c, n, outs) ==
    IF m.product = "saturn" THEN SaturnSetAcquisitionValues(m, c, n, outs)
    ELSE IF m.product = "mercury" THEN MercurySetAcquisitionValues(m, c, n, outs)
    ELSE IF m.product = "stj" THEN StjSetAcquisitionValues(m, c, n, outs)
    ELSE XmapSetAcquisitionValues(m, c, n, outs)

\* xiaSetAcquisitionValues of one detChan: an unknown name is entered first.
Entered(m, c, n, v) == [m EXCEPT !.val[c][n] = IF @ = NoEntry THEN v ELSE @]

\* One entry of the defaults, if it is there, set again.
SetEntry(m, c, n, outs) ==
    IF m.val[c][n] = NoEntry THEN Done(m) ELSE PslSetAcquisitionValues(m, c, n, outs)

\* xiaRemoveAcquisitionValues up to its pslUserSetup.
RemoveEntry(m, c, n) == [m EXCEPT !.val[c][n] = NoEntry]
=============================================================================
