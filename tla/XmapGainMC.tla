----------------------------- MODULE XmapGainMC -----------------------------
(* Instance of XmapGain for TLC: an amplifier that covers three gains, so     *)
(* that a preamplifier gain of 2 is in range only with a dynamic range of 0;  *)
(* one threshold, as all are updated alike; the list in the order of          *)
(* ACQ_VALUES, which xiaSetDefaults gives it.                                 *)
EXTENDS XmapGain

MCInitial == [n \in Name |-> IF n = "calibration_energy" THEN 1 ELSE
                             IF n = "dynamic_range" THEN 1 ELSE 0]
MCThresholds == <<"energy_threshold">>
MCMinGain == -2
\* The DSP boots with other parameters than any setting gives.
MCBooted == [p \in Param |-> IF p = "GAINDAC" THEN 0 ELSE 9]
MCOrder == <<"peaking_time", "dynamic_range", "energy_threshold",
             "calibration_energy", "adc_percent_rule", "mca_bin_width", "preamp_gain">>
MCValues == [n \in Name |->
               IF n = "dynamic_range" THEN {0, 1}
               ELSE IF n = "preamp_gain" THEN {2}
               ELSE IF n = "calibration_energy" THEN {2}
               ELSE IF n = "peaking_time" THEN {1} ELSE {0}]
=============================================================================
