---------------------------- MODULE UdxpValuesMC ----------------------------
(* Instance of UdxpValues for TLC.  Times are in quarters of the base clock's *)
(* tick: a clock_speed of 6 lies between the two speeds 4 and 8.              *)
EXTENDS UdxpValues

MCTopics ==
    {{"clock_speed", "energy_gap_time", "peakint_offset", "peaksam_offset", "peak_interval"},
     {"clock_speed", "trigger_peak_time", "trigger_gap_time", "max_width", "preamp_value",
      "adc_trace_wait", "peak_sample"},
     {"parset", "fippi", "energy_gap_time", "peaksam_offset", "peaking_time",
      "trigger_threshold", "baseline_length"},
     {"genset", "gain", "gain_trim", "number_mca_channels", "energy_threshold"},
     {"genset", "number_of_scas", "sca0_lo", "sca1_hi", "mca_bin_width"},
     {"preset_type", "preset_value", "runtasks", "auto_adjust_offset", "polarity",
      "fipcontrol"},
     {"baseline_threshold", "peak_mode", "baseline_factor", "bytes_per_bin",
      "high_voltage", "sca_time_on", "sca_time_off", "trace_trigger_type",
      "trace_trigger_position"}}

MCValues == [
    parset |-> {0, 1, 2}, genset |-> {0, 1}, fippi |-> {0, 1, 2},
    clock_speed |-> {4, 6, 8, 50}, energy_gap_time |-> {4, 18, 90},
    trigger_peak_time |-> {8, 30}, trigger_gap_time |-> {5, 16},
    max_width |-> {9, 80}, preamp_value |-> {7, 200}, adc_trace_wait |-> {9},
    peak_interval |-> {30, 100}, peak_sample |-> {14}, peakint_offset |-> {8, 90},
    peaksam_offset |-> {6, 90}, peaking_time |-> {8}, trigger_threshold |-> {3, 9},
    baseline_threshold |-> {2}, energy_threshold |-> {3, 9}, baseline_length |-> {2, 5, 30},
    gain |-> {3, 8, 40}, gain_trim |-> {2, 5, 9}, number_mca_channels |-> {1, 3, 9},
    mca_bin_width |-> {0, 2, 4}, number_of_scas |-> {0, 2, 4}, sca0_lo |-> {5},
    sca1_hi |-> {6}, preset_type |-> {0, 1, 3, 7}, preset_value |-> {3, 30},
    runtasks |-> {0, 1, 3}, auto_adjust_offset |-> {0, 2}, polarity |-> {0, 1, 2},
    fipcontrol |-> {3}, peak_mode |-> {0, 1, 2}, baseline_factor |-> {1},
    bytes_per_bin |-> {1, 4}, high_voltage |-> {3, 9}, sca_time_on |-> {1, 5},
    sca_time_off |-> {3}, trace_trigger_type |-> {1}, trace_trigger_position |-> {1}]

\* What is in the flash memory; the number of SCAs of genset 1 is one the board
\* cannot have.
MCFlashValue(f, s, p) ==
    CASE p = "SLOWLEN" -> 4 + f + s [] p = "SLOWGAP" -> 3 - s [] p = "PEAKINT" -> 9 + f
      [] p = "PEAKSAM" -> 6 - s [] p = "FASTLEN" -> 2 + s [] p = "FASTGAP" -> 2
      [] p = "MAXWIDTH" -> 5 + s [] p = "BLFILTER" -> 3 + 3 * s [] p = "MCALEN" -> 2 + s
      [] p = "NUMSCA" -> 2 + 3 * s [] p = "BINWIDTH" -> 1 + s [] p = "GAINBASE" -> 2 + s
      [] p = "GAINTWEAK" -> 1 + s [] p \in {"THRESHT", "THRESHE"} -> 4 + s
      [] OTHER -> s
=============================================================================
