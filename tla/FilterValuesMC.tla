--------------------------- MODULE FilterValuesMC ---------------------------
(* Instance of FilterValues for TLC.  Times are in half ticks; the firmware   *)
(* file has a FiPPI for short and one for long peaking times, for each type   *)
(* of preamplifier.                                                           *)
EXTENDS FilterValues

MCFdd ==
    {[type |-> t, lo |-> r[1], hi |-> r[2], dec |-> r[3], peakInt |-> r[4], peakSam |-> 1]
       : t \in {"RESET", "RC"}, r \in {<<3, 12, 0, 1>>, <<12, 40, 2, 0>>}}

MCTopics ==
    {{"peaking_time", "minimum_gap_time", "gap_time"},
     {"peaking_time", "peak_sample_offset0", "peak_mode"},
     {"peaking_time", "peak_interval_offset2"},
     {"trigger_peaking_time", "trigger_gap_time", "maxwidth", "baseline_average"},
     {"peaking_time", "preamp_type", "reset_delay"},
     {"preamp_type", "decay_time", "detector_polarity"}}

MCValues == [
    peaking_time |-> {8, 9, 32}, minimum_gap_time |-> {2, 9}, gap_time |-> {4},
    peak_sample_offset0 |-> {2, 4}, peak_interval_offset2 |-> {8},
    peak_mode |-> {0, 1, 2}, trigger_peaking_time |-> {2, 4, 7}, trigger_gap_time |-> {3, 12},
    maxwidth |-> {0, 5}, baseline_average |-> {1, 4}, preamp_type |-> {0, 1},
    reset_delay |-> {4, 7}, decay_time |-> {5}, detector_polarity |-> {0, 2}]

MCStart == [n \in ToSet(Names) |->
    CASE n = "peaking_time" -> 8 [] n = "minimum_gap_time" -> 2 [] n = "detector_polarity" -> 1
      [] n = "reset_delay" -> 4 [] n = "decay_time" -> 6 [] n = "gap_time" -> 2
      [] n = "trigger_peaking_time" -> 4 [] n = "trigger_gap_time" -> 0
      [] n = "baseline_average" -> 8 [] n = "maxwidth" -> 6
      [] n \in {"preamp_type", "peak_mode", "actual_gap_time"} -> 0
      [] OTHER -> NoEntry]
=============================================================================
