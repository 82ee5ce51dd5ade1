---------------------------- MODULE GainValuesMC ----------------------------
(* Instance of GainValues for TLC: modules of one and two channels, gains of  *)
(* 0 to 4, of which the first is in the middle.                               *)
EXTENDS GainValues

MCBoards ==
    {[product |-> "mercury", oem |-> FALSE, first |-> 0, chans |-> {0}],
     [product |-> "mercury", oem |-> FALSE, first |-> 0, chans |-> {0, 1}],
     [product |-> "mercury", oem |-> TRUE, first |-> 0, chans |-> {0}],
     [product |-> "stj", oem |-> FALSE, first |-> 0, chans |-> {0, 1}],
     [product |-> "stj", oem |-> FALSE, first |-> 1, chans |-> {0}],
     [product |-> "saturn", oem |-> FALSE, first |-> 0, chans |-> {0}]}

MCTopics ==
    {{"dynamic_range", "preamp_gain", "mca_bin_width", "calibrate"},
     {"calibration_energy", "adc_percent_rule", "trigger_threshold", "adjust_percent_rule"},
     {"energy_threshold", "baseline_threshold", "enable_baseline_cut", "preamp_gain",
      "calibrate_digital_gain"},
     {"temp_correction", "preamp_gain", "delta_temp", "calibrate", "drift"},
     {"gain_slope", "calibrated_gain", "calibrated_dac", "calibrated_checksum",
      "temp_correction"},
     {"input_attenuation", "input_termination", "rc_time", "rc_time_constant",
      "preamp_gain", "calibrate_rc_time"},
     {"adc_offset", "offset_dac", "baseline_factor", "adjust_offsets", "RAWPARAM"},
     {"trace_trigger_type", "trace_trigger_position", "trace_trigger_enable",
      "trigger_output", "livetime_output"},
     {"bias_scan_start_offset", "bias_scan_steps", "bias_scan_step_size",
      "bias_scan_wait_time", "bias_dac_enable"},
     {"bias_dac_set_zero", "bias_dac_zero", "bias_set_dac", "enable_gate", "baseline_cut",
      "baseline_filter_length"},
     {"pmt_trigger_mode", "pmt_dynode_threshold", "pmt_dynode_sum_threshold",
      "pmt_multiplicity_length", "pmt_multiplicity_requirement"}}

MCValues == [n \in Names |->
    CASE n = "dynamic_range" -> {5, 9}
      [] n = "preamp_gain" -> {3, 5, 8}
      [] n = "mca_bin_width" -> {2}
      [] n = "calibration_energy" -> {8, 12}
      [] n = "adc_percent_rule" -> {2, 4}
      [] n \in {"trigger_threshold", "energy_threshold"} -> {8, 20}
      [] n = "baseline_threshold" -> {0, 8}
      [] n \in {"temp_correction", "input_attenuation"} -> {0, 1, 3}
      [] n = "rc_time" -> {3 * 65536 + 5}
      [] n \in {"adc_offset", "offset_dac", "pmt_dynode_sum_threshold"} -> {7, 65536, 65537}
      [] n \in {"bias_scan_steps", "bias_scan_wait_time"} -> {100, 8193, 65540}
      [] n \in {"bias_scan_start_offset", "bias_scan_step_size", "bias_dac_set_zero",
                "bias_dac_zero", "bias_set_dac"} -> {0, -5, 8192}
      [] n \in {"pmt_dynode_threshold", "pmt_multiplicity_length"} -> {-3, 32768}
      [] n = "baseline_filter_length" -> {0, 64}
      [] n \in {"trace_trigger_type", "trace_trigger_position"} -> {255, 256}
      [] OTHER -> {1, 40}]

MCStart == [n \in Names |->
    CASE n = "dynamic_range" -> 6
      [] n = "preamp_gain" -> 4
      [] n = "mca_bin_width" -> 3
      [] n = "calibration_energy" -> 9
      [] n = "adc_percent_rule" -> 3
      [] n \in Thresholds -> 9
      [] n = "bias_scan_step_size" -> 1
      [] n = "RAWPARAM" -> NoEntry
      [] OTHER -> 0]

MCDeltas == {-1, 1, 2}
=============================================================================
