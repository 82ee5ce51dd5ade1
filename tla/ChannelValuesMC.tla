--------------------------- MODULE ChannelValuesMC ---------------------------
(* Instance of ChannelValues for TLC: two channels, spectra of 4 to 12 bins, *)
(* two SCAs, parameters of 4 values so that lengths have several words.      *)
EXTENDS ChannelValues

MCTopics ==
    {{"number_mca_channels", "mca_low_limit"},
     {"preset_type", "preset_value", "preset_standard", "preset_runtime"},
     {"number_of_scas", "sca0_lo", "sca0_hi", "sca1_lo"},
     {"mapping_mode", "num_map_pixels", "num_map_pixels_per_buffer", "list_mode_variant"},
     {"mapping_mode", "gate_master", "sync_master", "lbus_master"},
     {"mapping_mode", "input_logic_polarity", "sync_count", "synchronous_run"},
     {"mapping_mode", "gate_ignore", "gate_mode", "pixel_advance_mode", "buffer_clear_size"}}

MCValues == [
    number_mca_channels |-> {3, 7, 17}, mca_low_limit |-> {0, 4, 20},
    preset_type |-> {0, 1, 3, 5}, preset_value |-> {3, 7, 20}, preset_standard |-> {0},
    preset_runtime |-> {2, 6}, number_of_scas |-> {0, 1, 3},
    sca0_lo |-> {2, 4}, sca0_hi |-> {1, 5}, sca1_lo |-> {3},
    mapping_mode |-> {0, 1, 2, 4}, num_map_pixels |-> {6}, num_map_pixels_per_buffer |-> {9},
    list_mode_variant |-> {1, 3}, gate_master |-> {0, 1}, sync_master |-> {1},
    lbus_master |-> {1, 2}, input_logic_polarity |-> {1}, sync_count |-> {5},
    synchronous_run |-> {1, 2}, gate_ignore |-> {1}, gate_mode |-> {2},
    pixel_advance_mode |-> {2, 3}, buffer_clear_size |-> {7}]

MCStart == [n \in Names |->
    CASE n = "number_mca_channels" -> 8
      [] n \in {"preset_type", "preset_value", "number_of_scas", "mca_low_limit"} -> 0
      [] n \in ToSet(Limits) \cup {"pixel_advance_mode", "preset_standard",
                                   "preset_runtime"} -> NoEntry
      [] OTHER -> 0]
=============================================================================
