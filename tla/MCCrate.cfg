SPECIFICATION Spec
CONSTANT Crates <- AllCrates
CONSTANT Parts = {"vme_adc", "vme_tdc", "vme_file", "vme_2016", "vme_e404", "vme_signal", "vme_strays", "vme_disk", "start_2020", "start_2016", "start_e404", "start_refused", "adc_last", "adc_both", "adc_e404", "conf_words", "conf_numbers", "conf_2016", "micro_quick", "micro_rest", "micro_slow", "lib_shared", "lib_create", "lib_each", "lib_faults", "lib_close", "lib_one", "tdc_loop", "tdc_once", "tdc_hit", "tdc_dump", "tdc_dump_o"}
INVARIANT TypeOK
INVARIANT EventNumber
INVARIANT NothingMissing
INVARIANT Connected
INVARIANT Started
INVARIANT Repaired
INVARIANT OwnSettings
 
INVARIANT Windows
INVARIANT TdcRight
CHECK_DEADLOCK FALSE
