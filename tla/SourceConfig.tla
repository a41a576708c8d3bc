---------------------------- MODULE SourceConfig ----------------------------
(***************************************************************************)
(* The signal source configuration object (src/analyzer/source.c, "Source *)
(* Config API"): created by suscan_source_config_new, changed by its       *)
(* setters, its gain list grown by assert_gain, and copied by clone, which *)
(* suscan_source_new calls before opening the source.                      *)
(*                                                                         *)
(* A configuration is a record with one field per member of                *)
(* suscan_source_config_t.  Strings (label, path, antenna, SDR arguments)  *)
(* are members of Strs or NULL; numbers are members of Vals.  The gain     *)
(* list is a sequence of [key, val] records in the order of gain_list.     *)
(***************************************************************************)
EXTENDS Naturals, Sequences, SequencesExt

CONSTANTS
    Names,          \* gain names a caller uses
    Strs,           \* strings a caller stores (label, path, antenna, args)
    Vals,           \* numbers a caller stores (freq, samp_rate, gains...)
    ScalarFields,   \* numeric members the caller sets
    FlagFields,     \* boolean members the caller sets
    MaxOps          \* configuration calls made in a behaviour

ASSUME /\ Vals \subseteq Nat /\ 0 \in Vals /\ MaxOps \in Nat
       /\ ScalarFields \subseteq {"freq", "bandwidth", "samp_rate", "channel"}
       /\ FlagFields \subseteq {"iq_balance", "dc_remove", "loop"}

NULL == "NULL"

Types   == {"FILE", "SDR"}
Formats == {"AUTO", "RAW", "WAV"}

VARIABLES
    cfg,    \* the caller's suscan_source_config_t
    ops     \* configuration calls made so far

\* suscan_source_config_new: calloc (every member zero or NULL), then type,
\* format and average = 1.
ConfigNew(type, format) ==
    [type |-> type, format |-> format,
     label |-> NULL, path |-> NULL, antenna |-> NULL, args |-> NULL,
     gains |-> <<>>,
     freq |-> 0, bandwidth |-> 0, samp_rate |-> 0, channel |-> 0, average |-> 1,
     iq_balance |-> FALSE, dc_remove |-> FALSE, loop |-> FALSE]

\* lookup_gain: index of the first gain named n, 0 when there is none.
LookupGain(c, n) == SelectInSeq(c.gains, LAMBDA g : g.key = n)

\* Mutant: a new gain is appended without looking the name up first.
AssertedGain_NoLookup(c, n, v) ==
    [c EXCEPT !.gains = Append(@, [key |-> n, val |-> v])]

(* assert_gain: an existing gain is returned as is; otherwise keyval_new    *)
(* makes one and PTR_LIST_APPEND_CHECK appends it.  keyval_new never        *)
(* stores its val argument, so the new gain holds whatever malloc left: v   *)
(* is that indeterminate value.                                             *)
AssertedGain(c, n, v) ==
    IF LookupGain(c, n) # 0 THEN c
    ELSE [c EXCEPT !.gains = Append(@, [key |-> n, val |-> v])]

\* set_gain: FALSE when no gain has that name, else its val is replaced.
SetGainIn(c, n, v) ==
    LET i == LookupGain(c, n)
    IN  [ok |-> i # 0,
         cfg |-> IF i = 0 THEN c ELSE [c EXCEPT !.gains[i].val = v]]

(* clone: a new configuration of the same type and format gets the label,  *)
(* path and antenna, then every gain through set_gain (the first failure   *)
(* makes clone fail), then the numeric and boolean members.  loop and the  *)
(* SDR arguments are not copied.                                           *)
Clone(c) ==
    LET new  == [ConfigNew(c.type, c.format) EXCEPT
                   !.label = c.label, !.path = c.path, !.antenna = c.antenna]
        Step(acc, g) ==
          IF ~acc.ok THEN acc ELSE SetGainIn(acc.cfg, g.key, g.val)
        withGains == FoldLeft(Step, [ok |-> TRUE, cfg |-> new], c.gains)
    IN  [ok  |-> withGains.ok,
         cfg |-> [withGains.cfg EXCEPT
                    !.freq = c.freq, !.bandwidth = c.bandwidth,
                    !.iq_balance = c.iq_balance, !.dc_remove = c.dc_remove,
                    !.samp_rate = c.samp_rate, !.average = c.average,
                    !.channel = c.channel]]

-----------------------------------------------------------------------------
(* The caller's configuration calls.  strdup failures leave the           *)
(* configuration as it was and are not distinguished from not calling.    *)

ConfigInit ==
    /\ \E t \in Types, f \in Formats : cfg = ConfigNew(t, f)
    /\ ops = 0

\* set_label, set_path, set_antenna: the old string is freed and replaced by
\* a copy (NULL clears it).
SetString ==
    /\ ops < MaxOps
    /\ \E f \in {"label", "path", "antenna"}, s \in Strs \cup {NULL} :
         cfg' = [cfg EXCEPT ![f] = s]
    /\ ops' = ops + 1

\* set_freq, set_bandwidth, set_samp_rate, set_channel.
SetScalar ==
    /\ ops < MaxOps
    /\ \E f \in ScalarFields, v \in Vals : cfg' = [cfg EXCEPT ![f] = v]
    /\ ops' = ops + 1

\* set_iq_balance, set_dc_remove, set_loop.
SetFlag ==
    /\ ops < MaxOps
    /\ \E f \in FlagFields, b \in BOOLEAN : cfg' = [cfg EXCEPT ![f] = b]
    /\ ops' = ops + 1

\* set_average refuses an average below 1.
SetAverage ==
    /\ ops < MaxOps
    /\ \E v \in Vals :
         cfg' = IF v < 1 THEN cfg ELSE [cfg EXCEPT !.average = v]
    /\ ops' = ops + 1

\* set_sdr_args: the string is parsed into the kwargs that replace the old.
SetSdrArgs ==
    /\ ops < MaxOps
    /\ \E s \in Strs : cfg' = [cfg EXCEPT !.args = s]
    /\ ops' = ops + 1

AssertGain ==
    /\ ops < MaxOps
    /\ \E n \in Names, v \in Vals : cfg' = AssertedGain(cfg, n, v)
    /\ ops' = ops + 1

SetGain ==
    /\ ops < MaxOps
    /\ \E n \in Names, v \in Vals : cfg' = SetGainIn(cfg, n, v).cfg
    /\ ops' = ops + 1

ConfigStep == SetString \/ SetScalar \/ SetFlag \/ SetAverage \/ SetSdrArgs
              \/ AssertGain \/ SetGain

-----------------------------------------------------------------------------
(* A configuration never holds two gains of the same name: assert_gain     *)
(* looks the name up before appending, however the calls are interleaved,  *)
(* so get_gain and set_gain, which stop at the first match, see every gain.*)
GainNamesUnique ==
    \A i, j \in DOMAIN cfg.gains : i < j => cfg.gains[i].key # cfg.gains[j].key
=============================================================================
