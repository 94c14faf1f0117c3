---------------------------- MODULE DepositTime ----------------------------
(***************************************************************************)
(* selectFormattedDepositTime of src/ui/common/redux/wallet.ts: the       *)
(* stability pool's cycle duration, in whole seconds, turned into the     *)
(* phrase the deposit screen shows.  The phrase is a record of the        *)
(* translation key it uses and the duration it states, in seconds (half   *)
(* a minute is 30).  The selector is a pure function of the federation's  *)
(* config; the config is the state, and it may be replaced by any other   *)
(* one (a refresh of the federation's metadata, or a switch).             *)
(***************************************************************************)
EXTENDS Integers

CONSTANTS
    Durations,    \* the cycle durations, in seconds, the config may hold
    NoConfig      \* selectFederationStabilityPoolConfig returned undefined

VARIABLE config   \* NoConfig or config.cycle_duration.secs

Configs == {NoConfig} \cup Durations

Phrase(key, stated) == [key |-> key, stated |-> stated]

(* The first branch: a duration of an hour or more.                       *)
MoreThanAnHour(seconds) == seconds >= 3600

(* Seeded fault: rounded to whole minutes, counted in half-minutes.      *)
WholeMinutesInHalves(seconds) == 2 * ((seconds + 30) \div 60)

(* Seeded fault: seconds / 30 doubled again, as if it were minutes.     *)
HalfMinutesDoubled(seconds) == (2 * seconds + 15) \div 30

(* Math.round((seconds / 60) * 2), the duration in half-minutes rounded   *)
(* to the nearest, ties up (seconds / 30 is exact at every tie).          *)
HalfMinutes(seconds) == (seconds + 15) \div 30

(* The selector: 0 without a config; otherwise the hour, seconds or       *)
(* minutes phrase, plural above one.                                      *)
FormattedDepositTime(c) ==
    CASE c = NoConfig            -> Phrase("none", 0)
      [] MoreThanAnHour(c)       -> Phrase("more-than-an-hour", 3600)
      [] c < 60 /\ c > 1         -> Phrase("seconds", c)
      [] c < 60                  -> Phrase("one-second", 1)
      [] HalfMinutes(c) > 2      -> Phrase("minutes", 30 * HalfMinutes(c))
      [] OTHER                   -> Phrase("one-minute", 60)

Init == config \in Configs

(* The federation's stability pool config is replaced.                   *)
ConfigChanges(c) ==
    /\ c # config
    /\ config' = c

Next == \E c \in Configs : ConfigChanges(c)

Spec == Init /\ [][Next]_config

-----------------------------------------------------------------------------
(* Properties.                                                             *)

Shown == FormattedDepositTime(config)

TypeOK ==
    /\ config \in Configs
    /\ Shown.stated \in 0..3600

(* Spec 3 and its boundary cases: "more than an hour" exactly from 3600   *)
(* seconds on, and below that the stated duration is within a quarter    *)
(* minute of the cycle (nearest half-minute rounding).                    *)
WithinQuarterMinute ==
    config # NoConfig =>
        /\ (Shown.key = "more-than-an-hour") <=> config >= 3600
        /\ Shown.key # "more-than-an-hour" =>
              -15 <= Shown.stated - config /\ Shown.stated - config <= 15

(* Spec 3: below a minute the phrase states the cycle's seconds, singular *)
(* at exactly one.                                                        *)
SecondsStatedExactly ==
    config # NoConfig /\ config < 60 =>
        /\ Shown.stated = config
        /\ (Shown.key = "one-second") <=> config = 1

=============================================================================
