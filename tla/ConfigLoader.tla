---------------------------- MODULE ConfigLoader ----------------------------
(***************************************************************************)
(* An approved config is pushed to the SoC over the file that is there,    *)
(* and the trading core, which may be started at any moment, scans it once *)
(* and hands the parameters out through three getters (config_loader.c,    *)
(* the top of main.c).                                                     *)
(***************************************************************************)
EXTENDS ConfigFile

CONSTANTS
  Configs,       (* configs the pipeline may approve                        *)
  OtherTexts,    (* what the file may hold that the pipeline did not write  *)
  Shifts,        (* how far two texts may be out of step                    *)
  MaxTears       (* BOUND: pushes that are seen before they are complete    *)

\* What Sweep.tla shows of a candidate, and of the operator's name what it
\* shows of the label.
ASSUME ConfigAssumption ==
  \A c \in Configs : Deliverable(c) /\ c.operator_id \notin LoaderKeys
ASSUME PushAssumption == Shifts \subseteq Shift /\ MaxTears \in Nat

VARIABLES
  disk,       (* the text of the config file                               *)
  push,       (* the config that is being pushed, or None                  *)
  tears,      (* pushes so far that were seen before they were complete    *)
  core,       (* the process: "off", or the getter main() is at, or its end *)
  sized,      (* None, or "current" or "stale": read_file has measured the  *)
              (* file, which has not or has been written since              *)
  loaded,     (* g_loaded and the globals: what load_config left, or None   *)
  got,        (* what the getters have returned to main()                   *)
  source      (* history: the text that was read, or None                   *)

core_vars   == <<core, sized, loaded, got, source>>
push_vars   == <<disk, push, tears>>
loader_vars == <<push_vars, core_vars>>

Getters == <<"risk_limits", "parameters", "strategy">>

LoaderInit == /\ disk \in OtherTexts
              /\ push = None /\ tears = 0
              /\ core = "off" /\ sized = None /\ loaded = None
              /\ got = <<>> /\ source = None

----------------------------------------------------------------------------
(* The push (external: scp, which opens the file that is there, writes over *)
(* it from the start, and cuts it to its new length at the end).            *)

Documents == [c \in Configs |-> Document(c)]
Parts     == [c \in Configs |-> UNION {Part(Documents[c], n) : n \in 0 .. Len(Documents[c])}]

Write(text) == /\ disk' = text
               /\ sized' = IF sized = None THEN None ELSE "stale"
               /\ UNCHANGED <<core, loaded, got, source>>

\* The file is seen while the new text ends anywhere in the old one.
PushPart(c) == /\ push = None /\ tears < MaxTears
               /\ \E n \in 0 .. Len(Documents[c]), shift \in Shifts :
                    /\ n + shift.tokens >= 0
                    /\ \E text \in Overwritten(Documents[c], n, disk, shift) : Write(text)
               /\ push' = c
               /\ tears' = tears + 1

PushBreaks == /\ push # None
              /\ push' = None
              /\ UNCHANGED <<disk, tears, core_vars>>

\* The rest of the push, or all of it in one.
PushRest(c) == /\ push \in {None, c}
               /\ Write(Documents[c])
               /\ push' = None
               /\ UNCHANGED tears

----------------------------------------------------------------------------
(* The trading core                                                        *)

StartCore == /\ core \in {"off", "trading", "rejected"}
             /\ core' = Getters[1]
             /\ sized' = None /\ loaded' = None /\ got' = <<>> /\ source' = None
             /\ UNCHANGED push_vars

\* read_file, first half: ftell.  An empty file is refused.
MeasureFile == /\ core \in Range(Getters) /\ loaded = None /\ sized = None
               /\ IF disk = <<>>
                  THEN /\ core' = "rejected" /\ source' = disk
                       /\ UNCHANGED sized
                  ELSE /\ sized' = "current"
                       /\ UNCHANGED <<core, source>>
               /\ UNCHANGED <<push_vars, loaded, got>>

\* Second half: fread, of no more bytes than were measured; of a file that has
\* changed in between this may be any part.
ReadTexts == IF sized = "current" THEN {disk}
             ELSE UNION {Part(disk, n) : n \in 0 .. Len(disk)}

LoadConfig(text) ==
  \/ /\ Accepts(text)
     /\ loaded' = Loaded(text)
     /\ UNCHANGED core
  \/ /\ ~Accepts(text)
     /\ core' = "rejected"
     /\ UNCHANGED loaded

ReadFile == /\ core \in Range(Getters) /\ loaded = None /\ sized # None
            /\ \E text \in ReadTexts :
                 /\ LoadConfig(text)
                 /\ source' = text
            /\ sized' = None
            /\ UNCHANGED <<push_vars, got>>

\* Variant: g_loaded is never set, and every getter reads the file.
KeepLoadedForgetful == loaded' = None
KeepLoaded          == UNCHANGED loaded

\* ensure_loaded has returned, and the getter does.
GetterReturns ==
  /\ core \in Range(Getters) /\ loaded # None
  /\ got' = Append(got, loaded[core])
  /\ core' = IF core = Last(Getters) THEN "trading" ELSE Getters[Len(got) + 2]
  /\ KeepLoaded
  /\ UNCHANGED <<push_vars, sized, source>>

CoreNext == StartCore \/ MeasureFile \/ ReadFile \/ GetterReturns

LoaderNext == \/ \E c \in Configs : PushPart(c) \/ PushRest(c)
              \/ PushBreaks
              \/ CoreNext

LoaderSpec == LoaderInit /\ [][LoaderNext]_loader_vars

----------------------------------------------------------------------------
LoaderTypeOK == /\ push \in Configs \cup {None}
                /\ core \in {"off", "trading", "rejected"} \cup Range(Getters)
                /\ Len(got) <= Len(Getters)
                /\ core = "trading" => Len(got) = Len(Getters) /\ loaded # None

GotConfig(c) == /\ got[1] = c.risk_limits
                /\ got[2] = c.parameters
                /\ got[3] = StrategyIndex[c.strategy_id]

\* A core that has read an approved document, the whole of it or what there was
\* of it, and trades, does so with the parameters, limits and strategy of that
\* config: a document that is cut off anywhere is never taken for another one,
\* and a push between two getters mixes nothing.
TradesAsApproved ==
  core = "trading" => \A c \in Configs : source \in Parts[c] => GotConfig(c)

\* Whatever the file held, the core trades within the FS3 ceilings and with a
\* ring that is long enough.
WithinCeilings ==
  core = "trading" =>
    /\ \A limit \in Limits : got[1][limit] \in 1 .. Ceiling[limit]
    /\ \A axis \in {"lookback", "window"} : got[2][axis][1] \in 1 .. RingSize - 1

\* A core that was stopped by the loader had not read the whole of an approved
\* config: the loader accepts what the pipeline writes.
ApprovedIsAccepted ==
  core = "rejected" => \A c \in Configs : source # Documents[c]

\* src/README.md:13: "Only an approved configuration is loaded for the next
\* trading session."
OnlyApprovedIsLoaded ==
  core = "trading" => \E c \in Configs : GotConfig(c)
=============================================================================
