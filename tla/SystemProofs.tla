---------------------------- MODULE SystemProofs ----------------------------
(***************************************************************************)
(* Proofs about System: the life of the kernel module under run.sh, and of *)
(* the daemon until it is signalled, for any number of runs, terminals,    *)
(* connections and signals and any peers.conf.                             *)
(***************************************************************************)
EXTENDS System, FiniteSetTheorems, TLAPS

\* What keycipher_init has registered before it gets to each of its calls.
Before ==
  [region    |-> {},
   cdev_out  |-> {"region"},
   cdev_in   |-> {"region", "cdev_out"},
   fifo_init |-> {"region", "cdev_out", "cdev_in"},
   proc      |-> {"region", "cdev_out", "cdev_in"},
   handler   |-> {"region", "cdev_out", "cdev_in", "proc"}]

\* The stage of init or exit decides what is registered: the labels and
\* keycipher_exit come to each part that is there, and to no other.
StageInv ==
  \/ /\ mstate = "absent" /\ mpc = "none"
     /\ reg = {} /\ files = {} /\ ~ready
  \/ /\ mstate = "coming" /\ mpc \in DOMAIN Before
     /\ reg = Before[mpc] /\ (ready <=> mpc \in {"proc", "handler"})
  \/ /\ mstate = "live" /\ mpc = "none"
     /\ reg = Before["handler"] \cup {"handler"} /\ ready
  \/ /\ mstate = "unwinding" /\ mpc \in DOMAIN Before \ {"fifo_init", "handler"}
     /\ reg = Before[mpc] \cup {mpc}
  \/ /\ mstate = "going" /\ mpc \in DOMAIN Before \ {"fifo_init"}
     /\ reg = Before[mpc] \cup {mpc} /\ ready

\* A keyboard event that sleeps holds up input_unregister_handler.
SleeperInv ==
  /\ key \in {"idle", "asleep"}
  /\ key = "asleep" => "handler" \in reg
  /\ used \in 0..FIFO_SIZE

\* Where the script is while the module is loaded, removed or there.
ScriptInv ==
  /\ runs \in Nat
  /\ mstate \in {"coming", "unwinding"} => script = "load"
  /\ mstate = "going" => script = "unload"
  /\ script = "load" => loaded = runs
  /\ script \in {"nodes", "start", "done"} => mstate = "live" /\ loaded = runs
  /\ script \in {"start", "done"} => node = "match"

\* In the first run there is no way to a device until the module is loaded.
FirstRunInv ==
  /\ runs = 0 => script = "off" /\ mstate = "absent" /\ node = "none" /\ ~misused
  /\ runs = 1 =>
       /\ ~misused
       /\ files # {} => mstate = "live"
       /\ node # "none" => mstate = "live"
       /\ script \in {"pkill", "rmmod", "insmod"} => mstate = "absent"
       /\ script \in {"pkill", "rmmod", "insmod", "load"} => node = "none"

LifeInv == StageInv /\ SleeperInv /\ ScriptInv /\ FirstRunInv

\* What the invariant looks at; the daemon's own steps leave all of it alone.
lvars == <<mvars, svars>>

LEMMA BeforeFacts ==
  /\ DOMAIN Before = {"region", "cdev_out", "cdev_in", "fifo_init", "proc", "handler"}
  /\ Before["region"] = {}
  /\ Before["cdev_out"] = {"region"}
  /\ Before["cdev_in"] = {"region", "cdev_out"}
  /\ Before["fifo_init"] = {"region", "cdev_out", "cdev_in"}
  /\ Before["proc"] = {"region", "cdev_out", "cdev_in"}
  /\ Before["handler"] = {"region", "cdev_out", "cdev_in", "proc"}
  BY DEF Before

\* The table of StageInv with its entries written out.
LEMMA StageFacts ==
  ASSUME StageInv
  PROVE  /\ mstate \in {"absent", "coming", "live", "unwinding", "going"}
         /\ mstate = "absent" => mpc = "none" /\ reg = {} /\ files = {} /\ ~ready
         /\ mstate = "live" => ready /\ "region" \in reg /\ mpc = "none"
         /\ mpc = "none" => mstate \in {"absent", "live"}
         /\ "handler" \in reg => ready /\ mstate \in {"live", "going"}
         /\ "handler" \in reg /\ mstate = "going" => mpc = "handler"
  BY BeforeFacts DEF StageInv

LEMMA NextTables ==
  /\ K!NextStage["region"] = "cdev_out" /\ K!NextStage["cdev_out"] = "cdev_in"
  /\ K!NextStage["cdev_in"] = "fifo_init" /\ K!NextStage["fifo_init"] = "proc"
  /\ K!NextStage["proc"] = "handler" /\ K!NextStage["handler"] = "none"
  /\ DOMAIN K!ErrorLabel = {"region", "cdev_out", "cdev_in", "proc", "handler"}
  /\ K!ErrorLabel["region"] = "none" /\ K!ErrorLabel["cdev_out"] = "region"
  /\ K!ErrorLabel["cdev_in"] = "cdev_out" /\ K!ErrorLabel["proc"] = "cdev_in"
  /\ K!ErrorLabel["handler"] = "proc"
  /\ K!NextRemoved["handler"] = "proc" /\ K!NextRemoved["proc"] = "cdev_in"
  /\ K!NextRemoved["cdev_in"] = "cdev_out" /\ K!NextRemoved["cdev_out"] = "region"
  /\ K!NextRemoved["region"] = "none"
  BY DEF K!NextStage, K!ErrorLabel, K!NextRemoved

(***************************************************************************)
(* Loading                                                                 *)
(***************************************************************************)
\* A call of keycipher_init succeeds.
LEMMA PassedStep ==
  ASSUME LifeInv,
         \/ init_step
         \/ (K!proc_stats_init \/ K!input_intercept_init) /\ UNCHANGED svars
  PROVE  LifeInv'
<1>1. /\ mstate = "coming" /\ mpc' = K!NextStage[mpc]
      /\ mstate' = IF mpc = "handler" THEN "live" ELSE "coming"
      /\ UNCHANGED <<files, used, key, misused, script, runs, loaded>>
      /\ mpc # "region" => node' = node
      /\ mpc = "region" /\ node = "none" => node' = node
      /\ mpc = "fifo_init" => ready' /\ reg' = reg
      /\ mpc # "fifo_init" => ready' = ready /\ reg' = reg \cup {mpc}
  <2>1. mstate = "coming" /\ mpc \in DOMAIN Before
    BY BeforeFacts DEF LifeInv, StageInv, init_step, K!keycipher_init,
         K!proc_stats_init, K!input_intercept_init, K!passed
  <2>2. (K!NextStage[mpc] = "none") <=> mpc = "handler"
    BY <2>1, BeforeFacts, NextTables
  <2>3. CASE init_step
    BY <2>1, <2>2, <2>3 DEF init_step, K!keycipher_init, K!passed
  <2>4. CASE K!proc_stats_init /\ UNCHANGED svars
    BY <2>1, <2>2, <2>4 DEF K!proc_stats_init, K!passed, svars
  <2>5. CASE K!input_intercept_init /\ UNCHANGED svars
    BY <2>1, <2>2, <2>5 DEF K!input_intercept_init, K!passed, svars
  <2> QED BY <2>3, <2>4, <2>5
<1>2. /\ mpc \in DOMAIN Before /\ reg = Before[mpc]
      /\ (ready <=> mpc \in {"proc", "handler"})
  BY <1>1 DEF LifeInv, StageInv
<1>3. StageInv'
  <2>1. CASE mpc = "handler"
    BY <2>1, <1>1, <1>2, BeforeFacts, NextTables DEF StageInv
  <2>2. CASE mpc # "handler"
    <3>1. /\ mpc' \in DOMAIN Before /\ reg' = Before[mpc']
          /\ (ready' <=> mpc' \in {"proc", "handler"})
      <4>1. CASE mpc = "region"
        BY <4>1, <1>1, <1>2, BeforeFacts, NextTables
      <4>2. CASE mpc = "cdev_out"
        BY <4>2, <1>1, <1>2, BeforeFacts, NextTables
      <4>3. CASE mpc = "cdev_in"
        BY <4>3, <1>1, <1>2, BeforeFacts, NextTables
      <4>4. CASE mpc = "fifo_init"
        BY <4>4, <1>1, <1>2, BeforeFacts, NextTables
      <4>5. CASE mpc = "proc"
        BY <4>5, <1>1, <1>2, BeforeFacts, NextTables
      <4> QED BY <2>2, <1>2, <4>1, <4>2, <4>3, <4>4, <4>5, BeforeFacts
    <3> QED BY <2>2, <3>1, <1>1 DEF StageInv
  <2> QED BY <2>1, <2>2
<1>4. SleeperInv'
  BY <1>1 DEF LifeInv, SleeperInv
<1>5. ScriptInv'
  BY <1>1 DEF LifeInv, ScriptInv
<1>6. FirstRunInv'
  BY <1>1 DEF LifeInv, FirstRunInv, ScriptInv
<1> QED BY <1>3, <1>4, <1>5, <1>6 DEF LifeInv

\* A call of keycipher_init fails.
LEMMA FailedStep ==
  ASSUME LifeInv, K!init_fails, UNCHANGED svars
  PROVE  LifeInv'
<1>1. /\ mstate = "coming" /\ mpc \in DOMAIN K!ErrorLabel
      /\ mpc' = K!ErrorLabel[mpc]
      /\ mpc = "region" => K!free_module
      /\ mpc # "region" => /\ mstate' = "unwinding"
                           /\ UNCHANGED <<ready, used, files, misused>>
      /\ UNCHANGED <<reg, key, script, runs, loaded, node>>
  BY DEF K!init_fails, svars
<1>2. mpc \in DOMAIN Before /\ reg = Before[mpc]
  BY <1>1 DEF LifeInv, StageInv
<1>3. CASE mpc = "region"
  <2>1. /\ mstate' = "absent" /\ ~ready' /\ used' = 0 /\ files' = {}
        /\ misused' = (misused \/ files # {})
    BY <1>1, <1>3 DEF K!free_module
  <2>2. StageInv'
    BY <2>1, <1>1, <1>2, <1>3, BeforeFacts, NextTables DEF StageInv
  <2>3. SleeperInv'
    BY <2>1, <1>1, <1>2, <1>3, SystemAssumption DEF LifeInv, SleeperInv
  <2>4. ScriptInv'
    BY <2>1, <1>1 DEF LifeInv, ScriptInv
  <2>5. FirstRunInv'
    BY <2>1, <1>1 DEF LifeInv, FirstRunInv, ScriptInv
  <2> QED BY <2>2, <2>3, <2>4, <2>5 DEF LifeInv
<1>4. CASE mpc # "region"
  <2>1. /\ mpc' \in DOMAIN Before \ {"fifo_init", "handler"}
        /\ reg' = Before[mpc'] \cup {mpc'}
    <3>1. CASE mpc = "cdev_out"
      BY <3>1, <1>1, <1>2, BeforeFacts, NextTables
    <3>2. CASE mpc = "cdev_in"
      BY <3>2, <1>1, <1>2, BeforeFacts, NextTables
    <3>3. CASE mpc = "proc"
      BY <3>3, <1>1, <1>2, BeforeFacts, NextTables
    <3>4. CASE mpc = "handler"
      BY <3>4, <1>1, <1>2, BeforeFacts, NextTables
    <3> QED BY <3>1, <3>2, <3>3, <3>4, <1>1, <1>4, NextTables
  <2>2. StageInv'
    BY <2>1, <1>1, <1>4 DEF StageInv
  <2>3. SleeperInv'
    BY <1>1, <1>4 DEF LifeInv, SleeperInv
  <2>4. ScriptInv'
    BY <1>1, <1>4 DEF LifeInv, ScriptInv
  <2>5. FirstRunInv'
    BY <1>1, <1>4 DEF LifeInv, FirstRunInv, ScriptInv
  <2> QED BY <2>2, <2>3, <2>4, <2>5 DEF LifeInv
<1> QED BY <1>3, <1>4

(***************************************************************************)
(* Unloading: keycipher_exit and the labels                                *)
(***************************************************************************)
LEMMA HandlerExitStep ==
  ASSUME LifeInv, K!input_intercept_exit, UNCHANGED svars
  PROVE  LifeInv'
<1>1. /\ mstate = "going" /\ mpc = "handler" /\ key = "idle"
      /\ reg' = reg \ {"handler"} /\ mpc' = "proc"
      /\ UNCHANGED <<mstate, ready, files, used, key, misused, script, runs, loaded, node>>
  BY NextTables DEF K!input_intercept_exit, svars
<1>2. reg = Before["handler"] \cup {"handler"} /\ ready
  BY <1>1 DEF LifeInv, StageInv
<1>3. StageInv'
  BY <1>1, <1>2, BeforeFacts DEF StageInv
<1>4. SleeperInv' /\ ScriptInv' /\ FirstRunInv'
  BY <1>1 DEF LifeInv, SleeperInv, ScriptInv, FirstRunInv
<1> QED BY <1>3, <1>4 DEF LifeInv

LEMMA RemoveStep ==
  ASSUME LifeInv, K!remove, UNCHANGED svars
  PROVE  LifeInv'
<1>1. /\ mstate \in {"unwinding", "going"} /\ mpc \notin {"handler", "none"}
      /\ reg' = reg \ {mpc} /\ mpc' = K!NextRemoved[mpc]
      /\ mpc = "region" => K!free_module
      /\ mpc # "region" => UNCHANGED <<mstate, ready, used, files, misused>>
      /\ UNCHANGED <<key, script, runs, loaded, node>>
  BY DEF K!remove, svars
<1>2. /\ mpc \in DOMAIN Before \ {"fifo_init", "handler"}
      /\ reg = Before[mpc] \cup {mpc} /\ (mstate = "going" => ready)
  BY <1>1 DEF LifeInv, StageInv
<1>3. "handler" \notin reg
  <2> mpc \in {"region", "cdev_out", "cdev_in", "proc"}
    BY <1>2, BeforeFacts
  <2> QED BY <1>2, BeforeFacts
<1>4. CASE mpc = "region"
  <2>1. /\ mstate' = "absent" /\ ~ready' /\ used' = 0 /\ files' = {}
        /\ misused' = (misused \/ files # {})
    BY <1>1, <1>4 DEF K!free_module
  <2>2. StageInv'
    BY <2>1, <1>1, <1>2, <1>4, BeforeFacts, NextTables DEF StageInv
  <2>3. SleeperInv'
    BY <2>1, <1>1, <1>3, SystemAssumption DEF LifeInv, SleeperInv
  <2>4. ScriptInv'
    BY <2>1, <1>1 DEF LifeInv, ScriptInv
  <2>5. FirstRunInv'
    BY <2>1, <1>1 DEF LifeInv, FirstRunInv, ScriptInv
  <2> QED BY <2>2, <2>3, <2>4, <2>5 DEF LifeInv
<1>5. CASE mpc # "region"
  <2>1. /\ mpc' \in DOMAIN Before \ {"fifo_init", "handler"}
        /\ reg' = Before[mpc'] \cup {mpc'}
    <3>1. CASE mpc = "cdev_out"
      BY <3>1, <1>1, <1>2, BeforeFacts, NextTables
    <3>2. CASE mpc = "cdev_in"
      BY <3>2, <1>1, <1>2, BeforeFacts, NextTables
    <3>3. CASE mpc = "proc"
      BY <3>3, <1>1, <1>2, BeforeFacts, NextTables
    <3> QED BY <3>1, <3>2, <3>3, <1>2, <1>5, BeforeFacts
  <2>2. StageInv'
    BY <2>1, <1>1, <1>2, <1>5 DEF StageInv
  <2>3. SleeperInv'
    BY <1>1, <1>3, <1>5 DEF LifeInv, SleeperInv
  <2>4. ScriptInv' /\ FirstRunInv'
    BY <1>1, <1>5 DEF LifeInv, ScriptInv, FirstRunInv
  <2> QED BY <2>2, <2>3, <2>4 DEF LifeInv
<1> QED BY <1>4, <1>5

(***************************************************************************)
(* Files and keyboards                                                     *)
(***************************************************************************)
\* An open that run.sh's nodes lead to, a close, and calls on an open file.
LEMMA FileStep ==
  ASSUME LifeInv, UNCHANGED svars, NEW u,
         \/ node = "match" /\ mstate # "going" /\ K!keycipher_open(u)
         \/ K!keycipher_release(u)
         \/ K!call_too_early(u)
         \/ K!keycipher_out_read(u)
  PROVE  LifeInv'
<1>1. /\ UNCHANGED <<mstate, mpc, reg, ready, key, script, runs, loaded, node>>
  BY DEF K!keycipher_open, K!keycipher_release, K!call_too_early,
         K!keycipher_out_read, svars
<1>2. files' # {} => files # {} \/ node = "match"
  BY DEF K!keycipher_open, K!keycipher_release, K!call_too_early, K!keycipher_out_read
<1>3. mstate = "absent" => reg = {} /\ files = {} /\ ~ready
  BY StageFacts DEF LifeInv
<1>4. mstate = "absent" => files' = {}
  BY <1>3 DEF K!keycipher_open, K!keycipher_release, K!call_too_early, K!keycipher_out_read
<1>5. misused' # misused => files # {} /\ ~ready /\ misused'
  BY DEF K!keycipher_open, K!keycipher_release, K!call_too_early, K!keycipher_out_read
<1>6. used' \in 0..FIFO_SIZE
  <2>1. used \in 0..FIFO_SIZE /\ FIFO_SIZE \in Nat
    BY SystemAssumption DEF LifeInv, SleeperInv
  <2>2. used' = used \/ (used > 0 /\ used' = used - 1)
    BY DEF K!keycipher_open, K!keycipher_release, K!call_too_early, K!keycipher_out_read
  <2> QED BY <2>1, <2>2
<1>7. StageInv'
  BY <1>1, <1>3, <1>4 DEF LifeInv, StageInv
<1>8. SleeperInv' /\ ScriptInv'
  BY <1>1, <1>6 DEF LifeInv, SleeperInv, ScriptInv
<1>9. FirstRunInv'
  <2>1. runs = 1 => /\ files' # {} => mstate = "live"
                    /\ misused' = misused
    BY <1>2, <1>5, StageFacts DEF LifeInv, FirstRunInv
  <2>2. runs = 0 => misused' = misused
    BY <1>3, <1>5 DEF LifeInv, FirstRunInv
  <2> QED BY <2>1, <2>2, <1>1 DEF LifeInv, FirstRunInv
<1> QED BY <1>7, <1>8, <1>9 DEF LifeInv

LEMMA KeyStep ==
  ASSUME LifeInv, UNCHANGED svars, K!input_event_handler \/ K!fifo_write_wakes
  PROVE  LifeInv'
<1>1. UNCHANGED <<mstate, mpc, reg, ready, files, script, runs, loaded, node>>
  BY DEF K!input_event_handler, K!fifo_write_wakes, svars
<1>2. key \in {"idle", "asleep"} /\ used \in 0..FIFO_SIZE /\ FIFO_SIZE \in Nat
  BY SystemAssumption DEF LifeInv, SleeperInv
<1>3. "handler" \in reg => ready
  BY StageFacts DEF LifeInv
<1>4. /\ misused' = misused
      /\ key' \in {"idle", "asleep"} /\ (key' = "asleep" => "handler" \in reg)
      /\ used' = used \/ (used < FIFO_SIZE /\ used' = used + 1)
  BY <1>2, <1>3 DEF K!input_event_handler, K!fifo_write_wakes
<1>5. StageInv' /\ ScriptInv' /\ FirstRunInv'
  BY <1>1, <1>4 DEF LifeInv, StageInv, ScriptInv, FirstRunInv
<1>6. SleeperInv'
  BY <1>1, <1>2, <1>4 DEF SleeperInv
<1> QED BY <1>5, <1>6 DEF LifeInv

(***************************************************************************)
(* run.sh                                                                  *)
(***************************************************************************)
LEMMA BeginStep ==
  ASSUME LifeInv, begin
  PROVE  LifeInv'
<1>1. /\ script \in {"off", "done", "failed"}
      /\ script' = "pkill" /\ runs' = runs + 1 /\ runs \in Nat
      /\ UNCHANGED <<mvars, loaded, node>>
  BY DEF begin, LifeInv, ScriptInv
<1>2. /\ runs' # 0
      /\ runs' = 1 => /\ mstate = "absent" /\ node = "none" /\ ~misused
                      /\ files = {}
  BY <1>1, StageFacts DEF LifeInv, FirstRunInv
<1>3. StageInv' /\ SleeperInv'
  BY <1>1 DEF LifeInv, StageInv, SleeperInv, mvars
<1>4. ScriptInv'
  BY <1>1 DEF LifeInv, ScriptInv, mvars
<1>5. FirstRunInv'
  BY <1>1, <1>2 DEF FirstRunInv, mvars
<1> QED BY <1>3, <1>4, <1>5 DEF LifeInv

LEMMA UnloadStep ==
  ASSUME LifeInv, rmmod
  PROVE  LifeInv'
<1>1. UNCHANGED <<runs, loaded, node, reg, ready, files, used, key, misused>>
  BY DEF rmmod, K!rmmod, mvars
<1>2. CASE K!rmmod /\ script' = "unload"
  <2>1. /\ mstate = "live" /\ files = {} /\ mstate' = "going" /\ mpc' = "handler"
        /\ script = "rmmod"
    BY <1>2 DEF K!rmmod, rmmod
  <2>2. StageInv'
    BY <2>1, <1>1, BeforeFacts DEF LifeInv, StageInv
  <2>3. SleeperInv' /\ ScriptInv'
    BY <2>1, <1>1, <1>2 DEF LifeInv, SleeperInv, ScriptInv
  <2>4. FirstRunInv'
    BY <2>1, <1>1, <1>2 DEF LifeInv, FirstRunInv
  <2> QED BY <2>2, <2>3, <2>4 DEF LifeInv
<1>3. CASE (mstate = "absent" \/ files # {}) /\ script' = "insmod" /\ UNCHANGED mvars
  <2>1. script = "rmmod" /\ UNCHANGED <<mstate, mpc>>
    BY <1>3 DEF rmmod, mvars
  <2>2. StageInv' /\ SleeperInv' /\ ScriptInv'
    BY <2>1, <1>1, <1>3 DEF LifeInv, StageInv, SleeperInv, ScriptInv
  <2>3. FirstRunInv'
    BY <2>1, <1>1, <1>3 DEF LifeInv, FirstRunInv
  <2> QED BY <2>2, <2>3 DEF LifeInv
<1> QED BY <1>2, <1>3 DEF rmmod

LEMMA LoadStep ==
  ASSUME LifeInv, insmod
  PROVE  LifeInv'
<1>1. UNCHANGED <<runs, node, reg, ready, files, used, key, misused>> /\ script = "insmod"
  BY DEF insmod, K!insmod, mvars
<1>2. CASE K!insmod /\ script' = "load" /\ loaded' = runs
  <2>1. mstate = "absent" /\ mstate' = "coming" /\ mpc' = "region"
    BY <1>2 DEF K!insmod
  <2>2. StageInv'
    <3>1. reg = {} /\ ~ready
      BY <2>1, StageFacts DEF LifeInv
    <3> QED BY <2>1, <3>1, <1>1, BeforeFacts DEF StageInv
  <2>3. SleeperInv' /\ ScriptInv'
    BY <2>1, <1>1, <1>2 DEF LifeInv, SleeperInv, ScriptInv
  <2>4. FirstRunInv'
    BY <2>1, <1>1, <1>2, StageFacts DEF LifeInv, FirstRunInv
  <2> QED BY <2>2, <2>3, <2>4 DEF LifeInv
<1>3. CASE mstate # "absent" /\ script' = "failed" /\ UNCHANGED <<mvars, loaded>>
  <2>1. UNCHANGED <<mstate, mpc, loaded>>
    BY <1>3 DEF mvars
  <2>2. StageInv' /\ SleeperInv' /\ ScriptInv'
    BY <2>1, <1>1, <1>3 DEF LifeInv, StageInv, SleeperInv, ScriptInv
  <2>3. FirstRunInv'
    BY <2>1, <1>1, <1>3 DEF LifeInv, FirstRunInv
  <2> QED BY <2>2, <2>3 DEF LifeInv
<1> QED BY <1>2, <1>3 DEF insmod

\* The commands that leave the module alone.
LEMMA ScriptStep ==
  ASSUME LifeInv,
         \/ pkill \/ rmmod_returns \/ insmod_returns \/ mknod \/ build_fails
         \/ start_daemon
  PROVE  LifeInv'
<1>1. UNCHANGED <<mvars, runs, loaded>>
  BY DEF pkill, rmmod_returns, insmod_returns, mknod, build_fails, start_daemon
<1>2. UNCHANGED <<mstate, mpc, reg, ready, files, used, key, misused>>
  BY <1>1 DEF mvars
<1>3. StageInv' /\ SleeperInv'
  BY <1>2 DEF LifeInv, StageInv, SleeperInv
<1>4. ASSUME node' = node,
             \/ script = "pkill" /\ script' = "rmmod"
             \/ script = "unload" /\ mstate = "absent" /\ script' = "insmod"
             \/ script = "load" /\ mstate = "live" /\ script' = "nodes"
             \/ script = "load" /\ mstate = "absent" /\ script' = "failed"
             \/ script \in {"rmmod", "start"} /\ script' = "failed"
             \/ script = "start" /\ script' = "done"
      PROVE  ScriptInv' /\ FirstRunInv'
  BY <1>1, <1>2, <1>4 DEF LifeInv, ScriptInv, FirstRunInv
<1>5. ASSUME mknod
      PROVE  ScriptInv' /\ FirstRunInv'
  <2>1. mstate = "live" /\ script = "nodes" /\ script' = "start" /\ node' = "match"
    BY <1>5, StageFacts DEF mknod, LifeInv, ScriptInv
  <2> QED BY <2>1, <1>1, <1>2 DEF LifeInv, ScriptInv, FirstRunInv
<1>6. ScriptInv' /\ FirstRunInv'
  BY <1>4, <1>5 DEF pkill, rmmod_returns, insmod_returns, build_fails, start_daemon
<1> QED BY <1>3, <1>6 DEF LifeInv

(***************************************************************************)
(* The invariant                                                           *)
(***************************************************************************)
LEMMA LifeInit == Init => LifeInv
  BY SystemAssumption DEF Init, K!Init, LifeInv, StageInv, SleeperInv, ScriptInv,
                          FirstRunInv

LEMMA LifeIdle == LifeInv /\ UNCHANGED lvars => LifeInv'
  BY DEF LifeInv, StageInv, SleeperInv, ScriptInv, FirstRunInv, lvars, mvars, svars

LEMMA LifeStep == LifeInv /\ [Next]_vars => LifeInv'
<1> SUFFICES ASSUME LifeInv, [Next]_vars PROVE LifeInv'
  OBVIOUS
<1>1. CASE begin \/ script_step
  BY <1>1, BeginStep, UnloadStep, LoadStep, ScriptStep DEF script_step
<1>2. CASE module_step
  BY <1>2, PassedStep, FailedStep, HandlerExitStep, RemoveStep DEF module_step
<1>3. CASE type_line \/ line_stored
  BY <1>3, KeyStep DEF type_line, line_stored
<1>4. ASSUME NEW u \in Terminals, terminal(u) PROVE LifeInv'
  BY <1>4, FileStep DEF terminal, K!keycipher_open
<1>5. CASE start_threads
  BY <1>5, FileStep, LifeIdle DEF start_threads, lvars
<1>6. CASE process_ends
  BY <1>6, FileStep, LifeIdle DEF process_ends, lvars
<1>7. CASE send_step
  BY <1>7, FileStep DEF send_step
<1>8. CASE main_step \/ other_threads \/ ctrl_c \/ UNCHANGED vars
  BY <1>8, LifeIdle DEF main_step, other_threads, ctrl_c, vars, lvars
<1> QED BY <1>1, <1>2, <1>3, <1>4, <1>5, <1>6, <1>7, <1>8 DEF Next

LEMMA LifeHolds == Spec => []LifeInv
BY LifeInit, LifeStep, PTL DEF Spec

(***************************************************************************)
(* The theorems                                                            *)
(***************************************************************************)
\* Whichever call of keycipher_init fails, its label and those below it remove
\* exactly what was registered, and so does keycipher_exit.
THEOREM CleanAbsenceHolds == Spec => []CleanAbsence
<1>1. LifeInv => CleanAbsence
  BY StageFacts DEF LifeInv, CleanAbsence
<1> QED BY <1>1, LifeHolds, PTL

\* In the first run of run.sh no node leads to a device before its FIFO is ready,
\* and the input handler comes after fifo_init: nothing uses a FIFO too early.
THEOREM FirstLoadIsSafeHolds == Spec => []FirstLoadIsSafe
<1>1. LifeInv => FirstLoadIsSafe
  BY DEF LifeInv, FirstRunInv, FirstLoadIsSafe
<1> QED BY <1>1, LifeHolds, PTL

\* However often run.sh is run, over whatever modules, nodes and daemons of
\* earlier runs: a run that is done has loaded its own module and made its nodes.
THEOREM ReloadIsCleanHolds == Spec => []ReloadIsClean
<1>1. LifeInv => ReloadIsClean
  BY DEF LifeInv, ScriptInv, ReloadIsClean
<1> QED BY <1>1, LifeHolds, PTL

\* The module's code and FIFO are there for an event handler that sleeps in them.
EventKeepsModule == key = "asleep" => ready /\ mstate \in {"live", "going"}

\* input_unregister_handler is the first call of keycipher_exit and waits for the
\* handler of an event, so the module is never freed under one that sleeps.
THEOREM EventKeepsModuleHolds == Spec => []EventKeepsModule
<1>1. LifeInv => EventKeepsModule
  BY StageFacts DEF LifeInv, SleeperInv, EventKeepsModule
<1> QED BY <1>1, LifeHolds, PTL

(***************************************************************************)
(* The daemon until the first signal                                       *)
(***************************************************************************)
\* Stages of main before the context is made, and those with the server.
Unstarted == {"off", "peers", "lines", "ssl"}
Started == {"listen", "threads", "loop"}

\* Without a signal main is in no handler and nothing is stopped; the server and
\* each connection hold one reference to the context.
RunningInv ==
  /\ running /\ srv_running /\ hpc = "none" /\ ~spoiled
  /\ conns \in Nat
  /\ listen_fd \in {"unset", "open"} /\ peer_fd \in {"none", "unset", "open"}
  /\ \/ dpc \in Unstarted /\ ctx = D!NULL /\ ~accepting /\ conns = 0
     \/ dpc \in Started /\ ctx = 1 + conns

Least(m, n) == IF m < n THEN m ELSE n

\* The loop of peer_manager_init: the peers are the addresses among the lines
\* that were read, and where the loop ends before the file the table is full.
LoopInv ==
  /\ conf \in Seq(D!Pieces) /\ pos \in 0..Len(conf)
  /\ peers \in Seq(D!Pieces) /\ Len(peers) = Least(rank(conf, pos), MAX_PEERS)
  /\ \A i \in 1..pos : conf[i] \in Ips /\ rank(conf, i) <= MAX_PEERS =>
                          peers[rank(conf, i)] = conf[i]
  /\ dpc = "ssl" => pos = Len(conf) \/ rank(conf, pos) >= MAX_PEERS

NoRest == \A i \in DOMAIN conf : conf[i] # "rest"

DaemonInv ==
  /\ sigs \in Nat
  /\ sigs = 0 => RunningInv
  /\ sigs = 0 /\ dpc \in {"lines", "ssl"} /\ NoRest => LoopInv

\* What rank counts.
LEMMA RankFacts ==
  ASSUME NEW c, NEW i \in Nat
  PROVE  /\ IsFiniteSet({j \in 1..i : c[j] \in Ips})
         /\ rank(c, i) \in Nat
<1>1. IsFiniteSet(1..i)
  BY FS_Interval
<1>2. IsFiniteSet({j \in 1..i : c[j] \in Ips})
  BY <1>1, FS_Subset
<1> QED BY <1>2, FS_CardinalityType DEF rank

LEMMA RankZero ==
  ASSUME NEW c
  PROVE  rank(c, 0) = 0
<1>1. {j \in 1..0 : c[j] \in Ips} = {}
  OBVIOUS
<1>2. Cardinality({}) = 0
  BY FS_EmptySet, Zenon
<1> QED BY <1>1, <1>2 DEF rank

LEMMA RankNext ==
  ASSUME NEW c, NEW i \in Nat
  PROVE  rank(c, i + 1) = IF c[i + 1] \in Ips THEN rank(c, i) + 1 ELSE rank(c, i)
<1> DEFINE A(k) == {j \in 1..k : c[j] \in Ips}
<1>1. IsFiniteSet(A(i))
  BY RankFacts
<1>2. i + 1 \notin A(i)
  OBVIOUS
<1>3. CASE c[i + 1] \in Ips
  <2>1. A(i + 1) = A(i) \cup {i + 1}
    BY <1>3
  <2>2. Cardinality(A(i) \cup {i + 1}) = Cardinality(A(i)) + 1
    BY <1>1, <1>2, FS_AddElement
  <2>3. Cardinality(A(i + 1)) = Cardinality(A(i)) + 1
    BY <2>1, <2>2
  <2> QED BY <2>3, <1>3 DEF rank
<1>4. CASE c[i + 1] \notin Ips
  <2>1. A(i + 1) = A(i)
    BY <1>4
  <2>2. Cardinality(A(i + 1)) = Cardinality(A(i))
    BY <2>1
  <2> QED BY <2>2, <1>4 DEF rank
<1> QED BY <1>3, <1>4

LEMMA RankGrows ==
  ASSUME NEW c, NEW i \in Nat, NEW j \in Nat, i <= j
  PROVE  rank(c, i) <= rank(c, j)
<1>1. {k \in 1..i : c[k] \in Ips} \subseteq {k \in 1..j : c[k] \in Ips}
  OBVIOUS
<1> QED BY <1>1, RankFacts, FS_Subset DEF rank

\* An address comes after those before it.
LEMMA RankOfAddress ==
  ASSUME NEW c, NEW i \in Nat, NEW j \in Nat, i < j, c[j] \in Ips
  PROVE  rank(c, j) >= rank(c, i) + 1
<1>1. j - 1 \in Nat /\ i <= j - 1 /\ (j - 1) + 1 = j
  OBVIOUS
<1>2. rank(c, j) = rank(c, j - 1) + 1
  BY <1>1, RankNext
<1>3. rank(c, i) <= rank(c, j - 1)
  BY <1>1, RankGrows
<1>4. rank(c, i) \in Nat /\ rank(c, j - 1) \in Nat
  BY <1>1, RankFacts
<1> QED BY <1>2, <1>3, <1>4

\* The file has just been opened.
LEMMA LoopOpened ==
  ASSUME D!fopen
  PROVE  LoopInv'
<1>1. /\ conf' \in Seq(D!Pieces) /\ pos' = 0 /\ peers' = <<>> /\ dpc' = "lines"
  BY ConfsAssumption DEF D!fopen
<1>2. rank(conf', 0) = 0 /\ MAX_PEERS \in Nat
  BY RankZero, SystemAssumption
<1>3. pos' \in 0..Len(conf')
  BY <1>1
<1>4. peers' \in Seq(D!Pieces) /\ Len(peers') = 0
  BY <1>1
<1>5. Least(rank(conf', pos'), MAX_PEERS) = 0
  BY <1>1, <1>2 DEF Least
<1>6. 1..pos' = {}
  BY <1>1
<1> QED BY <1>1, <1>3, <1>4, <1>5, <1>6 DEF LoopInv

\* A line that is no address, and one that peers[] has room for or not.
LEMMA LoopLine ==
  ASSUME LoopInv, NoRest, dpc = "lines", D!read_line
  PROVE  LoopInv'
<1> DEFINE line == conf[pos + 1]
           r == rank(conf, pos)
<1>1. /\ pos \in Nat /\ Len(conf) \in Nat /\ pos < Len(conf) /\ pos' = pos + 1
      /\ UNCHANGED conf /\ conf \in Seq(D!Pieces)
      /\ peers \in Seq(D!Pieces) /\ Len(peers) = Least(r, MAX_PEERS)
  <2>1. /\ pos \in 0..Len(conf) /\ conf \in Seq(D!Pieces)
        /\ peers \in Seq(D!Pieces) /\ Len(peers) = Least(r, MAX_PEERS)
    BY DEF LoopInv
  <2>2. pos < Len(conf) /\ pos' = pos + 1 /\ conf' = conf
    BY DEF D!read_line
  <2>3. pos \in Nat /\ Len(conf) \in Nat
    BY <2>1
  <2> QED BY <2>1, <2>2, <2>3
<1>2. /\ MAX_PEERS \in Nat /\ r \in Nat
      /\ line \in D!Pieces /\ line # "rest"
  <2>1. pos + 1 \in DOMAIN conf
    BY <1>1
  <2>2. line \in D!Pieces /\ line # "rest"
    BY <2>1, <1>1 DEF NoRest
  <2>3. r \in Nat
    BY <1>1, RankFacts
  <2> QED BY <2>2, <2>3, SystemAssumption
<1>9. \/ Len(peers) >= MAX_PEERS /\ dpc' = "ssl" /\ peers' = peers
      \/ Len(peers) < MAX_PEERS /\ line \in Ips /\ dpc' = dpc /\ peers' = Append(peers, line)
      \/ line \notin Ips /\ dpc' = dpc /\ peers' = peers
  <2>1. Len(peers) \in Nat
    BY <1>1
  <2>2. line \in {"blank or comment", "ip too long"} => line \notin Ips
    BY ConfsAssumption, Zenon
  <2>3. CASE line # "blank or comment" /\ Len(peers) >= MAX_PEERS
    BY <2>3 DEF D!read_line
  <2>4. CASE ~(line # "blank or comment" /\ Len(peers) >= MAX_PEERS)
    <3>1. \/ line \in Ips \cup {"rest"} /\ dpc' = dpc /\ peers' = Append(peers, line)
          \/ line \in {"blank or comment", "ip too long"} /\ dpc' = dpc /\ peers' = peers
      BY <2>4, Zenon DEF D!read_line, D!add_peer
    <3>2. line \in Ips => line # "blank or comment"
      BY <2>2
    <3>3. line \in Ips => Len(peers) < MAX_PEERS
      <4>1. Len(peers) >= MAX_PEERS \/ Len(peers) < MAX_PEERS
        BY <2>1, <1>2
      <4> QED BY <4>1, <3>2, <2>4, Zenon
    <3>4. line \in Ips \cup {"rest"} => line \in Ips
      BY <1>2
    <3> QED BY <3>1, <3>3, <3>4, <2>2
  <2> QED BY <2>3, <2>4
<1> HIDE DEF line, r
<1>3. rank(conf, pos + 1) = IF line \in Ips THEN r + 1 ELSE r
  BY <1>1, RankNext DEF line, r
<1>4. pos' \in 0..Len(conf') /\ conf' \in Seq(D!Pieces)
  BY <1>1
<1>5. \A i \in 1..pos : conf[i] \in Ips => rank(conf, i) \in 1..r
  <2> SUFFICES ASSUME NEW i \in 1..pos, conf[i] \in Ips PROVE rank(conf, i) \in 1..r
    OBVIOUS
  <2>1. rank(conf, i) >= rank(conf, 0) + 1
    BY <1>1, RankOfAddress
  <2>2. rank(conf, i) <= r
    BY <1>1, RankGrows DEF r
  <2>3. rank(conf, i) \in Nat
    <3>1. i \in Nat
      BY <1>1
    <3> QED BY <3>1, RankFacts
  <2>4. rank(conf, 0) = 0
    BY RankZero
  <2> QED BY <2>1, <2>2, <2>3, <2>4, <1>2
<1>6. \A i \in 1..pos : conf[i] \in Ips /\ rank(conf, i) <= MAX_PEERS =>
                          peers[rank(conf, i)] = conf[i]
  BY DEF LoopInv
<1>7. CASE line \in Ips /\ Len(peers) < MAX_PEERS
  <2>1. Len(peers) \in Nat
    BY <1>1
  <2>2. peers' = Append(peers, line) /\ dpc' = "lines"
    BY <2>1, <1>2, <1>7, <1>9
  <2>3. r < MAX_PEERS /\ Len(peers) = r
    BY <1>1, <1>2, <1>7 DEF Least
  <2>4. /\ peers' \in Seq(D!Pieces) /\ Len(peers') = r + 1
        /\ \A k \in 1..r : peers'[k] = peers[k]
        /\ peers'[r + 1] = line
    BY <2>2, <2>3, <1>1, <1>2
  <2>5. rank(conf, pos') = r + 1
    BY <1>1, <1>3, <1>7
  <2>6. Len(peers') = Least(rank(conf, pos'), MAX_PEERS)
    BY <2>3, <2>4, <2>5, <1>2 DEF Least
  <2>7. ASSUME NEW i \in 1..pos', conf[i] \in Ips
        PROVE  peers'[rank(conf, i)] = conf[i]
    <3>1. CASE i = pos + 1
      BY <3>1, <2>4, <2>5, <1>1 DEF line
    <3>2. CASE i # pos + 1
      <4>1. i \in 1..pos
        BY <3>2, <1>1
      <4>2. rank(conf, i) \in 1..r
        BY <4>1, <2>7, <1>5
      <4>3. rank(conf, i) <= MAX_PEERS
        BY <4>2, <2>3, <1>2
      <4>4. peers[rank(conf, i)] = conf[i]
        BY <4>1, <4>3, <2>7, <1>6
      <4> QED BY <4>2, <4>4, <2>4
    <3> QED BY <3>1, <3>2
  <2> QED BY <2>2, <2>4, <2>6, <2>7, <1>1, <1>4 DEF LoopInv
<1>8. CASE line \notin Ips \/ Len(peers) >= MAX_PEERS
  <2>0. Len(peers) \in Nat
    BY <1>1
  <2>1. peers' = peers
    BY <2>0, <1>2, <1>8, <1>9
  <2>2. Len(peers) >= MAX_PEERS => r >= MAX_PEERS
    BY <1>1, <1>2 DEF Least
  <2>3. Least(rank(conf, pos'), MAX_PEERS) = Least(r, MAX_PEERS)
    BY <2>2, <1>1, <1>2, <1>3, <1>8 DEF Least
  <2>4. dpc' = "ssl" => rank(conf, pos') >= MAX_PEERS
    <3>1. dpc' = "ssl" => Len(peers) >= MAX_PEERS
      BY <1>9
    <3> QED BY <3>1, <2>2, <1>1, <1>2, <1>3
  <2>5. ASSUME NEW i \in 1..pos', conf[i] \in Ips, rank(conf, i) <= MAX_PEERS
        PROVE  peers[rank(conf, i)] = conf[i]
    <3>1. CASE i = pos + 1
      <4>1. rank(conf, i) = r + 1 /\ r >= MAX_PEERS
        BY <3>1, <2>2, <2>5, <1>3, <1>8 DEF line
      <4> QED BY <4>1, <2>5, <1>2
    <3>2. CASE i # pos + 1
      <4>1. i \in 1..pos
        BY <3>2, <1>1
      <4> QED BY <4>1, <2>5, <1>6
    <3> QED BY <3>1, <3>2
  <2> QED BY <2>1, <2>3, <2>4, <2>5, <1>1, <1>4 DEF LoopInv
<1> QED
  <2>1. Len(peers) \in Nat
    BY <1>1
  <2> QED BY <2>1, <1>2, <1>7, <1>8

LEMMA LoopEnded ==
  ASSUME LoopInv, D!end_of_file
  PROVE  LoopInv'
<1>1. pos = Len(conf) /\ UNCHANGED <<conf, pos, peers>>
  BY DEF D!end_of_file, D!table
<1> QED BY <1>1 DEF LoopInv

\* The invariant says nothing of a daemon that has been signalled.
LEMMA Signalled ==
  ASSUME DaemonInv, D!signal
  PROVE  DaemonInv'
<1>1. sigs' \in Nat /\ sigs' # 0
  BY DEF D!signal, DaemonInv
<1> QED BY <1>1 DEF DaemonInv

LEMMA ProcessEnds ==
  ASSUME D!end_process
  PROVE  DaemonInv'
<1>1. /\ running' /\ srv_running' /\ hpc' = "none" /\ ~spoiled' /\ conns' = 0
      /\ listen_fd' = "unset" /\ peer_fd' = "none" /\ dpc' = "off"
      /\ ctx' = D!NULL /\ ~accepting' /\ sigs' = 0
  BY DEF D!end_process
<1>2. RunningInv'
  BY <1>1 DEF RunningInv, Unstarted
<1> QED BY <1>1, <1>2 DEF DaemonInv

\* main, from start on, while there has been no signal.
LEMMA MainKeepsRunning ==
  ASSUME RunningInv,
         \/ D!start \/ D!fopen \/ D!read_line \/ D!end_of_file
         \/ D!server_init_ssl \/ D!server_init_listen \/ D!start_threads
  PROVE  RunningInv' /\ sigs' = sigs
<1>1. /\ UNCHANGED <<hpc, running, srv_running, conns, sigs>>
      /\ running /\ srv_running /\ hpc = "none" /\ ~spoiled /\ conns \in Nat
      /\ listen_fd \in {"unset", "open"} /\ peer_fd \in {"none", "unset", "open"}
  BY DEF RunningInv, D!start, D!fopen, D!read_line, D!end_of_file, D!server_init_ssl,
         D!server_init_listen, D!start_threads
<1>2. CASE D!start \/ D!fopen \/ D!read_line \/ D!end_of_file
  <2>1. /\ UNCHANGED <<ctx, listen_fd, accepting, peer_fd, spoiled>>
        /\ dpc \in Unstarted /\ dpc' \in Unstarted
    BY <1>2 DEF D!start, D!fopen, D!read_line, D!add_peer, D!end_of_file, D!at, Unstarted
  <2>2. ctx = D!NULL /\ ~accepting /\ conns = 0
    BY <2>1 DEF RunningInv, Unstarted, Started
  <2> QED BY <2>1, <2>2, <1>1 DEF RunningInv
<1>3. CASE D!server_init_ssl
  <2>1. /\ dpc = "ssl" /\ dpc' = "listen" /\ ctx' = 1
        /\ UNCHANGED <<listen_fd, accepting, peer_fd, spoiled>>
    BY <1>3 DEF D!server_init_ssl, D!at
  <2>2. conns = 0
    BY <2>1 DEF RunningInv, Started
  <2> QED BY <2>1, <2>2, <1>1 DEF RunningInv, Started
<1>4. CASE D!server_init_listen
  <2>1. /\ dpc = "listen" /\ dpc' = "threads" /\ listen_fd' = "open"
        /\ ctx' = ctx /\ peer_fd' = peer_fd /\ spoiled' = (spoiled \/ ctx = 0)
    BY <1>4 DEF D!server_init_listen, D!at
  <2>2. ctx = 1 + conns
    BY <2>1 DEF RunningInv, Unstarted
  <2>3. ~spoiled'
    <3>1. ctx # 0
      BY <2>2, <1>1
    <3> QED BY <3>1, <2>1, <1>1, Zenon
  <2> QED BY <2>1, <2>2, <2>3, <1>1 DEF RunningInv, Started
<1>5. CASE D!start_threads
  <2>1. /\ dpc = "threads" /\ dpc' = "loop" /\ peer_fd' \in {"unset", "none"}
        /\ UNCHANGED <<ctx, listen_fd, accepting, spoiled>>
    BY <1>5 DEF D!start_threads, D!at
  <2>2. ctx = 1 + conns
    BY <2>1 DEF RunningInv, Unstarted
  <2> QED BY <2>1, <2>2, <1>1 DEF RunningInv, Started
<1> QED BY <1>1, <1>2, <1>3, <1>4, <1>5

\* The other threads while there has been no signal: no descriptor is closed, the
\* server accepts and ends connections.
LEMMA ThreadsKeepRunning ==
  ASSUME RunningInv, D!thread_step
  PROVE  RunningInv' /\ UNCHANGED <<sigs, dpc, conf, pos, peers>>
<1>1. /\ UNCHANGED <<hpc, running, srv_running, sigs, dpc, conf, pos, peers>>
      /\ running /\ srv_running /\ hpc = "none" /\ ~spoiled /\ conns \in Nat
      /\ listen_fd \in {"unset", "open"} /\ peer_fd \in {"none", "unset", "open"}
  BY DEF RunningInv, D!thread_step, D!table, D!descriptor_reused, D!client_connect,
         D!client_send_message, D!accept_connection, D!accept_fails, D!connection_ends
<1>2. ~D!descriptor_reused /\ ~D!client_send_message /\ ~D!accept_fails
  BY <1>1 DEF D!descriptor_reused, D!client_send_message, D!accept_fails
<1>3. CASE D!client_connect
  <2>1. peer_fd' = "open" /\ UNCHANGED <<ctx, listen_fd, accepting, conns, spoiled>>
    BY <1>3 DEF D!client_connect
  <2> QED BY <2>1, <1>1 DEF RunningInv
<1>4. CASE D!accept_connection
  <2>1. dpc \in Started /\ ctx = 1 + conns
    BY <1>4 DEF D!accept_connection, RunningInv
  <2>2. /\ conns' = conns + 1 /\ UNCHANGED <<listen_fd, peer_fd>>
        /\ ctx' = (IF ctx > 0 THEN ctx + 1 ELSE ctx)
        /\ spoiled' = (spoiled \/ ctx = 0)
    BY <1>4 DEF D!accept_connection
  <2>3. ctx' = 1 + conns' /\ conns' \in Nat /\ ctx # 0
    BY <2>1, <2>2, <1>1
  <2>4. ~spoiled'
    BY <2>2, <2>3, <1>1, Zenon
  <2> QED BY <2>1, <2>2, <2>3, <2>4, <1>1 DEF RunningInv
<1>5. CASE D!connection_ends
  <2>1. conns > 0
    BY <1>5 DEF D!connection_ends
  <2>2. dpc \in Started /\ ctx = 1 + conns
    BY <2>1 DEF RunningInv
  <2>3. /\ conns' = conns - 1 /\ UNCHANGED <<listen_fd, peer_fd>>
        /\ ctx' = (IF ctx > 0 THEN ctx - 1 ELSE ctx)
        /\ spoiled' = (spoiled \/ ctx = 0)
    BY <1>5 DEF D!connection_ends
  <2>4. ctx' = 1 + conns' /\ conns' \in Nat /\ ctx # 0
    BY <2>1, <2>2, <2>3, <1>1
  <2>5. ~spoiled'
    BY <2>3, <2>4, <1>1, Zenon
  <2> QED BY <2>2, <2>3, <2>4, <2>5, <1>1 DEF RunningInv
<1> QED BY <1>1, <1>2, <1>3, <1>4, <1>5 DEF D!thread_step

\* start, main's steps and those of the threads.
LEMMA DaemonStep ==
  ASSUME DaemonInv, D!start \/ D!start_threads \/ D!main_step \/ D!thread_step
  PROVE  DaemonInv'
<1>1. sigs' = sigs
  BY DEF D!start, D!start_threads, D!main_step, D!thread_step, D!fopen, D!read_line,
         D!end_of_file, D!server_init_ssl, D!server_init_listen, D!handler_stops,
         D!main_stops, D!descriptor_reused, D!client_connect, D!client_send_message,
         D!accept_connection, D!accept_fails, D!connection_ends
<1>2. CASE sigs # 0
  BY <1>1, <1>2 DEF DaemonInv
<1>3. CASE sigs = 0
  <2>1. RunningInv
    BY <1>3 DEF DaemonInv
  <2>2. ~D!handler_stops /\ ~D!main_stops
    BY <2>1 DEF RunningInv, D!handler_stops, D!main_stops
  <2>3. RunningInv'
    BY <2>1, <2>2, MainKeepsRunning, ThreadsKeepRunning DEF D!main_step
  <2>4. ASSUME dpc' \in {"lines", "ssl"}, NoRest'
        PROVE  LoopInv'
    <3>1. CASE D!fopen
      BY <3>1, LoopOpened
    <3>2. CASE D!read_line
      <4>1. dpc = "lines" /\ conf' = conf
        BY <3>2 DEF D!read_line, D!at
      <4>2. NoRest
        BY <4>1, <2>4 DEF NoRest
      <4>3. LoopInv
        BY <4>1, <4>2, <1>3 DEF DaemonInv
      <4> QED BY <4>1, <4>2, <4>3, <3>2, LoopLine
    <3>3. CASE D!end_of_file
      <4>1. dpc = "lines" /\ conf' = conf
        BY <3>3 DEF D!end_of_file, D!at, D!table
      <4>2. LoopInv
        BY <4>1, <2>4, <1>3 DEF DaemonInv, NoRest
      <4> QED BY <4>2, <3>3, LoopEnded
    <3>4. CASE D!thread_step
      <4>1. UNCHANGED <<dpc, conf, pos, peers>>
        BY <3>4, <2>1, ThreadsKeepRunning
      <4>2. NoRest
        BY <4>1, <2>4 DEF NoRest
      <4>3. LoopInv
        BY <4>1, <4>2, <2>4, <1>3 DEF DaemonInv
      <4> QED BY <4>1, <4>3 DEF LoopInv
    <3>5. ~D!start /\ ~D!start_threads /\ ~D!server_init_ssl /\ ~D!server_init_listen
      BY <2>4 DEF D!start, D!start_threads, D!server_init_ssl, D!server_init_listen
    <3> QED BY <3>1, <3>2, <3>3, <3>4, <3>5, <2>2 DEF D!main_step
  <2> QED BY <1>1, <1>3, <2>3, <2>4 DEF DaemonInv
<1> QED BY <1>2, <1>3

LEMMA DaemonIdle == DaemonInv /\ UNCHANGED dvars => DaemonInv'
<1> SUFFICES ASSUME DaemonInv, UNCHANGED dvars PROVE DaemonInv'
  OBVIOUS
<1>1. UNCHANGED <<dpc, hpc, running, srv_running, ctx, listen_fd, accepting, conns,
                  conf, pos, peers, peer_fd, sigs, spoiled>>
  BY DEF dvars
<1>2. (RunningInv => RunningInv') /\ (LoopInv => LoopInv') /\ (NoRest' => NoRest)
  BY <1>1 DEF RunningInv, LoopInv, NoRest
<1> QED BY <1>1, <1>2 DEF DaemonInv

LEMMA DaemonInit == Init => DaemonInv
<1> SUFFICES ASSUME Init PROVE DaemonInv
  OBVIOUS
<1>1. /\ running /\ srv_running /\ hpc = "none" /\ ~spoiled /\ conns = 0
      /\ listen_fd = "unset" /\ peer_fd = "none" /\ dpc = "off"
      /\ ctx = D!NULL /\ ~accepting /\ sigs = 0
  BY DEF Init, D!Init
<1>2. RunningInv
  BY <1>1 DEF RunningInv, Unstarted
<1> QED BY <1>1, <1>2 DEF DaemonInv

LEMMA DaemonNext == DaemonInv /\ [Next]_vars => DaemonInv'
<1> SUFFICES ASSUME DaemonInv, [Next]_vars PROVE DaemonInv'
  OBVIOUS
<1>1. CASE \/ begin \/ module_step \/ type_line \/ line_stored \/ send_step
           \/ UNCHANGED vars \/ \E u \in Terminals : terminal(u)
  <2>1. UNCHANGED dvars
    BY <1>1 DEF begin, module_step, init_step, type_line, line_stored, send_step, vars,
                terminal
  <2> QED BY <2>1, DaemonIdle
<1>2. CASE script_step
  <2>1. D!signal \/ D!start \/ UNCHANGED dvars
    BY <1>2 DEF script_step, pkill, rmmod, rmmod_returns, insmod, insmod_returns, mknod,
                build_fails, start_daemon
  <2> QED BY <2>1, DaemonIdle, DaemonStep, Signalled
<1>3. CASE start_threads
  BY <1>3, DaemonStep DEF start_threads
<1>4. CASE process_ends
  BY <1>4, ProcessEnds DEF process_ends, D!startup_fails, D!main_returns, D!killed
<1>5. CASE main_step \/ other_threads
  BY <1>5, DaemonStep DEF main_step, other_threads
<1>6. CASE ctrl_c
  BY <1>6, Signalled DEF ctrl_c
<1> QED BY <1>1, <1>2, <1>3, <1>4, <1>5, <1>6 DEF Next

LEMMA DaemonHolds == Spec => []DaemonInv
BY DaemonInit, DaemonNext, PTL DEF Spec

\* Until a signal comes, whatever main, the connections and the connect threads do
\* in any order, the context has a reference for each that uses it, and nothing
\* uses a freed context or another thread's descriptor.
THEOREM CleanUntilSignalledHolds == Spec => []CleanUntilSignalled
<1>1. DaemonInv => CleanUntilSignalled
  <2> SUFFICES ASSUME DaemonInv, sigs = 0
               PROVE  ~spoiled /\ (accepting \/ conns > 0 => ctx = 1 + conns)
    BY DEF CleanUntilSignalled
  <2> QED BY DEF DaemonInv, RunningInv
<1> QED BY <1>1, DaemonHolds, PTL

\* For every peers.conf without an overlong comment and every size of the table:
\* the k-th peer is the k-th address of the file, and no address is left out while
\* there is room.
THEOREM PeersAreConfiguredHolds == Spec => []PeersAreConfigured
<1>1. DaemonInv => PeersAreConfigured
  <2> SUFFICES ASSUME DaemonInv, dpc = "ssl", sigs = 0, NoRest
               PROVE  /\ \A i \in DOMAIN conf :
                            conf[i] \in Ips /\ rank(conf, i) <= MAX_PEERS =>
                              peers[rank(conf, i)] = conf[i]
                      /\ Len(peers) = Least(rank(conf, Len(conf)), MAX_PEERS)
    BY DEF PeersAreConfigured, NoRest, Least
  <2>1. LoopInv
    BY DEF DaemonInv
  <2>2. /\ pos \in Nat /\ Len(conf) \in Nat /\ pos <= Len(conf)
        /\ DOMAIN conf = 1..Len(conf) /\ MAX_PEERS \in Nat
    BY <2>1, SystemAssumption DEF LoopInv
  <2>3. rank(conf, pos) \in Nat /\ rank(conf, Len(conf)) \in Nat
    BY <2>2, RankFacts
  <2>4. \A i \in 1..pos : conf[i] \in Ips /\ rank(conf, i) <= MAX_PEERS =>
                            peers[rank(conf, i)] = conf[i]
    BY <2>1 DEF LoopInv
  <2>5. Len(peers) = Least(rank(conf, pos), MAX_PEERS)
    BY <2>1 DEF LoopInv
  <2>6. CASE pos = Len(conf)
    BY <2>6, <2>2, <2>4, <2>5
  <2>7. CASE rank(conf, pos) >= MAX_PEERS
    <3>1. rank(conf, Len(conf)) >= rank(conf, pos)
      BY <2>2, RankGrows
    <3>2. Len(peers) = Least(rank(conf, Len(conf)), MAX_PEERS)
      BY <3>1, <2>2, <2>3, <2>5, <2>7 DEF Least
    <3>3. ASSUME NEW i \in 1..Len(conf), conf[i] \in Ips, i > pos
          PROVE  ~(rank(conf, i) <= MAX_PEERS)
      <4>1. i \in Nat /\ rank(conf, i) \in Nat
        <5>1. i \in Nat
          BY <2>2
        <5> QED BY <5>1, RankFacts
      <4>2. rank(conf, i) >= rank(conf, pos) + 1
        BY <4>1, <3>3, <2>2, RankOfAddress
      <4> QED BY <4>1, <4>2, <2>2, <2>3, <2>7
    <3> QED BY <3>2, <3>3, <2>2, <2>4
  <2> QED BY <2>1, <2>6, <2>7 DEF LoopInv
<1> QED BY <1>1, DaemonHolds, PTL
=============================================================================
