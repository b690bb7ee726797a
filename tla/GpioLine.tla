------------------------------ MODULE GpioLine ------------------------------
(***************************************************************************)
(* The two modules of Kernel_Buoi 16 drive the same line, GPIO 27: one by  *)
(* number, without a look at any result, the other by descriptor, when a   *)
(* device is probed.  Either may be loaded and unloaded at any time.  The  *)
(* gpio library is external: a line that is requested cannot be requested  *)
(* again, but can be set and freed by number by anyone.                    *)
(***************************************************************************)

Driver == {"integer", "descriptor"}
Nobody27 == "nobody"

VARIABLES where,    \* driver -> where it is
          owner,    \* who has requested the line
          level,    \* of the line
          gpio_27   \* what gpiod_get returned: "none" yet, "desc" or "error"

gpioVars == <<where, owner, level, gpio_27>>

GpioInit ==
  /\ where = [d \in Driver |-> "absent"]
  /\ owner = Nobody27 /\ level = "LOW" /\ gpio_27 = "none"

Step(d, from, to) == where[d] = from /\ where' = [where EXCEPT ![d] = to]

-----------------------------------------------------------------------------
(* integer_base_interface.c                                                *)

GpioRequest ==
  /\ Step("integer", "absent", "direction")
  /\ owner' \in (IF owner = Nobody27 THEN {"integer"} ELSE {}) \cup {owner}
  /\ UNCHANGED <<level, gpio_27>>

(* Direction and level are set whether or not the request succeeded.       *)
GpioDirectionOutput ==
  /\ Step("integer", "direction", "set") /\ level' = "LOW" /\ UNCHANGED <<owner, gpio_27>>

GpioSetValue ==
  /\ Step("integer", "set", "live") /\ level' = "HIGH" /\ UNCHANGED <<owner, gpio_27>>

GpioExit ==
  /\ Step("integer", "live", "free") /\ level' = "LOW" /\ UNCHANGED <<owner, gpio_27>>

(* Frees the line, whoever has it.                                         *)
GpioFree ==
  /\ Step("integer", "free", "absent") /\ owner' = Nobody27
  /\ UNCHANGED <<level, gpio_27>>

-----------------------------------------------------------------------------
(* descriptor-base-interface.c                                             *)

(* gpiod_get requests the line and sets it LOW, or returns an ERR_PTR.     *)
GpiodGet ==
  /\ Step("descriptor", "absent", "set")
  /\ \/ owner = Nobody27 /\ owner' = "descriptor" /\ level' = "LOW" /\ gpio_27' = "desc"
     \/ gpio_27' = "error" /\ UNCHANGED <<owner, level>>

(* gpiod_set_value ignores an ERR_PTR.                                     *)
GpiodSet(from, to, l) ==
  /\ Step("descriptor", from, to)
  /\ level' = IF gpio_27 = "desc" THEN l ELSE level
  /\ UNCHANGED <<owner, gpio_27>>

GpiodSetValue == GpiodSet("set", "live", "HIGH")

(* Slip: the line is left as it is.                                        *)
GpiodKeep   == GpiodSet("live", "put", level)
GpiodRemove == GpiodSet("live", "put", "LOW")

(* gpiod_put frees the line, whoever has it by now; with an ERR_PTR the    *)
(* kernel may stop in it.                                                  *)
GpiodPut ==
  /\ \/ gpio_27 = "desc" /\ Step("descriptor", "put", "absent") /\ owner' = Nobody27
     \/ /\ gpio_27 = "error" /\ UNCHANGED owner
        /\ Step("descriptor", "put", "absent") \/ Step("descriptor", "put", "oops")
  /\ gpio_27' = "none" /\ UNCHANGED level

-----------------------------------------------------------------------------
GpioNext == \/ GpioRequest \/ GpioDirectionOutput \/ GpioSetValue \/ GpioExit \/ GpioFree
            \/ GpiodGet \/ GpiodSetValue \/ GpiodRemove \/ GpiodPut

GpioSpec == GpioInit /\ [][GpioNext]_gpioVars

-----------------------------------------------------------------------------
(* Type correctness; the line belongs to the descriptor only as long as    *)
(* there is one.                                                           *)
GpioTypeOK ==
  /\ where \in [Driver -> {"absent", "direction", "set", "live", "free", "put", "oops"}]
  /\ owner \in Driver \cup {Nobody27} /\ level \in {"LOW", "HIGH"}
  /\ gpio_27 \in {"none", "desc", "error"}
  /\ gpio_27 = "none" <=> where["descriptor"] \in {"absent", "oops"}
  /\ owner = "descriptor" => gpio_27 = "desc"

(* "Set GPIO27 to LOW before exiting": when both modules are gone the line *)
(* is low and free, although each sets and frees it under the other and    *)
(* neither knows whether it has it.                                        *)
LineGivenBack ==
  (\A d \in Driver : where[d] \in {"absent", "oops"}) =>
    level = "LOW" /\ owner = Nobody27

(* Not kept.  "Set GPIO27 to HIGH": the line is high while a module that   *)
(* set it is loaded; the other one's exit sets it low.                     *)
HighWhileLoaded == \A d \in Driver : where[d] = "live" => level = "HIGH"
=============================================================================
