------------------------------ MODULE MCAirgapify ------------------------------
(* Instances of Airgapify: up to three objects in any order out of a pod, a    *)
(* custom resource, one whose path fails and one whose path panics, a Config   *)
(* that lists an image and adds rules for the custom resource and for pods,    *)
(* one that adds nothing, and one that does not convert.                       *)
EXTENDS Airgapify, SequencesExt

CONSTANTS pod, custom, config, other,               \* types
          containers, initContainers, field, list,  \* paths
          nginx, busybox, extra                     \* names

MCTypes   == {pod, custom, config, other}
MCPaths   == {containers, initContainers, field, list}
MCNames   == {nginx, busybox, extra}
MCDefaults == <<[type |-> pod, paths |-> <<containers>>],
                [type |-> config, paths |-> <<list>>]>>

Yield(refs)  == [st |-> "ok", refs |-> refs]
Nothing      == [q \in MCPaths |-> Yield({})]

Obj(t, y) == [type |-> t, yields |-> y, converts |-> TRUE, rules |-> <<>>]

Pod      == Obj(pod, [Nothing EXCEPT ![containers] = Yield({nginx}),
                                     ![initContainers] = Yield({busybox})])
Custom   == Obj(custom, [Nothing EXCEPT ![field] = Yield({extra, nginx})])
Broken   == Obj(custom, [Nothing EXCEPT ![field] = [st |-> "error", refs |-> {}]])
Panics   == Obj(custom, [Nothing EXCEPT ![field] = [st |-> "panic", refs |-> {}]])
Ignored  == Obj(other, [Nothing EXCEPT ![containers] = Yield({extra})])
Extends  == [Obj(config, [Nothing EXCEPT ![list] = Yield({busybox})])
                EXCEPT !.rules = <<[type |-> custom, paths |-> <<list, field>>],
                                   [type |-> pod, paths |-> <<initContainers>>]>>]
Plain    == Obj(config, [Nothing EXCEPT ![list] = Yield({extra})])
Mangled  == [Plain EXCEPT !.converts = FALSE]

MCInputs == BoundedSeq({Pod, Custom, Broken, Panics, Ignored, Extends, Plain, Mangled}, 3)
================================================================================
