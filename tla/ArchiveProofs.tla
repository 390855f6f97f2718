----------------------------- MODULE ArchiveProofs -----------------------------
(* Theorems about Archive, for every set of images, every registry and every   *)
(* set of faults.                                                              *)
EXTENDS Archive, SequenceTheorems, TLAPS

LEMMA Push ==
  ASSUME NEW f, NEW g, NEW h
  PROVE  /\ <<f>> \o <<>> = <<f>>
         /\ <<f>> \o <<g>> = <<f, g>>
         /\ <<f>> \o <<g, h>> = <<f, g, h>>
  <1>1. <<f>> \o <<>> = <<f>>
    OBVIOUS
  <1>2. <<f>> \o <<g>> = <<f, g>>
    <2> DEFINE S == {f, g}
    <2>1. /\ <<f>> \in Seq(S)
          /\ <<g>> \in Seq(S)
          /\ <<f, g>> \in Seq(S)
      OBVIOUS
    <2>2. <<f>> \o <<g>> \in Seq(S)
      BY <2>1
    <2>3. Len(<<f>> \o <<g>>) = 2 /\ Len(<<f, g>>) = 2
      OBVIOUS
    <2>4. \A k \in 1..2 : (<<f>> \o <<g>>)[k] = <<f, g>>[k]
      OBVIOUS
    <2> QED
      BY <2>1, <2>2, <2>3, <2>4, SeqEqual
  <1>3. <<f>> \o <<g, h>> = <<f, g, h>>
    <2> DEFINE S == {f, g, h}
    <2>1. /\ <<f>> \in Seq(S)
          /\ <<g, h>> \in Seq(S)
          /\ <<f, g, h>> \in Seq(S)
      OBVIOUS
    <2>2. <<f>> \o <<g, h>> \in Seq(S)
      BY <2>1
    <2>3. Len(<<f>> \o <<g, h>>) = 3 /\ Len(<<f, g, h>>) = 3
      OBVIOUS
    <2>4. \A k \in 1..3 : (<<f>> \o <<g, h>>)[k] = <<f, g, h>>[k]
      OBVIOUS
    <2> QED
      BY <2>1, <2>2, <2>3, <2>4, SeqEqual
  <1> QED
    BY <1>1, <1>2, <1>3

LEMMA Pop ==
  ASSUME NEW f, NEW g, NEW h
  PROVE  /\ Head(<<f>>) = f /\ Tail(<<f>>) = <<>>
         /\ Head(<<f, g>>) = f /\ Tail(<<f, g>>) = <<g>>
         /\ Head(<<f, g, h>>) = f /\ Tail(<<f, g, h>>) = <<g, h>>
  OBVIOUS

(* The three stacks of deferred functions: how they grow, shrink and differ.   *)
LEMMA Stacks ==
  /\ <<"RemoveAll">> \o <<>> = Staged
  /\ <<"outputFile.Close">> \o Staged = Opened
  /\ <<"w.Close">> \o Opened = Piped
  /\ Head(Staged) = "RemoveAll" /\ Tail(Staged) = <<>>
  /\ Head(Opened) = "outputFile.Close" /\ Tail(Opened) = Staged
  /\ Head(Piped) = "w.Close" /\ Tail(Piped) = Opened
  /\ Staged # <<>> /\ Opened # <<>> /\ Piped # <<>>
  <1>1. Staged # <<>> /\ Opened # <<>> /\ Piped # <<>>
    BY DEF Staged, Opened, Piped
  <1>2. /\ <<"RemoveAll">> \o <<>> = Staged
        /\ <<"outputFile.Close">> \o Staged = Opened
        /\ <<"w.Close">> \o Opened = Piped
    BY Push, Zenon DEF Staged, Opened, Piped
  <1>3. /\ Head(Staged) = "RemoveAll" /\ Tail(Staged) = <<>>
        /\ Head(Opened) = "outputFile.Close" /\ Tail(Opened) = Staged
        /\ Head(Piped) = "w.Close" /\ Tail(Piped) = Opened
    <2>1. Head(Staged) = "RemoveAll" /\ Tail(Staged) = <<>>
      BY Pop DEF Staged
    <2>2. Head(Opened) = "outputFile.Close" /\ Tail(Opened) = Staged
      BY Pop DEF Staged, Opened
    <2>3. Head(Piped) = "w.Close" /\ Tail(Piped) = Opened
      BY Pop DEF Opened, Piped
    <2> QED
      BY <2>1, <2>2, <2>3
  <1> QED
    BY <1>1, <1>2, <1>3

LEMMA NoManifests == <<>> \in Seq(Descriptors)
  OBVIOUS

LEMMA FileTypes ==
  /\ Earlier \in Files
  /\ Cut \in Files
  /\ \A s \in Seq(Descriptors), b \in Bodies : [body |-> b, manifests |-> s] \in Files
  /\ \A f \in Files, b \in Bodies : [f EXCEPT !.body = b] \in Files
  <1>1. \A s \in Seq(Descriptors), b \in Bodies : [body |-> b, manifests |-> s] \in Files
    BY DEF Files
  <1>2. Earlier \in Files /\ Cut \in Files
    BY <1>1, NoManifests DEF Earlier, Cut, Bodies
  <1>3. \A f \in Files, b \in Bodies : [f EXCEPT !.body = b] \in Files
    BY DEF Files
  <1> QED
    BY <1>1, <1>2, <1>3

(* Every deferred function leaves a file at the output path.                   *)
LEMMA ClosingTypes ==
  ASSUME out \in Files, CloseWriter \/ CloseOutput
  PROVE  out' \in Files
  BY FileTypes DEF CloseWriter, CloseOutput, LoseBuffered, Bodies

LEMMA AddManifest ==
  ASSUME NEW s \in Seq(Descriptors), NEW d \in Descriptors
  PROVE  Append(s, d) \in Seq(Descriptors)
  BY AppendProperties

(* Which deferred functions are pending, and which locals are set, at each     *)
(* program point.                                                              *)
Control ==
    /\ pc \in Ended \cup {"MkdirTemp"} => defers = <<>>
    /\ pc \in {"layout.Write", "range", "remote.Image", "AppendImage", "os.Create"}
           => defers = Staged
    /\ pc = "NewWriter" => defers = Opened
    /\ pc = "tarfs.Create" => defers = Piped
    /\ pc \in {"remote.Image", "AppendImage"} => current # <<>>
    /\ pc = "AppendImage" => fetched # <<>>
    /\ pc \in Working => ret = "none"
    /\ Running => call > 0

TInv == TypeOK /\ Control

USE DEF Ended, Working, Running

LEMMA TypeInit == Init => TInv
  BY ArchiveAssumption, NoManifests, FileTypes DEF Init, Platform, TInv, TypeOK, Control

LEMMA TypeStep == TInv /\ [Next]_vars => TInv'
  <1> SUFFICES ASSUME TInv, [Next]_vars PROVE TInv'
    OBVIOUS
  <1> USE ArchiveAssumption, Stacks, NoManifests, FileTypes DEF TInv, TypeOK, Control
  <1>1. CASE \E S \in SUBSET Images, p \in Platform : Invoke(S, p)
    BY <1>1 DEF Invoke, Platform
  <1>2. CASE MkdirTemp
    <2>1. CASE pc' = "layout.Write"
      <3>1. defers' = Staged
        BY <1>2, <2>1 DEF MkdirTemp, Defer, ReturnError
      <3>2. call \in 1..MaxCalls /\ dirs' \subseteq 1..call
        BY <1>2, <2>1 DEF MkdirTemp, ReturnError
      <3> QED
        BY <1>2, <2>1, <3>1, <3>2 DEF MkdirTemp, ReturnError
    <2>2. CASE pc' # "layout.Write"
      BY <1>2, <2>2 DEF MkdirTemp, ReturnError
    <2> QED
      BY <2>1, <2>2
  <1>3. CASE OpenLayout
    BY <1>3 DEF OpenLayout, ReturnError
  <1>4. CASE \E i \in Images : NextImage(i)
    BY <1>4 DEF NextImage, ReturnError
  <1>5. CASE EndRange
    BY <1>5 DEF EndRange
  <1>6. CASE FetchImage
    BY <1>6 DEF FetchImage, ReturnError, Manifests, Platform
  <1>7. CASE AppendImage
    <2>1. [ref |-> current[1], built |-> fetched[1], label |-> platform] \in Descriptors
      BY <1>7 DEF AppendImage, Descriptors, Platform
    <2>2. index' \in Seq(Descriptors)
      <3> HIDE DEF TInv, TypeOK, Control
      <3>1. index \in Seq(Descriptors)
        BY DEF TInv, TypeOK
      <3> DEFINE d == [ref |-> current[1], built |-> fetched[1], label |-> platform]
      <3>2. index' \in {index, Append(index, d)}
        BY <1>7 DEF AppendImage
      <3>3. d \in Descriptors
        BY <2>1
      <3> HIDE DEF d
      <3> QED
        BY <3>1, <3>2, <3>3, AddManifest
    <2> QED
      BY <1>7, <2>2 DEF AppendImage, ReturnError, Platform
  <1>8. CASE CreateOutput
    <2>1. out' \in Files
      BY <1>8 DEF CreateOutput
    <2>2. defers = Staged
      BY <1>8 DEF CreateOutput
    <2>3. \/ pc' = "NewWriter" /\ defers' = Opened
          \/ pc' = "defers" /\ defers' = Staged
      BY <1>8, <2>2 DEF CreateOutput, ReturnError, Defer
    <2> QED
      BY <1>8, <2>1, <2>3 DEF CreateOutput, ReturnError
  <1>9. CASE NewWriter
    BY <1>9 DEF NewWriter, ReturnError, Defer
  <1>10. CASE Pack
    BY <1>10 DEF Pack, ReturnError, Bodies
  <1>11. CASE RunDeferred
    <2>1. defers' \in {<<>>, Staged, Opened}
      BY <1>11 DEF RunDeferred
    <2>2. out' \in Files
      BY <1>11, ClosingTypes DEF RunDeferred, RemoveTemp
    <2>3. dirs' \subseteq 1..call /\ abandoned' \subseteq 1..call
      BY <1>11 DEF RunDeferred, CloseWriter, CloseOutput, RemoveTemp
    <2> QED
      BY <1>11, <2>1, <2>2, <2>3 DEF RunDeferred
  <1>12. CASE Return
    BY <1>12 DEF Return
  <1>13. CASE Kill
    BY <1>13 DEF Kill, LoseBuffered
  <1>14. CASE UNCHANGED vars
    BY <1>14 DEF vars
  <1> QED
    BY <1>1, <1>2, <1>3, <1>4, <1>5, <1>6, <1>7, <1>8, <1>9, <1>10, <1>11, <1>12,
       <1>13, <1>14 DEF Next, Step

(* The Go values of a run keep their types: Archive never indexes a nil        *)
(* reference, and pops exactly the deferred functions it pushed.               *)
THEOREM TypeCorrect == Spec => []TypeOK
  <1>1. Spec => []TInv
    BY TypeInit, TypeStep, PTL DEF Spec
  <1>2. TInv => TypeOK
    BY DEF TInv
  <1> QED
    BY <1>1, <1>2, PTL
--------------------------------------------------------------------------------
(* The assumption under which a nil return can be trusted: neither of the two  *)
(* deferred closes fails.                                                      *)
ClosesWork == /\ "outputFile.Close" \notin Faults
              /\ Compressed => "w.Close" \notin Faults

(* How far the staged layout has got: it lists the visited keys, each once.    *)
Staging ==
    /\ NoDuplicates(index)
    /\ pc \in {"MkdirTemp", "layout.Write"} => index = <<>> /\ todo = images
    /\ pc = "range" => RefsOf(index) = images \ todo
    /\ pc \in {"remote.Image", "AppendImage"} =>
           /\ current[1] \in images \ todo
           /\ RefsOf(index) = images \ (todo \cup {current[1]})
    /\ pc \in {"os.Create", "NewWriter", "tarfs.Create"} => RefsOf(index) = images
    /\ defers \in {Opened, Piped} => RefsOf(index) = images
    /\ pc \in {"defers", "returned"} /\ ret = "nil" => RefsOf(index) = images

(* What the output path holds while and after the deferred functions run.      *)
Output ==
    /\ out.body = "unflushed" => pc = "defers" /\ ret = "nil" /\ defers = Piped
    /\ pc \in {"defers", "returned"} /\ ret = "nil" =>
           /\ out.body \in {"whole", "unflushed"} => out.manifests = index
           /\ ClosesWork => out.body \in {"whole", "unflushed"}

(* Temporary directories: none is left when nothing is deferred.               *)
Cleanup ==
    /\ dirs \subseteq abandoned \cup {call}
    /\ defers = <<>> => dirs \subseteq abandoned

(* Manifests picked out of a multi-platform index are for the wanted platform. *)
Resolution ==
    /\ pc = "AppendImage" /\ current[1] \in Indexes => fetched[1] = WantedPlatform
    /\ \A k \in DOMAIN index : index[k].ref \in Indexes => index[k].built = WantedPlatform

Inv == TInv /\ Staging /\ Output /\ Cleanup /\ Resolution

(* What appending a manifest does to the references an index lists.            *)
LEMMA AppendRefs ==
  ASSUME NEW s \in Seq(Descriptors), NEW d \in Descriptors
  PROVE  /\ RefsOf(Append(s, d)) = RefsOf(s) \cup {d.ref}
         /\ NoDuplicates(s) /\ d.ref \notin RefsOf(s) => NoDuplicates(Append(s, d))
  <1> DEFINE t == Append(s, d)
  <1>1. /\ DOMAIN s = 1..Len(s)
        /\ DOMAIN t = 1..(Len(s) + 1)
        /\ Len(s) \in Nat
        /\ \A k \in 1..Len(s) : t[k] = s[k]
        /\ t[Len(s) + 1] = d
    BY AppendProperties
  <1> HIDE DEF t
  <1>2. RefsOf(t) = RefsOf(s) \cup {d.ref}
    <2>1. RefsOf(t) \subseteq RefsOf(s) \cup {d.ref}
      BY <1>1 DEF RefsOf
    <2>2. RefsOf(s) \subseteq RefsOf(t)
      BY <1>1 DEF RefsOf
    <2>3. d.ref \in RefsOf(t)
      BY <1>1 DEF RefsOf
    <2> QED
      BY <2>1, <2>2, <2>3
  <1>3. ASSUME NoDuplicates(s), d.ref \notin RefsOf(s)
        PROVE  NoDuplicates(t)
    <2> SUFFICES ASSUME NEW j \in DOMAIN t, NEW k \in DOMAIN t, t[j].ref = t[k].ref
                 PROVE  j = k
      BY DEF NoDuplicates
    <2>1. \A n \in 1..Len(s) : t[n].ref # d.ref
      BY <1>1, <1>3 DEF RefsOf
    <2>2. CASE j = Len(s) + 1 \/ k = Len(s) + 1
      BY <1>1, <2>1, <2>2
    <2>3. CASE j \in 1..Len(s) /\ k \in 1..Len(s)
      BY <1>1, <1>3, <2>3 DEF NoDuplicates
    <2> QED
      BY <1>1, <2>2, <2>3
  <1> QED
    BY <1>2, <1>3 DEF t

LEMMA EmptyIndex == RefsOf(<<>>) = {} /\ NoDuplicates(<<>>)
  BY DEF RefsOf, NoDuplicates

(* The two outcomes of AppendImage, in terms of the new descriptor.            *)
LEMMA AppendImageCases ==
  ASSUME TInv, AppendImage
  PROVE  \/ /\ pc' = "range" /\ UNCHANGED ret
            /\ \E d \in Descriptors :
                  /\ d.ref = current[1] /\ d.built = fetched[1]
                  /\ index' = Append(index, d)
         \/ pc' = "defers" /\ ret' = "error" /\ UNCHANGED index
  <1> DEFINE d == [ref |-> current[1], built |-> fetched[1], label |-> platform]
  <1>1. d \in Descriptors /\ d.ref = current[1] /\ d.built = fetched[1]
    BY DEF AppendImage, Descriptors, Platform, TInv, TypeOK, Control
  <1>2. \/ pc' = "range" /\ UNCHANGED ret /\ index' = Append(index, d)
        \/ pc' = "defers" /\ ret' = "error" /\ UNCHANGED index
    BY DEF AppendImage, ReturnError
  <1> HIDE DEF d
  <1> QED
    BY <1>1, <1>2

LEMMA StagingStep == TInv /\ Staging /\ [Next]_vars => Staging'
  <1> SUFFICES ASSUME TInv, Staging, [Next]_vars PROVE Staging'
    OBVIOUS
  <1> USE Stacks DEF Staging
  <1>1. CASE \E S \in SUBSET Images, p \in Platform : Invoke(S, p)
    BY <1>1, EmptyIndex DEF Invoke
  <1>2. CASE MkdirTemp
    BY <1>2 DEF MkdirTemp, Defer, ReturnError, TInv, Control
  <1>3. CASE OpenLayout
    BY <1>3, EmptyIndex DEF OpenLayout, ReturnError, TInv, Control
  <1>4. CASE \E i \in Images : NextImage(i)
    <2>1. PICK i \in Images : NextImage(i)
      BY <1>4
    <2>2. current'[1] = i
      BY <2>1 DEF NextImage
    <2>3. i \in images /\ images' = images
      BY <2>1 DEF NextImage, TInv, TypeOK
    <2> QED
      BY <2>1, <2>2, <2>3 DEF NextImage, ReturnError, TInv, Control
  <1>5. CASE EndRange
    BY <1>5 DEF EndRange, TInv, Control
  <1>6. CASE FetchImage
    BY <1>6 DEF FetchImage, ReturnError, TInv, Control
  <1>7. CASE AppendImage
    <2>1. UNCHANGED <<images, todo, defers>> /\ pc = "AppendImage" /\ defers = Staged
      BY <1>7 DEF AppendImage, TInv, Control
    <2>2. CASE pc' = "range"
      <3>1. PICK d \in Descriptors : d.ref = current[1] /\ index' = Append(index, d)
        BY <1>7, <2>2, AppendImageCases
      <3>2. /\ RefsOf(index') = RefsOf(index) \cup {current[1]}
            /\ NoDuplicates(index')
        BY <3>1, <2>1, AppendRefs DEF TInv, TypeOK
      <3> QED
        BY <2>1, <2>2, <3>2
    <2>3. CASE pc' # "range"
      BY <1>7, <2>1, <2>3, AppendImageCases
    <2> QED
      BY <2>2, <2>3
  <1>8. CASE CreateOutput
    BY <1>8 DEF CreateOutput, ReturnError, Defer, TInv, Control
  <1>9. CASE NewWriter
    BY <1>9 DEF NewWriter, ReturnError, Defer, TInv, Control
  <1>10. CASE Pack
    BY <1>10 DEF Pack, ReturnError, TInv, Control
  <1>11. CASE RunDeferred
    <2>1. \/ defers = Staged /\ defers' = <<>>
          \/ defers \in {Opened, Piped} /\ defers' \in {Staged, Opened}
      BY <1>11 DEF RunDeferred, TInv, TypeOK
    <2> QED
      BY <1>11, <2>1 DEF RunDeferred
  <1>12. CASE Return
    BY <1>12 DEF Return
  <1>13. CASE Kill
    BY <1>13 DEF Kill
  <1>14. CASE UNCHANGED vars
    BY <1>14 DEF vars
  <1> QED
    BY <1>1, <1>2, <1>3, <1>4, <1>5, <1>6, <1>7, <1>8, <1>9, <1>10, <1>11, <1>12,
       <1>13, <1>14 DEF Next, Step

(* Steps that leave the output path and the layout alone.                      *)
LEMMA QuietSteps ==
  ASSUME TInv,
         \/ MkdirTemp \/ OpenLayout \/ (\E i \in Images : NextImage(i)) \/ EndRange
         \/ FetchImage \/ AppendImage \/ NewWriter
  PROVE  /\ UNCHANGED out
         /\ ret = "none"
         /\ \/ ret' = "none" /\ pc' \in Working
            \/ ret' = "error" /\ pc' = "defers"
  BY DEF MkdirTemp, OpenLayout, NextImage, EndRange, FetchImage, AppendImage, NewWriter,
         ReturnError, TInv, Control

LEMMA OutputStep == TInv /\ Staging /\ Output /\ [Next]_vars => Output'
  <1> SUFFICES ASSUME TInv, Staging, Output, [Next]_vars PROVE Output'
    OBVIOUS
  <1> USE Stacks DEF Output
  <1>1. CASE \E S \in SUBSET Images, p \in Platform : Invoke(S, p)
    BY <1>1 DEF Invoke
  <1>2. CASE \/ MkdirTemp \/ OpenLayout \/ (\E i \in Images : NextImage(i)) \/ EndRange
             \/ FetchImage \/ AppendImage \/ NewWriter
    BY <1>2, QuietSteps
  <1>3. CASE CreateOutput
    BY <1>3 DEF CreateOutput, ReturnError, Cut, TInv, Control
  <1>4. CASE Pack
    BY <1>4 DEF Pack, ReturnError, TInv, Control
  <1>5. CASE RunDeferred
    <2>1. UNCHANGED <<pc, ret, index>> /\ pc = "defers"
      BY <1>5 DEF RunDeferred
    <2>2. CASE Head(defers) = "w.Close"
      <3>1. /\ CloseWriter
            /\ defers = Piped
        BY <1>5, <2>2 DEF RunDeferred, TInv, TypeOK
      <3>2. CASE out' = IF out.body = "unflushed" THEN [out EXCEPT !.body = "whole"] ELSE out
        BY <2>1, <3>2 DEF TInv, TypeOK, Files
      <3>3. CASE Fails("w.Close") /\ Compressed /\ out' = Cut
        BY <2>1, <3>3 DEF Fails, ClosesWork, Cut
      <3> QED
        BY <3>1, <3>2, <3>3 DEF CloseWriter
    <2>3. CASE Head(defers) = "outputFile.Close"
      <3>1. /\ CloseOutput
            /\ defers = Opened
        BY <1>5, <2>3 DEF RunDeferred, TInv, TypeOK
      <3>2. out.body # "unflushed"
        BY <3>1
      <3>3. CASE out' = LoseBuffered
        BY <2>1, <3>2, <3>3 DEF LoseBuffered
      <3>4. CASE Fails("outputFile.Close") /\ out' = Cut
        BY <2>1, <3>4 DEF Fails, ClosesWork, Cut
      <3> QED
        BY <3>1, <3>3, <3>4 DEF CloseOutput
    <2>4. CASE Head(defers) = "RemoveAll"
      <3>1. /\ UNCHANGED out
            /\ defers = Staged
        BY <1>5, <2>4 DEF RunDeferred, RemoveTemp, TInv, TypeOK
      <3> QED
        BY <2>1, <3>1
    <2> QED
      BY <1>5, <2>2, <2>3, <2>4 DEF RunDeferred
  <1>6. CASE Return
    BY <1>6 DEF Return
  <1>7. CASE Kill
    BY <1>7 DEF Kill, LoseBuffered, Cut
  <1>8. CASE UNCHANGED vars
    BY <1>8 DEF vars
  <1> QED
    BY <1>1, <1>2, <1>3, <1>4, <1>5, <1>6, <1>7, <1>8 DEF Next, Step

LEMMA CleanupStep == TInv /\ Cleanup /\ [Next]_vars => Cleanup'
  <1> SUFFICES ASSUME TInv, Cleanup, [Next]_vars PROVE Cleanup'
    OBVIOUS
  <1> USE Stacks DEF Cleanup
  <1>1. CASE \E S \in SUBSET Images, p \in Platform : Invoke(S, p)
    BY <1>1 DEF Invoke, TInv, Control
  <1>2. CASE MkdirTemp
    BY <1>2 DEF MkdirTemp, Defer, ReturnError, TInv, Control
  <1>3. CASE OpenLayout
    BY <1>3 DEF OpenLayout
  <1>4. CASE \E i \in Images : NextImage(i)
    BY <1>4 DEF NextImage
  <1>5. CASE EndRange
    BY <1>5 DEF EndRange
  <1>6. CASE FetchImage
    BY <1>6 DEF FetchImage
  <1>7. CASE AppendImage
    BY <1>7 DEF AppendImage
  <1>8. CASE CreateOutput
    BY <1>8 DEF CreateOutput, Defer, TInv, Control
  <1>9. CASE NewWriter
    BY <1>9 DEF NewWriter, Defer, TInv, Control
  <1>10. CASE Pack
    BY <1>10 DEF Pack
  <1>11. CASE RunDeferred
    BY <1>11 DEF RunDeferred, CloseWriter, CloseOutput, RemoveTemp, TInv, TypeOK
  <1>12. CASE Return
    BY <1>12 DEF Return
  <1>13. CASE Kill
    BY <1>13 DEF Kill
  <1>14. CASE UNCHANGED vars
    BY <1>14 DEF vars
  <1> QED
    BY <1>1, <1>2, <1>3, <1>4, <1>5, <1>6, <1>7, <1>8, <1>9, <1>10, <1>11, <1>12,
       <1>13, <1>14 DEF Next, Step

LEMMA ResolutionStep == TInv /\ Resolution /\ [Next]_vars => Resolution'
  <1> SUFFICES ASSUME TInv, Resolution, [Next]_vars PROVE Resolution'
    OBVIOUS
  <1> USE DEF Resolution, WantedPlatform
  <1>1. CASE \E S \in SUBSET Images, p \in Platform : Invoke(S, p)
    BY <1>1 DEF Invoke
  <1>2. CASE MkdirTemp
    BY <1>2 DEF MkdirTemp, ReturnError
  <1>3. CASE OpenLayout
    BY <1>3 DEF OpenLayout, ReturnError
  <1>4. CASE \E i \in Images : NextImage(i)
    BY <1>4 DEF NextImage, ReturnError
  <1>5. CASE EndRange
    BY <1>5 DEF EndRange
  <1>6. CASE FetchImage
    BY <1>6 DEF FetchImage, ReturnError, Manifests
  <1>7. CASE AppendImage
    <2>1. UNCHANGED platform /\ pc = "AppendImage"
      BY <1>7 DEF AppendImage
    <2>2. CASE pc' = "range"
      <3>1. PICK d \in Descriptors : /\ d.ref = current[1]
                                     /\ d.built = fetched[1]
                                     /\ index' = Append(index, d)
        BY <1>7, <2>2, AppendImageCases
      <3>2. d.ref \in Indexes => d.built = WantedPlatform
        BY <2>1, <3>1
      <3>3. /\ DOMAIN index' = 1..(Len(index) + 1)
            /\ DOMAIN index = 1..Len(index)
            /\ Len(index) \in Nat
            /\ \A k \in 1..Len(index) : index'[k] = index[k]
            /\ index'[Len(index) + 1] = d
        BY <3>1, AppendProperties DEF TInv, TypeOK
      <3>4. \A k \in DOMAIN index' : k \in DOMAIN index \/ k = Len(index) + 1
        BY <3>3
      <3> QED
        BY <2>1, <2>2, <3>2, <3>3, <3>4
    <2>3. CASE pc' # "range"
      BY <1>7, <2>1, <2>3, AppendImageCases
    <2> QED
      BY <2>2, <2>3
  <1>8. CASE CreateOutput
    BY <1>8 DEF CreateOutput, ReturnError
  <1>9. CASE NewWriter
    BY <1>9 DEF NewWriter, ReturnError
  <1>10. CASE Pack
    BY <1>10 DEF Pack, ReturnError
  <1>11. CASE RunDeferred
    BY <1>11 DEF RunDeferred
  <1>12. CASE Return
    BY <1>12 DEF Return
  <1>13. CASE Kill
    BY <1>13 DEF Kill
  <1>14. CASE UNCHANGED vars
    BY <1>14 DEF vars
  <1> QED
    BY <1>1, <1>2, <1>3, <1>4, <1>5, <1>6, <1>7, <1>8, <1>9, <1>10, <1>11, <1>12,
       <1>13, <1>14 DEF Next, Step

(* The invariant holds in every state of every behaviour.                      *)
THEOREM Invariance == Spec => []Inv
  <1>1. Init => Inv
    <2> SUFFICES ASSUME Init PROVE Inv
      OBVIOUS
    <2>1. TInv
      BY TypeInit
    <2>2. Staging
      BY EmptyIndex, Stacks DEF Init, Staging
    <2>3. Output /\ Cleanup /\ Resolution
      BY DEF Init, Output, Cleanup, Resolution, Earlier
    <2> QED
      BY <2>1, <2>2, <2>3 DEF Inv
  <1>2. Inv /\ [Next]_vars => Inv'
    BY TypeStep, StagingStep, OutputStep, CleanupStep, ResolutionStep DEF Inv
  <1> QED
    BY <1>1, <1>2, PTL DEF Spec

(* A nil return from Create means the file is a complete archive of exactly    *)
(* the requested references, each listed once, provided the two closes whose   *)
(* errors the code drops succeed; nothing else the environment does, failing   *)
(* calls and kills in this run or earlier ones included, can spoil it.         *)
THEOREM SuccessIsSound == ClosesWork => (Spec => []SuccessMeansArchive)
  <1> SUFFICES ASSUME ClosesWork PROVE Spec => []SuccessMeansArchive
    OBVIOUS
  <1>1. Inv => SuccessMeansArchive
    BY DEF Inv, TInv, TypeOK, Control, Staging, Output, SuccessMeansArchive, IsArchiveOf, Files,
           Bodies
  <1> QED
    BY <1>1, Invariance, PTL

(* References to multi-platform indexes are archived for the wanted platform.  *)
THEOREM IndexesAreResolved == Spec => []IndexesResolved
  <1>1. Inv => IndexesResolved
    BY DEF Inv, Output, Resolution, IndexesResolved
  <1> QED
    BY <1>1, Invariance, PTL

(* The deferred closes run in an order that loses nothing.                     *)
THEOREM FlushedBeforeClosed == Spec => []FlushBeforeClose
  <1>1. Inv => FlushBeforeClose
    BY Stacks DEF Inv, Output, FlushBeforeClose
  <1> QED
    BY <1>1, Invariance, PTL

(* No run leaks its temporary directory unless it is killed or cannot remove   *)
(* it.                                                                         *)
THEOREM TempDirsRemoved == Spec => []NoTempDirLeft
  <1>1. Inv => NoTempDirLeft
    BY DEF Inv, TInv, TypeOK, Control, Cleanup, NoTempDirLeft
  <1> QED
    BY <1>1, Invariance, PTL

(* A failing fetch, or anything else before the last image is staged, leaves   *)
(* the file that was at the output path untouched.                             *)
LEMMA OutputStepAfterFetch == Inv /\ [Next]_vars => (out' # out => RefsOf(index) = images)
  <1> SUFFICES ASSUME Inv, Next, out' # out PROVE RefsOf(index) = images
    BY DEF vars
  <1> USE DEF Inv, Staging
  <1>1. CASE \E S \in SUBSET Images, p \in Platform : Invoke(S, p)
    BY <1>1 DEF Invoke
  <1>2. CASE \/ MkdirTemp \/ OpenLayout \/ (\E i \in Images : NextImage(i)) \/ EndRange
             \/ FetchImage \/ AppendImage \/ NewWriter
    BY <1>2, QuietSteps
  <1>3. CASE CreateOutput \/ Pack
    BY <1>3 DEF CreateOutput, Pack
  <1>4. CASE RunDeferred
    BY <1>4, Stacks DEF RunDeferred, RemoveTemp, TInv, TypeOK
  <1>5. CASE Return
    BY <1>5 DEF Return
  <1>6. CASE Kill
    BY <1>6 DEF Kill, LoseBuffered, Output
  <1> QED
    BY <1>1, <1>2, <1>3, <1>4, <1>5, <1>6 DEF Next, Step

THEOREM EarlierArchiveKept == Spec => OutputTouchedOnlyAfterFetch
  BY Invariance, OutputStepAfterFetch, PTL DEF Spec, OutputTouchedOnlyAfterFetch
--------------------------------------------------------------------------------
(* Refinement.  First what the mapped variables are at each program point.     *)
LEMMA PhaseOf ==
  /\ Running => Phase = "running"
  /\ pc \in Ended => Phase # "running"
  /\ pc = "returned" => Phase = IF ret = "nil" THEN "ok" ELSE "failed"
  /\ pc = "killed" => Phase = "killed"
  BY DEF Phase

LEMMA FileOf ==
  /\ out.body = "whole" => File = Contract!ArchiveOf(RefsOf(out.manifests))
  /\ out.body \in {"cut", "unflushed"} => File = Contract!Damaged
  BY DEF File, Contract!ArchiveOf, Contract!Damaged

LEMMA ContractInit == Init => Contract!CInit
  BY EmptyIndex DEF Init, Contract!CInit, Phase, File, Earlier, Contract!Earlier

(* A step that keeps the run going and touches neither layout nor file.        *)
LEMMA StutterStep ==
  ASSUME Running, Running', UNCHANGED <<images, index, out>>
  PROVE  UNCHANGED Contract!cvars
  <1>1. Phase = "running" /\ Phase' = "running"
    BY DEF Phase
  <1>2. UNCHANGED File /\ UNCHANGED RefsOf(index)
    BY DEF File, RefsOf
  <1> QED
    BY <1>1, <1>2 DEF Contract!cvars

LEMMA ContractStep ==
  ASSUME ClosesWork, Inv, Inv', [Next]_vars
  PROVE  [Contract!CNext]_(Contract!cvars)
  <1> DEFINE Quiet == UNCHANGED <<images, index, out>>
  <1> USE DEF Contract!CNext, Contract!cvars
  <1>1. CASE \E S \in SUBSET Images, p \in Platform : Invoke(S, p)
    <2>1. PICK S \in SUBSET Images, p \in Platform : Invoke(S, p)
      BY <1>1
    <2>2. Phase # "running" /\ Phase' = "running"
      BY <2>1 DEF Invoke, Phase
    <2>3. images' = S /\ RefsOf(index)' = {} /\ File' = File
      BY <2>1, EmptyIndex DEF Invoke, File
    <2>4. Contract!Begin(S)
      BY <2>2, <2>3 DEF Contract!Begin
    <2> QED
      BY <2>4
  <1>2. CASE MkdirTemp \/ (\E i \in Images : NextImage(i)) \/ EndRange \/ FetchImage \/ NewWriter
    <2>1. Running /\ Running' /\ Quiet
      BY <1>2 DEF MkdirTemp, NextImage, EndRange, FetchImage, NewWriter, ReturnError
    <2> QED
      BY <2>1, StutterStep
  <1>3. CASE OpenLayout
    <2>1. Running /\ Running' /\ Quiet
      BY <1>3 DEF OpenLayout, ReturnError, Inv, Staging
    <2> QED
      BY <2>1, StutterStep
  <1>4. CASE AppendImage
    <2>1. Running /\ Running' /\ pc = "AppendImage" /\ UNCHANGED <<images, out>>
      BY <1>4 DEF AppendImage, ReturnError
    <2>2. CASE pc' = "range"
      <3>1. PICK d \in Descriptors : d.ref = current[1] /\ index' = Append(index, d)
        BY <1>4, <2>2, AppendImageCases DEF Inv
      <3>2. RefsOf(index') = RefsOf(index) \cup {current[1]}
        BY <3>1, AppendRefs DEF Inv, TInv, TypeOK
      <3>3. current[1] \in images \ RefsOf(index) /\ current[1] \in Images
        BY <2>1 DEF Inv, Staging, TInv, TypeOK
      <3>4. Phase = "running" /\ Phase' = "running" /\ File' = File
        BY <2>1 DEF Phase, File
      <3>5. Contract!Obtain(current[1])
        BY <2>1, <3>2, <3>3, <3>4 DEF Contract!Obtain
      <3> QED
        BY <3>3, <3>5
    <2>3. CASE pc' # "range"
      <3>1. UNCHANGED index
        BY <1>4, <2>3, AppendImageCases DEF Inv
      <3> QED
        BY <2>1, <3>1, StutterStep
    <2> QED
      BY <2>2, <2>3
  <1>5. CASE CreateOutput
    <2>1. Running /\ Running' /\ UNCHANGED <<images, index>> /\ RefsOf(index) = images
      BY <1>5 DEF CreateOutput, ReturnError, Inv, Staging
    <2>2. CASE out' = Cut
      <3>1. Phase = "running" /\ Phase' = "running" /\ File' = Contract!Damaged
        BY <2>1, <2>2 DEF Phase, File, Cut, Contract!Damaged
      <3> QED
        BY <2>1, <3>1 DEF Contract!Damage
    <2>3. CASE out' = out
      BY <2>1, <2>3, StutterStep
    <2> QED
      BY <1>5, <2>2, <2>3 DEF CreateOutput
  <1>6. CASE Pack
    <2>1. Running /\ Running' /\ UNCHANGED <<images, index>> /\ RefsOf(index) = images
      BY <1>6 DEF Pack, ReturnError, Inv, Staging
    <2>2. Phase = "running" /\ Phase' = "running"
      BY <2>1 DEF Phase
    <2>3. CASE out'.body = "unflushed"
      <3>1. File' = Contract!Damaged
        BY <2>3 DEF File, Contract!Damaged
      <3> QED
        BY <2>1, <2>2, <3>1 DEF Contract!Damage
    <2>4. CASE out'.body = "whole" /\ out'.manifests = index
      <3>1. File' = Contract!ArchiveOf(images)
        BY <2>1, <2>4 DEF File, Contract!ArchiveOf
      <3> QED
        BY <2>1, <2>2, <3>1 DEF Contract!Publish
    <2>5. CASE out' = out
      BY <2>1, <2>5, StutterStep
    <2> QED
      BY <1>6, <2>3, <2>4, <2>5 DEF Pack
  <1>7. CASE RunDeferred
    <2>1. Running /\ Running' /\ UNCHANGED <<images, index, ret, pc>> /\ pc = "defers"
      BY <1>7 DEF RunDeferred
    <2>2. Phase = "running" /\ Phase' = "running"
      BY <2>1 DEF Phase
    <2>3. CASE out' = out
      BY <2>1, <2>3, StutterStep
    <2>4. CASE out' # out
      <3>1. RefsOf(index) = images
        BY <1>7, <2>4, OutputStepAfterFetch DEF Next, Step
      <3>2. out' = Cut \/ (out.body = "unflushed" /\ out' = [out EXCEPT !.body = "whole"])
        BY <1>7, <2>4 DEF RunDeferred, CloseWriter, CloseOutput, RemoveTemp, LoseBuffered
      <3>3. CASE out' = Cut
        <4>1. File' = Contract!Damaged
          BY <3>3 DEF File, Cut, Contract!Damaged
        <4> QED
          BY <2>1, <2>2, <3>1, <4>1 DEF Contract!Damage
      <3>4. CASE out.body = "unflushed" /\ out' = [out EXCEPT !.body = "whole"]
        <4>1. out.manifests = index
          BY <3>4 DEF Inv, Output
        <4>2. out'.body = "whole" /\ out'.manifests = index
          BY <3>4, <4>1 DEF Inv, TInv, TypeOK, Files
        <4>3. File' = Contract!ArchiveOf(images)
          BY <3>1, <4>2 DEF File, Contract!ArchiveOf
        <4> QED
          BY <2>1, <2>2, <3>1, <4>3 DEF Contract!Publish
      <3> QED
        BY <3>2, <3>3, <3>4
    <2> QED
      BY <2>3, <2>4
  <1>8. CASE Return
    <2>1. Phase = "running" /\ UNCHANGED <<images, index, out>> /\ pc' = "returned" /\ ret' = ret
      BY <1>8 DEF Return, Phase
    <2>2. RefsOf(index)' = RefsOf(index) /\ File' = File
      BY <2>1 DEF File
    <2>3. CASE ret = "nil"
      <3>1. out.body = "whole" /\ RefsOf(out.manifests) = images
        BY <1>8, <2>3, Stacks DEF Return, Inv, Output, Staging
      <3>2. File = Contract!ArchiveOf(images)
        BY <3>1 DEF File, Contract!ArchiveOf
      <3>3. Phase' = "ok"
        BY <2>1, <2>3 DEF Phase
      <3> QED
        BY <2>1, <2>2, <3>2, <3>3 DEF Contract!Succeed
    <2>4. CASE ret # "nil"
      <3>1. Phase' = "failed"
        BY <2>1, <2>4 DEF Phase
      <3> QED
        BY <2>1, <2>2, <3>1 DEF Contract!GiveUp
    <2> QED
      BY <2>3, <2>4
  <1>9. CASE Kill
    <2>1. Phase = "running" /\ Phase' = "killed" /\ UNCHANGED <<images, index>>
      BY <1>9 DEF Kill, Phase
    <2>2. File' = File
      BY <1>9 DEF Kill, LoseBuffered, Cut, File
    <2> QED
      BY <2>1, <2>2 DEF Contract!GiveUp
  <1>10. CASE UNCHANGED vars
    BY <1>10 DEF vars, Phase, File
  <1> QED
    BY <1>1, <1>2, <1>3, <1>4, <1>5, <1>6, <1>7, <1>8, <1>9, <1>10 DEF Next, Step

(* Create implements the contract its callers rely on, unless one of the two   *)
(* closes whose errors it drops fails.                                         *)
THEOREM Refinement == ClosesWork => (Spec => ImplementsContract)
  <1> SUFFICES ASSUME ClosesWork PROVE Spec => ImplementsContract
    OBVIOUS
  <1>1. Inv /\ Inv' /\ [Next]_vars => [Contract!CNext]_(Contract!cvars)
    BY ContractStep
  <1> QED
    BY <1>1, ContractInit, Invariance, PTL DEF Spec, ImplementsContract, Contract!CSpec
================================================================================
