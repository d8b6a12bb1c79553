------------------------- MODULE VideoObjectsProofs -------------------------
(***************************************************************************)
(* Theorems about VideoObjects, for any number of streams and any          *)
(* encoders: whatever call of an init fails, taking the objects down       *)
(* releases everything, and nothing twice.                                 *)
(***************************************************************************)
EXTENDS VideoObjects, TLAPS

(* The places at which the thread still sets up, or has set up, and those  *)
(* of them which it reaches only with a resource in hand.                  *)
SettingUp     == InLabels \cup OutLabels \cup GraphLabels \cup {"on"}
AfterParse    == {"fgConfig", "on"}
AfterSink     == {"fgParse"} \cup AfterParse
AfterSource   == {"fgSink"} \cup AfterSink
AfterGraph    == {"fgSource"} \cup AfterSource
AfterHeader   == {"fgAlloc"} \cup AfterGraph
AfterOpen     == {"outHeader"} \cup AfterHeader
AfterEncoder  == {"outOpen"} \cup AfterOpen
AfterOutCodec == {"outCodecOpen"} \cup AfterEncoder
AfterFormat   == {"outStream", "outCodec"} \cup AfterOutCodec
AfterInput    == {"outConfig", "outFormat"} \cup AfterFormat
AfterInCodec  == {"inCodecOpen", "inDone"} \cup AfterInput
AfterInFormat == {"inStream", "inCodec"} \cup AfterInCodec

(* What has been set up when the thread is at such a place.                *)
SetUpInv ==
  /\ pc \in AfterInFormat => ptr["inFormat"]
  /\ pc \in AfterInCodec => ptr["inCodec"]
  /\ pc \in AfterInput => ~ptr["options"]
  /\ pc \in AfterFormat => ptr["outFormat"]
  /\ pc \in AfterOutCodec => ptr["outCodec"]
  /\ pc \in AfterEncoder => used \in FormatsOf(codec)
  /\ pc \in AfterOpen => pb # "null" /\ \A r \in OutputOf(output) : ptr[r]
  /\ pc \in AfterHeader => header
  /\ pc \in AfterGraph => ptr["graph"]
  /\ pc \in AfterSource => ptr["source"]
  /\ pc \in AfterSink => ptr["sink"]
  /\ pc \in AfterParse => ptr["links"]

(* A pointer leads to live memory (those to the filters until the parser   *)
(* has freed them), and to nothing live there is no pointer.               *)
LiveInv ==
  /\ \A r \in Resources : mem[r] = "live" => ptr[r]
  /\ pc \in SettingUp => \A r \in Filters : ptr[r] => mem[r] = "live"
  /\ \A r \in Filters : ptr[r] => ptr["graph"]

(* An output has the resources of its kind only; pb leads to the one that  *)
(* its kind of closeFile releases, and belongs to the format.              *)
FileInv ==
  /\ \A r \in OutputOf("memory") \cup OutputOf("file") : ptr[r] => r \in OutputOf(output)
  /\ pb # "null" => ptr["outFormat"] /\ ptr[pb]
  /\ ptr["file"] => pb = "file"

(* The places that follow a release, and what is released there.  When     *)
(* close() is called again nothing is left to it.                          *)
OutPlaces == {"outCloseCodec", "outCloseFile", "outCloseFormat"}
InPlaces  == {"inCloseCodec", "inCloseFile"}

CloseInv ==
  /\ pc \notin OutPlaces \cup InPlaces => pass = 1
  /\ pc \in OutPlaces \cup InPlaces \cup {"off"} => \A r \in Graph : ~ptr[r]
  /\ pc \in {"outCloseFile", "outCloseFormat"} => ~ptr["outCodec"]
  /\ pc = "outCloseFormat" => \A r \in OutputOf(output) \ {"outFormat"} : ~ptr[r]
  /\ pc \in InPlaces \cup {"off"} \/ (pc \in OutPlaces /\ pass > 1)
       => \A r \in OutputOf(output) : ~ptr[r]
  /\ pc \in {"inCloseFile", "off"} => ~ptr["inCodec"]
  /\ pc = "off" \/ (pc \in InPlaces /\ pass > 1) => \A r \in In : ~ptr[r]

Inv == SetUpInv /\ LiveInv /\ FileInv /\ CloseInv /\ CloseIsSafe
USE StreamsAssumption, CodecsAssumption
USE DEF Go, config

-----------------------------------------------------------------------------
(* Types *)

(* The initial state has the declared types.                               *)
LEMMA InitType == Init => TypeOK
<1> SUFFICES ASSUME Init PROVE TypeOK
  OBVIOUS
<1> USE DEF Init
<1>1. stream \in 0..MaxStreams /\ pass \in 1..3 /\ codec \in Codecs
  OBVIOUS
<1>2. ptr \in [Resources -> BOOLEAN] /\ mem \in [Resources -> {"none", "live", "freed"}]
      /\ \A r \in Resources \ Filters : ptr[r] => mem[r] = "live"
  OBVIOUS
<1> QED
  BY <1>1, <1>2 DEF TypeOK, Labels, Resources

USE DEF Labels, InLabels, OutLabels, GraphLabels, CloseLabels

(* The resources, by name.                                                 *)
LEMMA Known ==
  /\ "inFormat" \in Resources /\ "inCodec" \in Resources /\ "options" \in Resources
  /\ "outFormat" \in Resources /\ "outCodec" \in Resources /\ "file" \in Resources
  /\ "avioBuffer" \in Resources /\ "avioCtx" \in Resources
  /\ "graph" \in Resources /\ "links" \in Resources
  /\ "source" \in Resources /\ "sink" \in Resources
  /\ Graph \subseteq Resources /\ Filters \subseteq Resources
  /\ \A kind : OutputOf(kind) \subseteq Resources
  BY DEF Resources, OutputOf, In, Graph, Filters

(* A step that allocates preserves them, whatever it allocates.            *)
LEMMA AcquireType ==
  ASSUME TypeOK, NEW from, NEW to \in Labels, NEW rs \in SUBSET Resources, Acquire(from, to, rs)
  PROVE  TypeOK'
<1> USE DEF TypeOK, Acquire, Hold
<1>1. ptr' \in [Resources -> BOOLEAN] /\ mem' \in [Resources -> {"none", "live", "freed"}]
  OBVIOUS
<1>2. \A r \in Resources \ Filters : ptr'[r] => mem'[r] = "live"
  OBVIOUS
<1> QED
  BY <1>1, <1>2

(* So does one that releases.                                              *)
LEMMA ReleaseType ==
  ASSUME TypeOK, NEW rs \in SUBSET Resources, Release(rs)
  PROVE  /\ ptr' \in [Resources -> BOOLEAN] /\ mem' \in [Resources -> {"none", "live", "freed"}]
         /\ \A r \in Resources \ Filters : ptr'[r] => mem'[r] = "live"
         /\ fault' \subseteq {"doubleFree", "freedBuffer", "noHeader", "badFlush"}
  BY DEF TypeOK, Release, Freed

(* Types are preserved while the objects are set up.                       *)
LEMMA OpeningType ==
  ASSUME TypeOK, Opening PROVE TypeOK'
<1>1. CASE InConfig
  BY <1>1, AcquireType, Known DEF InConfig, Fails, Advance
<1>2. CASE InOptions
  BY <1>2, AcquireType, Known DEF InOptions, Fails, Advance
<1>3. CASE InOpen
  BY <1>3, AcquireType, Known DEF InOpen, Fails, Advance
<1>4. CASE InStream
  BY <1>4, AcquireType, Known DEF InStream, Fails, Advance
<1>5. CASE InCodec
  BY <1>5, AcquireType, Known DEF InCodec, Fails, Advance
<1>6. CASE InCodecOpen
  BY <1>6, AcquireType, Known DEF InCodecOpen, Fails, Advance
<1>7. CASE InDone
  BY <1>7, ReleaseType, Known DEF InDone, TypeOK
<1>8. CASE OutConfig
  BY <1>8, AcquireType, Known DEF OutConfig, Fails, Advance
<1>9. CASE OutFormat
  BY <1>9, AcquireType, Known DEF OutFormat, Fails, Advance
<1>10. CASE OutStream
  BY <1>10, AcquireType, Known DEF OutStream, Fails, Advance
<1>11. CASE OutCodec
  BY <1>11, AcquireType, Known DEF OutCodec, Fails, Advance
<1>12. CASE OutCodecOpen
  <2>1. CASE Fails("outCodecOpen")
    BY <2>1, AcquireType, Known DEF Fails, Advance
  <2>2. CASE ~Fails("outCodecOpen")
    <3>1. used' = codec[1] /\ used' \in PixFmts
      BY <1>12, <2>2 DEF OutCodecOpen, SetupCodec, PixFmts, FormatsOf, TypeOK
    <3> QED
      BY <1>12, <2>2, <3>1 DEF OutCodecOpen, TypeOK
  <2> QED
    BY <2>1, <2>2
<1>13. CASE OutOpen
  BY <1>13 DEF OutOpen, OpenFile, Hold, TypeOK
<1>14. CASE OutOpenFails
  BY <1>14, AcquireType, Known DEF OutOpenFails, Fails, Advance
<1>15. CASE OutHeader
  <2>1. CASE Fails("outHeader")
    BY <2>1, AcquireType, Known DEF Fails, Advance
  <2>2. CASE ~Fails("outHeader")
    BY <1>15, <2>2 DEF OutHeader, TypeOK
  <2> QED
    BY <2>1, <2>2
<1>16. CASE GraphAlloc
  BY <1>16, AcquireType, Known DEF GraphAlloc, Fails, Advance
<1>17. CASE GraphSource
  BY <1>17, AcquireType, Known DEF GraphSource, Fails, Advance
<1>18. CASE GraphSink
  BY <1>18, AcquireType, Known DEF GraphSink, Fails, Advance
<1>19. CASE GraphParse
  <2>1. CASE Acquire("fgParse", "fgConfig", {"links"})
    BY <2>1, AcquireType, Known
  <2>2. CASE ~Acquire("fgParse", "fgConfig", {"links"})
    <3>1. /\ pc' = "delTranscoder" /\ UNCHANGED <<stream, input, output, codec, pixfmt>>
          /\ UNCHANGED <<pass, used, pb, header, fault>>
      BY <1>19, <2>2 DEF GraphParse
    <3>2. ptr' \in [Resources -> BOOLEAN] /\ mem' \in [Resources -> {"none", "live", "freed"}]
      BY <1>19, <2>2, Known DEF GraphParse, TypeOK
    <3>3. \A r \in Resources \ Filters : ptr'[r] => mem'[r] = "live"
      BY <1>19, <2>2, Known DEF GraphParse, TypeOK
    <3> QED
      BY <3>1, <3>2, <3>3 DEF TypeOK
  <2> QED
    BY <2>1, <2>2
<1>20. CASE GraphConfig
  BY <1>20, AcquireType, Known DEF GraphConfig, Fails, Advance
<1> QED
  BY <1>1, <1>2, <1>3, <1>4, <1>5, <1>6, <1>7, <1>8, <1>9, <1>10, <1>11, <1>12, <1>13, <1>14, <1>15, <1>16, <1>17, <1>18, <1>19, <1>20 DEF Opening

(* Types are preserved while they are taken down.                          *)
LEMMA ClosingType ==
  ASSUME TypeOK, Closing PROVE TypeOK'
<1>1. CASE StopVideo
  BY <1>1, AcquireType, Known DEF StopVideo, Advance
<1>2. CASE DeleteTranscoder
  BY <1>2, ReleaseType, Known DEF DeleteTranscoder, TypeOK
<1>3. CASE FlushHalfInit
  BY <1>3 DEF FlushHalfInit, TypeOK
<1>4. CASE OutCloseCodec
  BY <1>4, ReleaseType, Known DEF OutCloseCodec, TypeOK
<1>5. CASE OutCloseFile
  BY <1>5, ReleaseType, Known DEF OutCloseFile, CloseFile, TypeOK
<1>6. CASE OutCloseFormat
  <2>1. /\ pc' \in Labels /\ pass' \in 1..3 /\ pb' \in {"null", "avioCtx", "file"}
        /\ UNCHANGED <<stream, input, output, codec, pixfmt, used>> /\ header' \in BOOLEAN
    BY <1>6 DEF OutCloseFormat, Calls, TypeOK
  <2>2. ptr' \in [Resources -> BOOLEAN] /\ mem' \in [Resources -> {"none", "live", "freed"}]
    BY <1>6, Known DEF OutCloseFormat, TypeOK
  <2>3. \A r \in Resources \ Filters : ptr'[r] => mem'[r] = "live"
    BY <1>6, Known DEF OutCloseFormat, TypeOK
  <2>4. fault' \subseteq {"doubleFree", "freedBuffer", "noHeader", "badFlush"}
    BY <1>6 DEF OutCloseFormat, TrailerFaults, TypeOK
  <2> QED
    BY <2>1, <2>2, <2>3, <2>4 DEF TypeOK
<1>7. CASE InCloseCodec
  BY <1>7, ReleaseType, Known DEF InCloseCodec, TypeOK
<1>8. CASE InCloseFile
  BY <1>8, ReleaseType, Known DEF InCloseFile, TypeOK
<1> QED
  BY <1>1, <1>2, <1>3, <1>4, <1>5, <1>6, <1>7, <1>8 DEF Closing

(* The types hold in every behaviour.                                      *)
THEOREM TypeCorrect == Spec => []TypeOK
<1>1. TypeOK /\ [Next]_vars => TypeOK'
  <2> SUFFICES ASSUME TypeOK, [Next]_vars PROVE TypeOK'
    OBVIOUS
  <2>1. CASE NewStream
    <3>1. stream' \in 0..MaxStreams /\ pass' \in 1..3 /\ codec' \in Codecs /\ pc' \in Labels
      BY <2>1 DEF NewStream, TypeOK
    <3>2. /\ input' \in {"device", "file"} /\ output' \in {"memory", "file"}
          /\ {pixfmt', used'} \subseteq PixFmts \cup {None}
      BY <2>1 DEF NewStream
    <3>3. ptr' \in [Resources -> BOOLEAN] /\ mem' \in [Resources -> {"none", "live", "freed"}]
          /\ \A r \in Resources \ Filters : ptr'[r] => mem'[r] = "live"
      BY <2>1 DEF NewStream
    <3> QED
      BY <2>1, <3>1, <3>2, <3>3 DEF NewStream, TypeOK
  <2>2. CASE Rest \/ UNCHANGED vars
    <3>1. /\ UNCHANGED <<stream, input, output, codec, pixfmt>>
          /\ UNCHANGED <<used, pc, pass, ptr, mem, pb, header, fault>>
      BY <2>2 DEF Rest, vars
    <3> QED
      BY <3>1 DEF TypeOK
  <2> QED
    BY <2>1, <2>2, OpeningType, ClosingType DEF Next
<1> QED
  BY <1>1, InitType, PTL DEF Spec

-----------------------------------------------------------------------------
(* What is allocated and what is released *)

(* The initial state satisfies the invariant.                              *)
LEMMA InitInv == Init => Inv
  BY Known DEF Init, Inv, SetUpInv, LiveInv, FileInv, CloseInv, CloseIsSafe, Graph, OutputOf, In,
     AfterParse, AfterSink, AfterSource, AfterGraph, AfterHeader, AfterOpen, AfterEncoder,
     AfterOutCodec, AfterFormat, AfterInput, AfterInCodec, AfterInFormat, SettingUp, Filters,
     OutPlaces, InPlaces

USE DEF AfterParse, AfterSink, AfterSource, AfterGraph, AfterHeader, AfterOpen, AfterEncoder,
        AfterOutCodec, AfterFormat, AfterInput, AfterInCodec, AfterInFormat, SettingUp,
        OutPlaces, InPlaces

(* A step that allocates nothing leaves everything where it is.            *)
LEMMA Advanced ==
  ASSUME TypeOK, NEW from, NEW to, Advance(from, to)
  PROVE  /\ pc = from /\ pc' = to /\ ptr' = ptr /\ mem' = mem
         /\ UNCHANGED <<stream, input, output, codec, pixfmt>>
         /\ UNCHANGED <<pass, used, pb, header, fault>>
  BY DEF TypeOK, Advance, Acquire, Hold

(* A step that allocates leaves the rest where it is.                      *)
LEMMA Acquired ==
  ASSUME TypeOK, NEW from, NEW to, NEW rs, Acquire(from, to, rs)
  PROVE  /\ pc = from /\ pc' = to
         /\ \A r \in Resources : /\ ptr'[r] <=> (r \in rs \/ ptr[r])
                                /\ mem'[r] = IF r \in rs THEN "live" ELSE mem[r]
         /\ UNCHANGED <<stream, input, output, codec, pixfmt>>
         /\ UNCHANGED <<pass, used, pb, header, fault>>
  BY DEF TypeOK, Acquire, Hold

(* A step that releases.                                                   *)
LEMMA Released ==
  ASSUME TypeOK, NEW rs, Release(rs)
  PROVE  \A r \in Resources : /\ ptr'[r] <=> (ptr[r] /\ r \notin rs)
                             /\ mem'[r] = IF r \in rs /\ ptr[r] THEN "freed" ELSE mem[r]
  BY DEF TypeOK, Release, Freed

(* A call that fails leaves the invariant true.                            *)
LEMMA FailsInv ==
  ASSUME TypeOK, Inv, NEW from \in SettingUp, Fails(from) PROVE Inv'
<1>1. /\ pc \in SettingUp /\ pc' = "delTranscoder" /\ ptr' = ptr /\ mem' = mem
      /\ UNCHANGED <<pass, output, pb, fault>>
  BY Advanced DEF Fails
<1> QED
  BY <1>1 DEF Inv, SetUpInv, LiveInv, FileInv, CloseInv, CloseIsSafe

(* The invariant is preserved while the objects are set up.                *)
LEMMA OpeningSetUp ==
  ASSUME TypeOK, Inv, Opening PROVE SetUpInv'
<1>0. SetUpInv
  BY DEF Inv
<1> USE DEF SetUpInv
<1>1. CASE InConfig
  BY <1>0, <1>1, Known, Acquired, Released, Advanced DEF InConfig, Fails
<1>2. CASE InOptions
  BY <1>0, <1>2, Known, Acquired, Released, Advanced DEF InOptions, Fails
<1>3. CASE InOpen
  BY <1>0, <1>3, Known, Acquired, Released, Advanced DEF InOpen, Fails
<1>4. CASE InStream
  BY <1>0, <1>4, Known, Acquired, Released, Advanced DEF InStream, Fails
<1>5. CASE InCodec
  BY <1>0, <1>5, Known, Acquired, Released, Advanced DEF InCodec, Fails
<1>6. CASE InCodecOpen
  BY <1>0, <1>6, Known, Acquired, Released, Advanced DEF InCodecOpen, Fails
<1>7. CASE InDone
  BY <1>0, <1>7, Known, Acquired, Released, Advanced DEF InDone, Fails
<1>8. CASE OutConfig
  BY <1>0, <1>8, Known, Acquired, Released, Advanced DEF OutConfig, Fails
<1>9. CASE OutFormat
  BY <1>0, <1>9, Known, Acquired, Released, Advanced DEF OutFormat, Fails
<1>10. CASE OutStream
  BY <1>0, <1>10, Known, Acquired, Released, Advanced DEF OutStream, Fails
<1>11. CASE OutCodec
  BY <1>0, <1>11, Known, Acquired, Released, Advanced DEF OutCodec, Fails
<1>12. CASE OutCodecOpen
  <2>1. CASE Fails("outCodecOpen")
    BY <2>1, FailsInv DEF Inv
  <2>2. CASE ~Fails("outCodecOpen")
    <3>1. pc = "outCodecOpen" /\ pc' = "outOpen" /\ UNCHANGED <<codec, ptr>>
      BY <1>12, <2>2 DEF OutCodecOpen
    <3>2. used' \in FormatsOf(codec)
      BY <1>12, <2>2 DEF OutCodecOpen, SetupCodec, FormatsOf, TypeOK
    <3> QED
      BY <1>0, <3>1, <3>2
  <2> QED
    BY <2>1, <2>2
<1>13. CASE OutOpen
  <2>1. /\ pc = "outOpen" /\ pc' = "outHeader" /\ pb' # "null"
        /\ UNCHANGED <<codec, output, used>>
    BY <1>13 DEF OutOpen, OpenFile
  <2>2. \A r \in Resources : ptr'[r] <=> (r \in OutputOf(output) \ {"outFormat", "outCodec"} \/ ptr[r])
    BY <1>13 DEF OutOpen, OpenFile, Hold
  <2>3. ~ptr'["options"]
    BY <1>0, <2>1, <2>2, Known DEF OutputOf
  <2> QED
    BY <1>0, <2>1, <2>2, <2>3, Known
<1>14. CASE OutOpenFails
  BY <1>0, <1>14, Known, Acquired, Released, Advanced DEF OutOpenFails, Fails
<1>15. CASE OutHeader
  BY <1>0, <1>15, Known, Acquired, Released, Advanced DEF OutHeader, Fails
<1>16. CASE GraphAlloc
  BY <1>0, <1>16, Known, Acquired, Released, Advanced DEF GraphAlloc, Fails
<1>17. CASE GraphSource
  BY <1>0, <1>17, Known, Acquired, Released, Advanced DEF GraphSource, Fails
<1>18. CASE GraphSink
  BY <1>0, <1>18, Known, Acquired, Released, Advanced DEF GraphSink, Fails
<1>19. CASE GraphParse
  BY <1>0, <1>19, Known, Acquired, Released, Advanced DEF GraphParse, Fails
<1>20. CASE GraphConfig
  BY <1>0, <1>20, Known, Acquired, Released, Advanced DEF GraphConfig, Fails
<1> QED
  BY <1>1, <1>2, <1>3, <1>4, <1>5, <1>6, <1>7, <1>8, <1>9, <1>10, <1>11, <1>12, <1>13, <1>14, <1>15, <1>16, <1>17, <1>18, <1>19, <1>20 DEF Opening

(* What an init allocates fits the rest of the invariant, if it is a       *)
(* filter of a graph that is there, or nothing of the file.                *)
LEMMA AcquireRest ==
  ASSUME TypeOK, Inv, NEW from \in SettingUp, NEW to \in SettingUp, NEW rs \in SUBSET Resources,
         Acquire(from, to, rs),
         rs \cap Filters = {} \/ ptr["graph"],
         rs \cap {"avioBuffer", "avioCtx", "file"} = {}
  PROVE  LiveInv' /\ FileInv' /\ CloseInv' /\ CloseIsSafe'
<1>1. LiveInv'
  BY Acquired, Known DEF Inv, LiveInv, Filters
<1>2. FileInv'
  BY Acquired, Known DEF Inv, FileInv, OutputOf, TypeOK
<1>3. CloseInv' /\ CloseIsSafe'
  BY Acquired DEF Inv, CloseInv, CloseIsSafe
<1> QED
  BY <1>1, <1>2, <1>3

(* The rest of the invariant is preserved while the objects are set up.    *)
LEMMA OpeningRest ==
  ASSUME TypeOK, Inv, Opening PROVE LiveInv' /\ FileInv' /\ CloseInv' /\ CloseIsSafe'
<1> USE FailsInv, AcquireRest, Known DEF Advance
<1>1. CASE InConfig
  BY <1>1 DEF InConfig, Filters, Inv
<1>2. CASE InOptions
  BY <1>2 DEF InOptions, Filters, Inv
<1>3. CASE InOpen
  BY <1>3 DEF InOpen, Filters, Inv
<1>4. CASE InStream
  BY <1>4 DEF InStream, Filters, Inv
<1>5. CASE InCodec
  BY <1>5 DEF InCodec, Filters, Inv
<1>6. CASE InCodecOpen
  BY <1>6 DEF InCodecOpen, Filters, Inv
<1>7. CASE InDone
  <2>1. /\ pc = "inDone" /\ pc' = "outConfig" /\ UNCHANGED <<output, pass, pb>>
    BY <1>7 DEF InDone
  <2>2. fault' = fault
    BY <1>7, Known DEF InDone, Release, Freed, TypeOK, Filters
  <2>3. \A r \in Resources \ {"options"} : (ptr'[r] <=> ptr[r]) /\ mem'[r] = mem[r]
    BY <1>7, Released DEF InDone
  <2>4. ~ptr'["options"] /\ mem'["options"] # "live"
    BY <1>7, Released DEF InDone, Inv, LiveInv
  <2>5. LiveInv'
    BY <2>1, <2>3, <2>4 DEF Inv, LiveInv, Filters
  <2>6. FileInv'
    BY <2>1, <2>3, <2>4 DEF Inv, FileInv, OutputOf, TypeOK
  <2> QED
    BY <2>1, <2>2, <2>5, <2>6 DEF Inv, CloseInv, CloseIsSafe
<1>8. CASE OutConfig
  BY <1>8 DEF OutConfig, Filters, Inv
<1>9. CASE OutFormat
  BY <1>9 DEF OutFormat, Filters, Inv
<1>10. CASE OutStream
  BY <1>10 DEF OutStream, Filters, Inv
<1>11. CASE OutCodec
  BY <1>11 DEF OutCodec, Filters, Inv
<1>12. CASE OutCodecOpen
  <2>1. CASE ~Fails("outCodecOpen")
    <3>1. /\ pc = "outCodecOpen" /\ pc' = "outOpen"
          /\ UNCHANGED <<output, pass, ptr, mem, pb, fault>>
      BY <1>12, <2>1 DEF OutCodecOpen
    <3> QED
      BY <3>1 DEF Inv, LiveInv, FileInv, CloseInv, CloseIsSafe
  <2> QED
    BY <2>1 DEF Inv
<1>13. CASE OutOpen
  <2> DEFINE new == OutputOf(output) \ {"outFormat", "outCodec"}
  <2>1. /\ pc = "outOpen" /\ pc' = "outHeader" /\ UNCHANGED <<output, pass, fault>>
        /\ pb' = IF output = "memory" THEN "avioCtx" ELSE "file"
    BY <1>13 DEF OutOpen, OpenFile
  <2>2. \A r \in Resources : /\ ptr'[r] <=> (r \in new \/ ptr[r])
                             /\ mem'[r] = IF r \in new THEN "live" ELSE mem[r]
    BY <1>13 DEF OutOpen, OpenFile, Hold
  <2>3. LiveInv'
    BY <2>1, <2>2 DEF Inv, LiveInv, Filters, OutputOf
  <2>4. FileInv'
    BY <2>1, <2>2 DEF Inv, SetUpInv, FileInv, OutputOf, TypeOK
  <2> QED
    BY <2>1, <2>3, <2>4 DEF Inv, CloseInv, CloseIsSafe
<1>14. CASE OutOpenFails
  <2> DEFINE new == IF output = "memory" THEN {"avioBuffer"} ELSE {}
  <2>1. /\ pc = "outOpen" /\ pc' = "delTranscoder" /\ UNCHANGED <<output, pass, pb, fault>>
        /\ \A r \in Resources : /\ ptr'[r] <=> (r \in new \/ ptr[r])
                               /\ mem'[r] = IF r \in new THEN "live" ELSE mem[r]
    BY <1>14, Acquired DEF OutOpenFails
  <2>2. LiveInv'
    BY <2>1 DEF Inv, LiveInv, Filters
  <2>3. FileInv'
    BY <2>1 DEF Inv, FileInv, OutputOf, TypeOK
  <2> QED
    BY <2>1, <2>2, <2>3 DEF Inv, CloseInv, CloseIsSafe
<1>15. CASE OutHeader
  <2>1. CASE ~Fails("outHeader")
    <3>1. /\ pc = "outHeader" /\ pc' = "fgAlloc"
          /\ UNCHANGED <<output, pass, ptr, mem, pb, fault>>
      BY <1>15, <2>1 DEF OutHeader
    <3> QED
      BY <3>1 DEF Inv, LiveInv, FileInv, CloseInv, CloseIsSafe
  <2> QED
    BY <2>1 DEF Inv
<1>16. CASE GraphAlloc
  BY <1>16 DEF GraphAlloc, Filters, Inv
<1>17. CASE GraphSource
  <2>1. CASE Acquire("fgSource", "fgSink", {"source"})
    <3>1. ptr["graph"]
      BY <2>1, Acquired DEF Inv, SetUpInv
    <3> QED
      BY <2>1, <3>1
  <2> QED
    BY <1>17, <2>1 DEF GraphSource, Inv
<1>18. CASE GraphSink
  <2>1. CASE Acquire("fgSink", "fgParse", {"sink"})
    <3>1. ptr["graph"]
      BY <2>1, Acquired DEF Inv, SetUpInv
    <3> QED
      BY <2>1, <3>1
  <2> QED
    BY <1>18, <2>1 DEF GraphSink, Inv
<1>19. CASE GraphParse
  <2>1. CASE ~Acquire("fgParse", "fgConfig", {"links"})
    <3>1. /\ pc = "fgParse" /\ pc' = "delTranscoder" /\ UNCHANGED <<output, pass, pb, fault>>
      BY <1>19, <2>1 DEF GraphParse
    <3>2. \A r \in Resources :
            /\ ptr'[r] <=> (r = "links" \/ ptr[r])
            /\ mem'[r] = IF r \in Filters THEN "freed" ELSE IF r = "links" THEN "live" ELSE mem[r]
      BY <1>19, <2>1 DEF GraphParse, TypeOK
    <3>3. LiveInv'
      BY <3>1, <3>2 DEF Inv, LiveInv, Filters
    <3>4. FileInv'
      BY <3>1, <3>2 DEF Inv, FileInv, OutputOf, TypeOK
    <3> QED
      BY <3>1, <3>3, <3>4 DEF Inv, CloseInv, CloseIsSafe
  <2> QED
    BY <1>19, <2>1 DEF GraphParse, Filters, Inv
<1>20. CASE GraphConfig
  BY <1>20 DEF GraphConfig, Filters, Inv
<1> QED
  BY <1>1, <1>2, <1>3, <1>4, <1>5, <1>6, <1>7, <1>8, <1>9, <1>10, <1>11, <1>12, <1>13, <1>14, <1>15, <1>16, <1>17, <1>18, <1>19, <1>20 DEF Opening

(* The invariant is preserved while the objects are taken down.            *)
LEMMA ClosingInv ==
  ASSUME TypeOK, Inv, Closing PROVE Inv'
<1> USE Known DEF Inv
<1>1. CASE StopVideo
  BY <1>1, Advanced DEF StopVideo, SetUpInv, LiveInv, FileInv, CloseInv, CloseIsSafe
<1>2. CASE DeleteTranscoder
  <2>1. /\ pc = "delTranscoder" /\ pc' = "outCloseCodec" /\ UNCHANGED <<output, pass, pb>>
        /\ Release(Graph)
    BY <1>2 DEF DeleteTranscoder
  <2>2. \A r \in Resources : /\ ptr'[r] <=> (ptr[r] /\ r \notin Graph)
                             /\ mem'[r] = IF r \in Graph /\ ptr[r] THEN "freed" ELSE mem[r]
    BY <2>1, Released
  <2>3. CloseIsSafe'
    <3>1. \A r \in Graph : ptr[r] => mem[r] = "live"
      BY <1>2 DEF DeleteTranscoder, Flushable, LiveInv, Graph, Filters, TypeOK
    <3> QED
      BY <2>1, <3>1 DEF Release, Freed, CloseIsSafe
  <2>4. SetUpInv' /\ LiveInv'
    BY <2>1, <2>2 DEF SetUpInv, LiveInv, Filters, Graph
  <2>5. FileInv'
    BY <2>1, <2>2 DEF FileInv, OutputOf, Graph, Filters, TypeOK
  <2>6. CloseInv'
    BY <2>1, <2>2 DEF CloseInv, OutputOf, Graph, Filters, In, TypeOK
  <2> QED
    BY <2>3, <2>4, <2>5, <2>6
<1>3. CASE FlushHalfInit
  BY <1>3 DEF FlushHalfInit, SetUpInv, LiveInv, FileInv, CloseInv, CloseIsSafe
<1>4. CASE OutCloseCodec
  <2>1. /\ pc = "outCloseCodec" /\ pc' = "outCloseFile" /\ UNCHANGED <<output, pass, pb>>
        /\ Release({"outCodec"})
    BY <1>4 DEF OutCloseCodec
  <2>2. \A r \in Resources : /\ ptr'[r] <=> (ptr[r] /\ r \notin {"outCodec"})
                             /\ mem'[r] = IF r \in {"outCodec"} /\ ptr[r] THEN "freed" ELSE mem[r]
    BY <2>1, Released
  <2>3. CloseIsSafe'
    BY <2>1 DEF Release, Freed, CloseIsSafe, Filters, TypeOK
  <2>4. SetUpInv' /\ LiveInv'
    BY <2>1, <2>2 DEF SetUpInv, LiveInv, Filters, Graph
  <2>5. FileInv'
    BY <2>1, <2>2 DEF FileInv, OutputOf, Graph, Filters, TypeOK
  <2>6. CloseInv'
    BY <2>1, <2>2 DEF CloseInv, OutputOf, Graph, Filters, In, TypeOK
  <2> QED
    BY <2>3, <2>4, <2>5, <2>6
<1>5. CASE OutCloseFile
  <2> DEFINE rs == IF output = "memory" /\ pass < Calls THEN {"avioBuffer", "avioCtx"}
                   ELSE IF ptr["outFormat"] THEN {pb} \cap Resources ELSE {}
  <2>1. /\ pc = "outCloseFile" /\ pc' = "outCloseFormat" /\ UNCHANGED <<output, pass>>
        /\ pb' = IF ptr["outFormat"] THEN "null" ELSE pb
        /\ Release(rs)
    BY <1>5 DEF OutCloseFile, CloseFile
  <2>2. \A r \in Resources : /\ ptr'[r] <=> (ptr[r] /\ r \notin rs)
                             /\ mem'[r] = IF r \in rs /\ ptr[r] THEN "freed" ELSE mem[r]
    BY <2>1, Released
  <2>3. rs \subseteq {"avioBuffer", "avioCtx", "file"}
    BY DEF Resources, OutputOf, In, Graph, Filters, TypeOK
  <2>4. pb' = "null"
    BY <2>1 DEF FileInv
  <2>5. CloseIsSafe'
    BY <2>1, <2>3 DEF Release, Freed, CloseIsSafe, Filters, TypeOK
  <2>6. \A r \in OutputOf(output) \ {"outFormat"} : ~ptr'[r]
    BY <2>1, <2>2 DEF Calls, FileInv, CloseInv, OutputOf, TypeOK
  <2> HIDE DEF rs
  <2>7. SetUpInv' /\ LiveInv'
    BY <2>1, <2>2, <2>3 DEF SetUpInv, LiveInv, Filters
  <2>8. FileInv'
    BY <2>1, <2>2, <2>4, <2>6 DEF FileInv, OutputOf, TypeOK
  <2>9. CloseInv'
    BY <2>1, <2>2, <2>6 DEF CloseInv, OutputOf, Graph, Filters, In, TypeOK
  <2> QED
    BY <2>5, <2>7, <2>8, <2>9
<1>6. CASE OutCloseFormat
  <2>1. /\ pc = "outCloseFormat" /\ UNCHANGED output
        /\ pc' = IF pass < Calls THEN "outCloseCodec" ELSE "inCloseCodec"
        /\ pass' = IF pass < Calls THEN pass + 1 ELSE 1
        /\ pb' = IF ptr["outFormat"] THEN "null" ELSE pb
    BY <1>6 DEF OutCloseFormat
  <2>2. \A r \in Resources :
          /\ ptr'[r] <=> (ptr[r] /\ r # "outFormat")
          /\ mem'[r] = IF r = "outFormat" /\ ptr["outFormat"] THEN "freed" ELSE mem[r]
    BY <1>6 DEF OutCloseFormat, TypeOK
  <2>3. pb = "null"
    BY <2>1 DEF FileInv, CloseInv, OutputOf, TypeOK
  <2>4. CloseIsSafe'
    BY <1>6, <2>3 DEF OutCloseFormat, TrailerFaults, CloseIsSafe
  <2>5. \A r \in OutputOf(output) : ~ptr'[r]
    BY <2>1, <2>2 DEF CloseInv, OutputOf
  <2>6. SetUpInv' /\ LiveInv'
    BY <2>1, <2>2 DEF SetUpInv, LiveInv, Filters
  <2>7. FileInv'
    BY <2>1, <2>2, <2>3, <2>5 DEF FileInv, OutputOf, TypeOK
  <2>8. CloseInv'
    BY <2>1, <2>2, <2>5 DEF CloseInv, OutputOf, Graph, Filters, In, TypeOK
  <2> QED
    BY <2>4, <2>6, <2>7, <2>8
<1>7. CASE InCloseCodec
  <2>1. /\ pc = "inCloseCodec" /\ pc' = "inCloseFile" /\ UNCHANGED <<output, pass, pb>>
        /\ Release({"inCodec"})
    BY <1>7 DEF InCloseCodec
  <2>2. \A r \in Resources : /\ ptr'[r] <=> (ptr[r] /\ r \notin {"inCodec"})
                             /\ mem'[r] = IF r \in {"inCodec"} /\ ptr[r] THEN "freed" ELSE mem[r]
    BY <2>1, Released
  <2>3. CloseIsSafe'
    BY <2>1 DEF Release, Freed, CloseIsSafe, Filters, TypeOK
  <2>4. SetUpInv' /\ LiveInv'
    BY <2>1, <2>2 DEF SetUpInv, LiveInv, Filters, Graph
  <2>5. FileInv'
    BY <2>1, <2>2 DEF FileInv, OutputOf, Graph, Filters, TypeOK
  <2>6. CloseInv'
    BY <2>1, <2>2 DEF CloseInv, OutputOf, Graph, Filters, In, TypeOK
  <2> QED
    BY <2>3, <2>4, <2>5, <2>6
<1>8. CASE InCloseFile
  <2>1. /\ pc = "inCloseFile" /\ UNCHANGED <<output, pb>> /\ Release({"inFormat"})
        /\ pc' = IF pass < 2 THEN "inCloseCodec" ELSE "off"
        /\ pass' = IF pass < 2 THEN pass + 1 ELSE 1
    BY <1>8 DEF InCloseFile
  <2>2. \A r \in Resources : /\ ptr'[r] <=> (ptr[r] /\ r # "inFormat")
                             /\ mem'[r] = IF r = "inFormat" /\ ptr[r] THEN "freed" ELSE mem[r]
    BY <2>1, Released
  <2>3. CloseIsSafe'
    BY <2>1 DEF Release, Freed, CloseIsSafe, Filters, TypeOK
  <2>4. SetUpInv' /\ LiveInv'
    BY <2>1, <2>2 DEF SetUpInv, LiveInv, Filters, Graph
  <2>5. FileInv'
    BY <2>1, <2>2 DEF FileInv, OutputOf, TypeOK
  <2>6. CloseInv'
    BY <2>1, <2>2 DEF CloseInv, OutputOf, Graph, Filters, In, TypeOK
  <2> QED
    BY <2>3, <2>4, <2>5, <2>6
<1> QED
  BY <1>1, <1>2, <1>3, <1>4, <1>5, <1>6, <1>7, <1>8 DEF Closing

(* Inv holds in every behaviour.                                           *)
THEOREM Inductive == Spec => [](TypeOK /\ Inv)
<1>1. TypeOK /\ Inv /\ [Next]_vars => Inv'
  <2> SUFFICES ASSUME TypeOK, Inv, [Next]_vars PROVE Inv'
    OBVIOUS
  <2> USE DEF SetUpInv, LiveInv, FileInv, CloseInv, CloseIsSafe
  <2>1. CASE NewStream
    <3>1. /\ pc' \in {"inConfig", "inOpen"} /\ pass' = 1 /\ pb' = "null" /\ UNCHANGED fault
          /\ \A r \in Resources : ~ptr'[r] /\ mem'[r] = "none"
      BY <2>1 DEF NewStream
    <3>2. SetUpInv' /\ LiveInv' /\ FileInv'
      BY <3>1, Known DEF Filters
    <3> QED
      BY <3>1, <3>2 DEF Inv
  <2>2. CASE Opening
    BY <2>2, OpeningSetUp, OpeningRest DEF Inv
  <2>3. CASE Closing
    BY <2>3, ClosingInv
  <2>4. CASE Rest \/ UNCHANGED vars
    BY <2>4 DEF Rest, vars, Inv
  <2> QED
    BY <2>1, <2>2, <2>3, <2>4 DEF Next
<1> QED
  BY <1>1, TypeCorrect, InitInv, PTL DEF Spec

-----------------------------------------------------------------------------
(* Theorems *)

(* When the objects are gone nothing that they allocated is left, whatever *)
(* call of the init failed.                                                *)
THEOREM NothingLeaked == Spec => []AllReleased
<1>1. TypeOK /\ Inv => AllReleased
  BY Known DEF Inv, LiveInv, FileInv, CloseInv, AllReleased, Resources
<1> QED
  BY <1>1, Inductive, PTL

(* However often close() is called, it releases nothing twice, and the     *)
(* trailer does not go through what was released before it.                *)
THEOREM NothingTwice == Spec => []CloseIsSafe
<1>1. Inv => CloseIsSafe
  BY DEF Inv
<1> QED
  BY <1>1, Inductive, PTL

(* A stream that runs has everything it needs, and a format of its encoder.*)
THEOREM Complete == Spec => []RunningIsComplete
<1>1. TypeOK /\ Inv => RunningIsComplete
  BY Known DEF TypeOK, Inv, SetUpInv, LiveInv, RunningIsComplete, In, Graph, Filters
<1> QED
  BY <1>1, Inductive, PTL
=============================================================================
