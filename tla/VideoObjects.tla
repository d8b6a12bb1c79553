---------------------------- MODULE VideoObjects ----------------------------
(***************************************************************************)
(* What the input (V4L2DeviceInput, VideoFileInput), the output            *)
(* (VideoMemoryOutput, VideoFileOutput) and the filter graph of a stream   *)
(* allocate in libav while Application::initVideo sets them up, and        *)
(* release again when Application::stopVideo takes them down, after a      *)
(* stream or after an init that failed at any of its calls.  One thread    *)
(* does all of it.                                                         *)
(*                                                                         *)
(* A resource is a piece of libav's memory; ptr is the member variable     *)
(* that points to it.  libav is outside src/: each call may fail.          *)
(* A definition D_Xyz is D with the bug Xyz put in, for the mutation runs. *)
(***************************************************************************)
EXTENDS Naturals, Sequences

CONSTANTS MaxStreams,  \* bound on the streams, one after the other
          Codecs,      \* the encoders: each one's pix_fmts
          None         \* no pixel format (AV_PIX_FMT_NONE)

ASSUME StreamsAssumption == MaxStreams \in Nat
ASSUME CodecsAssumption == \A c \in Codecs : 1 \in DOMAIN c /\ None \notin {c[i] : i \in DOMAIN c}

In      == {"inFormat", "inCodec"}
Filters == {"source", "sink"}
Graph   == {"graph", "links"} \cup Filters
OutputOf(kind) == {"outFormat", "outCodec"}
                  \cup (IF kind = "memory" THEN {"avioBuffer", "avioCtx"} ELSE {"file"})
Resources == In \cup OutputOf("memory") \cup OutputOf("file") \cup Graph \cup {"options"}
FormatsOf(codec) == {codec[i] : i \in DOMAIN codec}
PixFmts == UNION {FormatsOf(c) : c \in Codecs}

VARIABLES
  stream,   \* streams tried so far
  input,    \* the input is a "device" or a "file"
  output,   \* the output goes to "memory" (the Application's) or to a "file"
  codec,    \* the encoder's pix_fmts
  pixfmt,   \* the pixel format in the configuration, or None
  used,     \* the encoder's pix_fmt, or None
  pc,       \* where the thread is
  pass,     \* the calls of close() for the object being taken down
  ptr,      \* per resource: the variable is not NULL
  mem,      \* per resource: "none", "live" or "freed"
  pb,       \* what the output format's pb is: "null", "avioCtx" or "file"
  header,   \* avformat_write_header succeeded on this output format
  fault     \* what went wrong while releasing

config == <<stream, input, output, codec, pixfmt>>
vars == <<config, used, pc, pass, ptr, mem, pb, header, fault>>

InLabels  == {"inConfig", "inOptions", "inOpen", "inStream", "inCodec", "inCodecOpen", "inDone"}
OutLabels == {"outConfig", "outFormat", "outStream", "outCodec", "outCodecOpen", "outOpen",
              "outHeader"}
GraphLabels == {"fgAlloc", "fgSource", "fgSink", "fgParse", "fgConfig"}
CloseLabels == {"delTranscoder", "outCloseCodec", "outCloseFile", "outCloseFormat",
                "inCloseCodec", "inCloseFile"}
Labels == {"off", "on", "crashed"} \cup InLabels \cup OutLabels \cup GraphLabels \cup CloseLabels

TypeOK ==
  /\ stream \in 0..MaxStreams /\ pass \in 1..3
  /\ input \in {"device", "file"} /\ output \in {"memory", "file"}
  /\ codec \in Codecs /\ {pixfmt, used} \subseteq PixFmts \cup {None}
  /\ pc \in Labels
  /\ ptr \in [Resources -> BOOLEAN]
  /\ mem \in [Resources -> {"none", "live", "freed"}]
  /\ \A r \in Resources \ Filters : ptr[r] => mem[r] = "live"
  /\ pb \in {"null", "avioCtx", "file"} /\ header \in BOOLEAN
  /\ fault \subseteq {"doubleFree", "freedBuffer", "noHeader", "badFlush"}

Init ==
  /\ stream = 0 /\ input = "device" /\ output = "memory" /\ codec \in Codecs
  /\ pixfmt = None /\ used = None
  /\ pc = "off" /\ pass = 1
  /\ ptr = [r \in Resources |-> FALSE] /\ mem = [r \in Resources |-> "none"]
  /\ pb = "null" /\ header = FALSE /\ fault = {}

(* A step that allocates resources, one that releases them, and a throw:   *)
(* Application::onStart then calls stopVideo.                              *)
Go(from, to) == pc = from /\ pc' = to /\ UNCHANGED <<config, pass>>

Hold(rs) ==
  /\ ptr' = [r \in Resources |-> r \in rs \/ ptr[r]]
  /\ mem' = [r \in Resources |-> IF r \in rs THEN "live" ELSE mem[r]]
Acquire(from, to, rs) == Go(from, to) /\ Hold(rs) /\ UNCHANGED <<used, pb, header, fault>>
Advance(from, to) == Acquire(from, to, {})
Fails(from) == Advance(from, "delTranscoder")

(* if(p != NULL) free(&p): libav resets the variable, too. *)
Freed(rs) ==
  /\ mem' = [r \in Resources |-> IF r \in rs /\ ptr[r] THEN "freed" ELSE mem[r]]
  /\ fault' = fault \cup {f \in {"doubleFree"} : \E r \in rs : ptr[r] /\ mem[r] = "freed"}
Release_KeepsPointer(rs) == Freed(rs) /\ ptr' = ptr
Release(rs) == Freed(rs) /\ ptr' = [r \in Resources |-> ptr[r] /\ r \notin rs]

-----------------------------------------------------------------------------
(* Application::initVideo and Transcoder::init: new objects, the input *)

NewStream ==
  /\ pc = "off" /\ stream < MaxStreams
  /\ stream' = stream + 1 /\ pass' = 1
  /\ input' \in {"device", "file"} /\ output' \in {"memory", "file"}
  /\ codec' \in Codecs /\ pixfmt' \in PixFmts \cup {None} /\ used' = None
  /\ pc' = IF input' = "device" THEN "inConfig" ELSE "inOpen"
  /\ ptr' = [r \in Resources |-> FALSE] /\ mem' = [r \in Resources |-> "none"]
  /\ pb' = "null" /\ header' = FALSE
  /\ UNCHANGED fault

InConfig  == Advance("inConfig", "inOptions") \/ Fails("inConfig")
InOptions == Acquire("inOptions", "inOpen", {"options"})

(* avformat_open_input: on a failure there is no format context. *)
InOpen == Acquire("inOpen", "inStream", {"inFormat"}) \/ Fails("inOpen")

(* avformat_find_stream_info and av_find_best_stream. *)
InStream == Advance("inStream", "inCodec") \/ Fails("inStream")
InCodec  == Acquire("inCodec", "inCodecOpen", {"inCodec"}) \/ Fails("inCodec")

(* Parameters, frame rate, avcodec_open2. *)
InCodecOpen == Advance("inCodecOpen", "inDone") \/ Fails("inCodecOpen")

InDone ==
  /\ Go("inDone", "outConfig") /\ Release({"options"})
  /\ UNCHANGED <<used, pb, header>>

-----------------------------------------------------------------------------
(* VideoFileOutput::init *)

(* Codec::supportsPixFmt: the number of formats is taken to be the size of *)
(* a pointer divided by the size of an enum, which is two.                 *)
SupportsPixFmt(c, f) == \E i \in 1..2 : i \in DOMAIN c /\ c[i] = f

OutConfig ==
  \/ (pixfmt = None \/ SupportsPixFmt(codec, pixfmt)) /\ Advance("outConfig", "outFormat")
  \/ Fails("outConfig")

OutFormat == Acquire("outFormat", "outStream", {"outFormat"}) \/ Fails("outFormat")
OutStream == Advance("outStream", "outCodec") \/ Fails("outStream")
OutCodec  == Acquire("outCodec", "outCodecOpen", {"outCodec"}) \/ Fails("outCodec")

(* setupCodec writes the outer pixFmt, which the one found in the          *)
(* configuration shadows: NONE in any case.                                *)
SetupCodec == None

(* The encoder takes its first format when it was given none. *)
OutCodecOpen ==
  \/ /\ Go("outCodecOpen", "outOpen")
     /\ used' = IF SetupCodec = None THEN codec[1] ELSE SetupCodec
     /\ UNCHANGED <<ptr, mem, pb, header, fault>>
  \/ Fails("outCodecOpen")

(* In memory: the buffer, then the context around it, then pb.             *)
OpenFile(pbIs) ==
  /\ Go("outOpen", "outHeader")
  /\ Hold(OutputOf(output) \ {"outFormat", "outCodec"})
  /\ pb' = pbIs
  /\ UNCHANGED <<used, header, fault>>
OutOpen_NoPb == OpenFile("null")
OutOpen == OpenFile(IF output = "memory" THEN "avioCtx" ELSE "file")

OutOpenFails ==
  Acquire("outOpen", "delTranscoder", IF output = "memory" THEN {"avioBuffer"} ELSE {})

OutHeader ==
  \/ /\ Go("outHeader", "fgAlloc") /\ header' = TRUE
     /\ UNCHANGED <<used, ptr, mem, pb, fault>>
  \/ Fails("outHeader")

-----------------------------------------------------------------------------
(* FilterGraph::init *)

GraphAlloc  == Acquire("fgAlloc", "fgSource", {"graph"})
GraphSource == Acquire("fgSource", "fgSink", {"source"}) \/ Fails("fgSource")
GraphSink   == Acquire("fgSink", "fgParse", {"sink"}) \/ Fails("fgSink")

(* When avfilter_graph_parse_ptr fails it frees the filters of the graph,  *)
(* while srcCtx and sinkCtx still point to them.                           *)
GraphParse ==
  \/ Acquire("fgParse", "fgConfig", {"links"})
  \/ /\ Go("fgParse", "delTranscoder")
     /\ ptr' = [ptr EXCEPT !["links"] = TRUE]
     /\ mem' = [r \in Resources |-> IF r \in Filters THEN "freed"
                                    ELSE IF r = "links" THEN "live" ELSE mem[r]]
     /\ UNCHANGED <<used, pb, header, fault>>
GraphConfig == Advance("fgConfig", "on") \/ Fails("fgConfig")

-----------------------------------------------------------------------------
(* Application::stopVideo *)

StopVideo == Advance("on", "delTranscoder")

(* ~Transcoder and ~FilterGraph flush the graph, if there is one, without  *)
(* a look at what is in it; a graph that was not configured gives nothing. *)
Flushable == \A r \in Filters : ptr[r] /\ mem[r] = "live"
DeleteTranscoder ==
  /\ ptr["graph"] => Flushable
  /\ Go("delTranscoder", "outCloseCodec") /\ Release(Graph)
  /\ UNCHANGED <<used, pb, header>>
FlushHalfInit ==
  /\ ptr["graph"] /\ ~Flushable /\ Go("delTranscoder", "crashed")
  /\ fault' = fault \cup {"badFlush"}
  /\ UNCHANGED <<used, ptr, mem, pb, header>>

OutCloseCodec ==
  /\ Go("outCloseCodec", "outCloseFile") /\ Release({"outCodec"})
  /\ UNCHANGED <<used, pb, header>>

(* close() is called by stopVideo, by ~VideoMemoryOutput and by            *)
(* ~VideoFileOutput, where closeFile is VideoOutput's: it closes pb.       *)
(* VideoMemoryOutput's takes pb away and then releases what it led to.     *)
Calls == IF output = "memory" THEN 3 ELSE 2
CloseFile(pbIs) ==
  /\ Go("outCloseFile", "outCloseFormat")
  /\ Release(CASE output = "memory" /\ pass < Calls -> {"avioBuffer", "avioCtx"}
               [] OTHER -> IF ptr["outFormat"] THEN {pb} \cap Resources ELSE {})
  /\ pb' = IF ptr["outFormat"] THEN pbIs ELSE pb
  /\ UNCHANGED <<used, header>>
OutCloseFile_KeepsPb == CloseFile(pb)
OutCloseFile == CloseFile("null")

(* av_write_trailer, and the format context is freed. *)
TrailerFaults == {f \in {"noHeader", "freedBuffer"} :
                    /\ ptr["outFormat"]
                    /\ IF f = "noHeader" THEN ~header
                                         ELSE pb # "null" /\ mem[pb] # "live"}
OutCloseFormat ==
  /\ pc = "outCloseFormat"
  /\ pc' = IF pass < Calls THEN "outCloseCodec" ELSE "inCloseCodec"
  /\ pass' = IF pass < Calls THEN pass + 1 ELSE 1
  /\ ptr' = [ptr EXCEPT !["outFormat"] = FALSE]
  /\ mem' = [mem EXCEPT !["outFormat"] = IF ptr["outFormat"] THEN "freed" ELSE @]
  /\ fault' = fault \cup TrailerFaults
  /\ pb' = (IF ptr["outFormat"] THEN "null" ELSE pb) /\ header' = (header /\ ~ptr["outFormat"])
  /\ UNCHANGED <<config, used>>

InCloseCodec_Skipped == Advance("inCloseCodec", "inCloseFile")
InCloseCodec ==
  /\ Go("inCloseCodec", "inCloseFile") /\ Release({"inCodec"})
  /\ UNCHANGED <<used, pb, header>>

(* closeFile is closeFormat; close() comes from stopVideo and from the     *)
(* destructor.                                                             *)
InCloseFile ==
  /\ pc = "inCloseFile"
  /\ pc' = IF pass < 2 THEN "inCloseCodec" ELSE "off"
  /\ pass' = IF pass < 2 THEN pass + 1 ELSE 1
  /\ Release({"inFormat"})
  /\ UNCHANGED <<config, used, pb, header>>

-----------------------------------------------------------------------------
Rest == pc \in {"off", "crashed"} /\ UNCHANGED vars

Opening == \/ InConfig \/ InOptions \/ InOpen \/ InStream \/ InCodec \/ InCodecOpen \/ InDone
           \/ OutConfig \/ OutFormat \/ OutStream \/ OutCodec \/ OutCodecOpen
           \/ OutOpen \/ OutOpenFails \/ OutHeader
           \/ GraphAlloc \/ GraphSource \/ GraphSink \/ GraphParse \/ GraphConfig
Closing == \/ StopVideo \/ DeleteTranscoder \/ FlushHalfInit
           \/ OutCloseCodec \/ OutCloseFile \/ OutCloseFormat \/ InCloseCodec \/ InCloseFile

Next == NewStream \/ Opening \/ Closing \/ Rest

Spec == Init /\ [][Next]_vars

-----------------------------------------------------------------------------
(* Properties *)

(* Whatever call of an init fails, stopVideo releases all that was         *)
(* allocated before it.  (The dictionary of options is not a member: it is *)
(* lost when openFile or what follows throws.)                             *)
AllReleased ==
  pc = "off" => \A r \in Resources \ {"options"} : mem[r] # "live" /\ ~ptr[r]

(* close() is called two or three times for each object, each time with    *)
(* another closeFile, and releases nothing twice; and the trailer, which   *)
(* is written last, does not go through what closeFile released before.    *)
CloseIsSafe == fault \cap {"doubleFree", "freedBuffer"} = {}

(* A stream runs with everything it needs, without its options, and in a   *)
(* format that its encoder has.                                            *)
RunningIsComplete ==
  pc = "on" =>
    /\ \A r \in In \cup OutputOf(output) \cup Graph : ptr[r] /\ mem[r] = "live"
    /\ pb # "null" /\ header /\ mem["options"] # "live"
    /\ used \in FormatsOf(codec)

(* An object whose init threw can be closed: libav wants a trailer only    *)
(* after a header, and a flush only of a graph with a source and a sink.   *)
(* The code breaks this when the init fails in between.                    *)
ClosableAfterFailure == fault \cap {"noHeader", "badFlush"} = {}
=============================================================================
