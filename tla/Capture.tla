------------------------------- MODULE Capture -------------------------------
(***************************************************************************)
(* The packet capture library and the program that uses it                 *)
(* (network/tcpdump/custom_tcpdump.c and main.c).  libpcap calls           *)
(* packet_handler for each packet, which appends a header and the captured *)
(* bytes to the caller's buffer unless they no longer fit; the caller then *)
(* finds its way through the buffer from header to header.                 *)
(***************************************************************************)
EXTENDS Integers, Sequences, FiniteSets, SequencesExt

CONSTANTS BufferSize,
          HeaderSize,   \* sizeof(struct pcap_pkthdr)
          CapLens,      \* the captured lengths of packets
          Limits,       \* values of max_packets
          ArrivalBound  \* how many packets an instance sees

\* Sizes are numbers of bytes, and a header has some.
CaptureSizes ==
  /\ BufferSize \in Nat /\ HeaderSize \in Nat \ {0} /\ CapLens \subseteq Nat
  /\ Limits \subseteq Int /\ ArrivalBound \in Nat

ASSUME CaptureSizesHold == CaptureSizes

VARIABLES captureAt, \* the step of custom_tcpdump_capture or of its caller
          filtered, \* the caller gives a filter
          limit,    \* max_packets
          handle,   \* the capture handle is open
          program,  \* a compiled filter is allocated
          error_buffer, \* what it says
          arrived,  \* the lengths of the packets libpcap has handed over
          memory,   \* memory[o]: the header stored at offset o
          offset, count, \* of ctx
          result,
          shown     \* what print_captured_packets shows

ctxVars == <<arrived, memory, offset, count>>
pcapVars == <<handle, program, error_buffer>>
captureVars == <<captureAt, filtered, limit, pcapVars, ctxVars, result, shown>>

\* The caller has its buffer; error_buffer is emptied first.
CaptureInit ==
  /\ captureAt = "lookup"
  /\ filtered \in BOOLEAN /\ limit \in Limits
  /\ handle = FALSE /\ program = FALSE /\ error_buffer = "none"
  /\ arrived = <<>> /\ memory = <<>> /\ offset = 0 /\ count = 0
  /\ result = 0 /\ shown = <<>>

CaptureGoto(l) == captureAt' = l

\* A return with an error and its message.
Fail(code, message) ==
  /\ result' = code
  /\ error_buffer' = message
  /\ CaptureGoto("returned")

\* Invalid parameters
BadParameters ==
  /\ captureAt = "lookup"
  /\ Fail(-1, "invalid")
  /\ UNCHANGED <<filtered, limit, handle, program, ctxVars, shown>>

\* pcap_lookupnet; its failure leaves a warning and nothing else.
LookupNet(ok) ==
  /\ captureAt = "lookup"
  /\ error_buffer' = IF ok THEN error_buffer ELSE "warning"
  /\ CaptureGoto("open")
  /\ UNCHANGED <<filtered, limit, handle, program, ctxVars, result, shown>>

OpenLive(ok) ==
  /\ captureAt = "open"
  /\ IF ok
     THEN /\ handle' = TRUE
          /\ CaptureGoto(IF filtered THEN "compile" ELSE "loop")
          /\ UNCHANGED <<program, error_buffer, result>>
     ELSE Fail(-2, "device") /\ UNCHANGED <<handle, program>>
  /\ UNCHANGED <<filtered, limit, ctxVars, shown>>

Compile(ok) ==
  /\ captureAt = "compile"
  /\ IF ok
     THEN program' = TRUE /\ CaptureGoto("setfilter") /\ UNCHANGED <<handle, error_buffer, result>>
     ELSE Fail(-3, "parse") /\ handle' = FALSE /\ UNCHANGED program
  /\ UNCHANGED <<filtered, limit, ctxVars, shown>>

\* pcap_setfilter and, in both cases, pcap_freecode.
SetFilter(ok) ==
  /\ captureAt = "setfilter"
  /\ IF ok
     THEN program' = FALSE /\ CaptureGoto("loop") /\ UNCHANGED <<handle, error_buffer, result>>
     ELSE Fail(-4, "install") /\ program' = FALSE /\ handle' = FALSE
  /\ UNCHANGED <<filtered, limit, ctxVars, shown>>

-----------------------------------------------------------------------------
\* Mutant: the space for the header is not asked for.
FitsBody(caplen) == offset + caplen <= BufferSize

Fits(caplen) == offset + HeaderSize + caplen <= BufferSize

\* packet_handler; pcap_loop counts the packet whether it is kept or not.
PacketHandler(caplen) ==
  /\ captureAt = "loop"
  /\ limit > 0 => Len(arrived) < limit
  /\ Len(arrived) < ArrivalBound
  /\ arrived' = Append(arrived, caplen)
  /\ IF (limit > 0 /\ count >= limit) \/ ~Fits(caplen)
     THEN UNCHANGED <<memory, offset, count>>
     ELSE /\ memory' = [o \in DOMAIN memory \cup {offset} |->
                          IF o = offset THEN [caplen |-> caplen, nr |-> Len(arrived) + 1]
                          ELSE memory[o]]
          /\ offset' = offset + HeaderSize + caplen
          /\ count' = count + 1
  /\ UNCHANGED <<captureAt, filtered, limit, pcapVars, result, shown>>

\* pcap_loop returns: the number of packets is reached, or it was broken off.
LoopEnds(broken) ==
  /\ captureAt = "loop"
  /\ ~broken => limit > 0 /\ Len(arrived) = limit
  /\ error_buffer' = IF broken THEN "interrupted" ELSE error_buffer
  /\ handle' = FALSE
  /\ result' = count
  /\ CaptureGoto("returned")
  /\ UNCHANGED <<filtered, limit, program, ctxVars, shown>>

LoopError ==
  /\ captureAt = "loop"
  /\ Fail(-5, "loop")
  /\ handle' = FALSE
  /\ UNCHANGED <<filtered, limit, program, ctxVars, shown>>

-----------------------------------------------------------------------------
\* One turn of print_captured_packets: ptr goes on by the header it finds
\* there and its caplen.
NextPtr == IF shown = <<>> THEN 0 ELSE Last(shown).ptr + HeaderSize + memory[Last(shown).ptr].caplen

Show ==
  /\ captureAt = "returned"
  /\ Len(shown) < result
  /\ shown' = Append(shown, [ptr |-> NextPtr,
                             nr  |-> IF NextPtr \in DOMAIN memory THEN memory[NextPtr].nr ELSE 0])
  /\ UNCHANGED <<captureAt, filtered, limit, pcapVars, ctxVars, result>>

\* The program ends: all packets are shown, or the error is.
EndProgram ==
  /\ captureAt = "returned"
  /\ Len(shown) >= result
  /\ CaptureGoto("exit")
  /\ UNCHANGED <<filtered, limit, pcapVars, ctxVars, result, shown>>

CaptureNext ==
  \/ BadParameters \/ LoopError \/ Show \/ EndProgram
  \/ \E ok \in BOOLEAN :
       LookupNet(ok) \/ OpenLive(ok) \/ Compile(ok) \/ SetFilter(ok) \/ LoopEnds(ok)
  \/ \E n \in CapLens : PacketHandler(n)

CaptureSpec == CaptureInit /\ [][CaptureNext]_captureVars
-----------------------------------------------------------------------------
\* The errors, by the message that goes with them.
Code == [invalid |-> -1, device |-> -2, parse |-> -3, install |-> -4, loop |-> -5]

\* Every variable has its type.
CaptureTypeOK ==
  /\ captureAt \in {"lookup", "open", "compile", "setfilter", "loop", "returned", "exit"}
  /\ handle \in BOOLEAN /\ program \in BOOLEAN /\ filtered \in BOOLEAN
  /\ error_buffer \in {"none", "warning", "interrupted"} \cup DOMAIN Code
  /\ offset \in Nat /\ count \in Nat /\ result \in -5 .. ArrivalBound

\* Of the first n packets those that were kept, in order, and the room that is
\* left: a packet is kept if the packets kept before it leave room for it.
Greedy[n \in 0 .. Len(arrived)] ==
  IF n = 0 THEN [kept |-> <<>>, room |-> BufferSize]
  ELSE LET need == HeaderSize + arrived[n]
       IN  IF need <= Greedy[n - 1].room
           THEN [kept |-> Append(Greedy[n - 1].kept, n), room |-> Greedy[n - 1].room - need]
           ELSE Greedy[n - 1]
Kept == Greedy[Len(arrived)].kept

\* What the caller shows is what was captured: the walk from header to header
\* meets exactly the packets that fitted, in the order of their arrival,
\* though longer ones in between were left out, and it stays in the buffer;
\* the error text belongs to the call that failed, and nothing is left open
\* (packet_handler, custom_tcpdump_capture, print_captured_packets).
CaptureFaithful ==
  /\ offset <= BufferSize
  /\ \A i \in DOMAIN shown : shown[i].ptr + HeaderSize + arrived[Kept[i]] <= BufferSize
                             /\ shown[i].nr = Kept[i]
  /\ captureAt \in {"returned", "exit"} =>
       /\ ~handle /\ ~program
       /\ IF result < 0 THEN Code[error_buffer] = result
          ELSE error_buffer \in {"none", "warning", "interrupted"}
  /\ captureAt = "exit" /\ result >= 0 => Len(shown) = Len(Kept)
=============================================================================
