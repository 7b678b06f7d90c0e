-------------------------- MODULE RequestSplitting --------------------------
(***************************************************************************)
(* How an address range of a trace line becomes memory requests.  The same *)
(* loop stands in processCommEvent, processCompWriteEvent and              *)
(* processCompReadEvent: it walks over the range in requests of at most    *)
(* MAX_REQUEST_SIZE bytes that do not cross a cache line, folding the      *)
(* trace's virtual addresses into Ruby's memory.  One step is one turn of  *)
(* the do-while loop, whose caller is TraceLine.                           *)
(***************************************************************************)
EXTENDS Integers, Sequences

CONSTANTS
    BlockSize,           \* RubySystem::getBlockSizeBytes()
    MemorySize,          \* RubySystem::getMemorySizeBytes()
    MAX_REQUEST_SIZE,    \* bytes of a request
    Word                 \* 2^64, the modulus of the unsigned arithmetic

\* RubySystem takes a power of two as block size, and init() panics on a larger
\* MAX_REQUEST_SIZE.
ASSUME SizesAssumption ==
    /\ BlockSize \in Nat \ {0}
    /\ MemorySize \in Nat \ {0} /\ MemorySize % BlockSize = 0
    /\ MAX_REQUEST_SIZE \in 1 .. BlockSize
    /\ Word \in Nat \ {0} /\ MemorySize <= Word

VARIABLES
    range,           \* this_mem_start_range and this_mem_end_range
    numBytes,        \* bytes still to be requested
    curAdd,          \* address of the last request
    prev_req_size,   \* its size
    requests,        \* the sharedInfo's pushed to the event
    done             \* the loop ended

splitVars == <<range, numBytes, curAdd, prev_req_size, requests, done>>

Ranges == [start : 0 .. (Word - 1), end : 0 .. (Word - 1)]

m_num_cache_lines == MemorySize \div BlockSize

\* Address::getOffset.
Offset(a) == a % BlockSize

\* The range's length; the end is part of the range.
Length(r) == (r.end - r.start + 1) % Word

\* Before the first range: an empty one at address 0.
Idle ==
    /\ range = [start |-> 0, end |-> Word - 1]
    /\ numBytes = 0 /\ curAdd = 0 /\ prev_req_size = 0
    /\ requests = << >>
    /\ done = TRUE

\* What stands before the loop.
Begin(r) ==
    LET lineStart == (r.start \div BlockSize) % m_num_cache_lines
        startOffset == Offset(r.start)
    IN  /\ range' = r
        /\ numBytes' = Length(r)
        /\ curAdd' = lineStart * BlockSize + startOffset
        /\ prev_req_size' = 0
        /\ requests' = << >>
        /\ done' = FALSE

\* Mutant: the room left in the line counts from the next byte.
SizeAtOneLess(addr, size) ==
    LET residual == size - (BlockSize - Offset(addr)) - 1
    IN IF residual > 0 THEN size - residual ELSE size

\* Mutant: the last byte of a line is not counted as room.
SizeAtLastByte(addr, size) ==
    LET residual == size - (BlockSize - 1 - Offset(addr))
    IN IF residual > 0 THEN size - residual ELSE size

\* A request that would reach into the next line ends with its own.
SizeAt(addr, size) ==
    LET residual == size - (BlockSize - Offset(addr))
    IN IF residual > 0 THEN size - residual ELSE size

\* Mutant: what the request was asked for is subtracted, not what it got.
SplitAsked ==
    /\ ~done
    /\ LET this_req_size == IF numBytes >= MAX_REQUEST_SIZE THEN MAX_REQUEST_SIZE ELSE numBytes
           addr == (curAdd + prev_req_size) % MemorySize
           size == SizeAt(addr, this_req_size)
       IN /\ curAdd' = addr
          /\ requests' = Append(requests, [addr |-> addr, numBytes |-> size])
          /\ prev_req_size' = size
          /\ numBytes' = numBytes - this_req_size
          /\ done' = (numBytes' = 0)
    /\ UNCHANGED range

\* One turn of the loop.
Split ==
    /\ ~done
    /\ LET this_req_size == IF numBytes >= MAX_REQUEST_SIZE THEN MAX_REQUEST_SIZE ELSE numBytes
           addr == (curAdd + prev_req_size) % MemorySize
           size == SizeAt(addr, this_req_size)
       IN /\ curAdd' = addr
          /\ requests' = Append(requests, [addr |-> addr, numBytes |-> size])
          /\ prev_req_size' = size
          /\ numBytes' = numBytes - size
          /\ done' = (numBytes' = 0)
    /\ UNCHANGED range

-----------------------------------------------------------------------------
\* Types of the loop's variables; numBytes never wraps below zero.
SplitTypeOK ==
    /\ range \in Ranges
    /\ numBytes \in 0 .. (Word - 1)
    /\ curAdd \in 0 .. (MemorySize - 1)
    /\ prev_req_size \in 0 .. MAX_REQUEST_SIZE
    /\ requests \in Seq([addr : 0 .. (MemorySize - 1), numBytes : 0 .. MAX_REQUEST_SIZE])
    /\ done \in BOOLEAN

\* No request reaches over the end of its cache line: the assertion with which
\* RubyPort's recvTimingReq receives it, wherever the range starts, however long
\* it is, and also where it wraps around the end of the memory.
RequestsFitALine ==
    \A i \in 1 .. Len(requests) :
        Offset(requests[i].addr) + requests[i].numBytes <= BlockSize

\* Between two turns the next byte to be requested is the one that follows the
\* bytes already requested, so no byte is skipped or requested twice.
NextByte ==
    (curAdd + prev_req_size) % MemorySize
        = (range.start + (Length(range) - numBytes)) % MemorySize

\* A request is short only where its line or the range ends: the number of
\* requests, which is the number of sub-events and of Ruby accesses that the
\* replay is timed by, is the smallest that MAX_REQUEST_SIZE and the lines allow.
RequestsAreFull ==
    \A i \in 1 .. Len(requests) :
        LET r == requests[i]
        IN \/ r.numBytes = MAX_REQUEST_SIZE
           \/ Offset(r.addr) + r.numBytes = BlockSize
           \/ i = Len(requests) /\ numBytes = 0

\* Every turn leaves fewer bytes or is the last one, so that the loop ends for every
\* range, the empty and the reversed ones included.
EveryTurnAdvances == [][~done => (numBytes' < numBytes \/ done')]_splitVars
=============================================================================
