----------------------------- MODULE GpuRecords -----------------------------
(***************************************************************************)
(* The two reads that carry lists of records: the pages a GPU has retired, *)
(* streamed to the client in batches (GPUBadPageGet), and the error        *)
(* records of the driver (GPUCPERGet), which the SMI library hands out     *)
(* round by round.  Each request is served by one gRPC thread; the devices *)
(* retire pages meanwhile.                                                 *)
(***************************************************************************)
EXTENDS Naturals, Sequences

CONSTANTS
    PageGpus,      \* GPUs a request may name
    MaxIds,        \* bound: GPUs one request names
    MaxPages,      \* bound: pages a GPU retires
    BatchSize,     \* AGA_MAX_STREAMING_RSP_SIZE
    CountWidth,    \* values of streaming_get_ctxt_t::count (a uint8_t: 256)
    CperRecords,   \* bound: error records in the driver
    CperRound,     \* bound: records of one round, the size of the buffer
    CperMax        \* AGA_GPU_MAX_CPER_ENTRY

ASSUME RecordsAssumption ==
    /\ MaxIds \in Nat /\ MaxPages \in Nat
    /\ BatchSize \in Nat \ {0} /\ CountWidth \in Nat \ {0}
    /\ CperRecords \in Nat /\ CperRound \in Nat \ {0} /\ CperMax \in Nat

VARIABLES
    pages,    \* pages each device has retired
    stream,   \* the GPUBadPageGet
    cper      \* the smi_gpu_get_cper_entries under way

recordsVars == <<pages, stream, cper>>

NoStream == [pc |-> "idle"]
NoCper   == [pc |-> "idle"]
\* A record of page i of GPU g; i = 0 for one that was never filled in.
PageRecords == PageGpus \X (0 .. MaxPages)

RecordsTypeOK ==
    /\ pages \in [PageGpus -> 0 .. MaxPages]
    /\ stream.pc \in {"idle", "count", "records", "send", "done"}
    /\ stream.pc # "idle" => /\ stream.batch \in Seq(PageRecords)
                             /\ Len(stream.batch) < BatchSize
                             /\ stream.count \in 0 .. CountWidth - 1
    /\ cper.pc \in {"idle", "round", "decode", "done"}

-----------------------------------------------------------------------------
\* The device retires another page.
RetirePage(g) ==
    /\ pages[g] < MaxPages
    /\ pages' = [pages EXCEPT ![g] = @ + 1]
    /\ UNCHANGED <<stream, cper>>

\* aga_svc_gpu_bad_page_get: the GPUs of the request, or all of them.  The count
\* of the context starts with whatever the stack holds.
BadPageGet(ids) ==
    /\ stream = NoStream
    /\ \E garbage \in 0 .. CountWidth - 1 :
         stream' = [pc |-> "count", left |-> ids, found |-> 0, want |-> <<>>, todo |-> <<>>,
                    count |-> garbage, batch |-> <<>>, written |-> <<>>, empties |-> 0]
    /\ UNCHANGED <<pages, cper>>

\* smi_gpu_get_bad_page_count: a GPU without bad pages, or whose call fails, is
\* passed over.
BadPageCount ==
    /\ stream.pc = "count" /\ stream.left # <<>>
    /\ LET g == Head(stream.left) IN
       \/ stream' = [stream EXCEPT !.left = Tail(@)]
       \/ /\ pages[g] > 0
          /\ stream' = [stream EXCEPT !.pc = "records", !.found = pages[g]]
    /\ UNCHANGED <<pages, cper>>

\* Mutant of ToProto: a batch that was written is not cleared.
ToProtoMutant(s, r) ==
    LET batch == Append(s.batch, r) IN
    IF Len(batch) = BatchSize
    THEN [s EXCEPT !.batch = batch, !.written = @ \o batch, !.count = (@ + 1) % CountWidth]
    ELSE [s EXCEPT !.batch = batch, !.count = (@ + 1) % CountWidth]

\* aga_gpu_bad_page_api_info_to_proto for one record: a full batch is written,
\* whether or not the client still listens, and a new one begun.
ToProto(s, r) ==
    LET batch == Append(s.batch, r) IN
    IF Len(batch) = BatchSize
    THEN [s EXCEPT !.batch = <<>>, !.written = @ \o batch, !.count = (@ + 1) % CountWidth]
    ELSE [s EXCEPT !.batch = batch, !.count = (@ + 1) % CountWidth]

\* smi_gpu_get_bad_page_records: as many records as were counted go to the
\* callback, also when the second call fails and none of them was filled in.
BadPageRecords ==
    /\ stream.pc = "records"
    /\ \E ok \in BOOLEAN :
         LET g  == Head(stream.left)
             rs == [i \in 1 .. stream.found |-> <<g, IF ok THEN i ELSE 0>>]
         IN  stream' = [stream EXCEPT !.pc = "send", !.todo = rs, !.want = @ \o rs]
    /\ UNCHANGED <<pages, cper>>

\* The loop of the callback, one record after the other.
BadPageSend ==
    /\ stream.pc = "send"
    /\ stream' = IF stream.todo = <<>>
                 THEN [stream EXCEPT !.pc = "count", !.left = Tail(@)]
                 ELSE ToProto([stream EXCEPT !.todo = Tail(@)], Head(stream.todo))
    /\ UNCHANGED <<pages, cper>>

\* The last batch, or an empty response if nothing was counted.
BadPageFlush ==
    /\ stream.pc = "count" /\ stream.left = <<>>
    /\ stream' = [stream EXCEPT !.pc = "done", !.written = @ \o stream.batch, !.batch = <<>>,
                                !.empties = IF stream.batch = <<>> /\ stream.count = 0 THEN 1 ELSE 0]
    /\ UNCHANGED <<pages, cper>>

BadPageDone ==
    /\ stream.pc = "done"
    /\ stream' = NoStream
    /\ UNCHANGED <<pages, cper>>

-----------------------------------------------------------------------------
\* smi_gpu_get_cper_entries begins, with n records in the driver: one buffer,
\* filled anew by every round, and cper_buffer, which points to the record to
\* decode.  Offsets are counted in records.
CperGet(n) ==
    /\ cper = NoCper
    /\ cper' = [pc |-> "round", total |-> n, cursor |-> 0, buffer |-> <<>>, room |-> CperMax,
                hdrs |-> <<>>, more |-> TRUE, at |-> 0, prev |-> 0, entries |-> <<>>, decoded |-> <<>>]
    /\ UNCHANGED <<pages, stream>>

\* amdsmi_get_gpu_cper_entries: the records from the cursor on, as many as fit;
\* the room for headers is what the last round returned.
CperFetch ==
    /\ cper.pc = "round" /\ cper.more
    /\ LET left == cper.total - cper.cursor
           k    == CHOOSE m \in 0 .. left :
                     /\ m <= CperRound /\ m <= cper.room
                     /\ \A j \in 0 .. left : j <= CperRound /\ j <= cper.room => j <= m
           hdrs == [i \in 1 .. k |-> cper.cursor + i]
       IN  \/ cper' = [cper EXCEPT !.pc = "decode", !.hdrs = hdrs, !.room = k, !.cursor = @ + k,
                          !.buffer = hdrs \o SubSeq(@, k + 1, Len(@)),
                          !.more = cper.cursor + k < cper.total]
           \/ cper' = NoCper      \* the call fails
    /\ UNCHANGED <<pages, stream>>

\* One entry: its header comes from cper_hdrs, its AMD field ids from
\* cper_buffer, which moves on by the length of the record before.
CperDecode ==
    /\ cper.pc = "decode" /\ cper.hdrs # <<>>
    /\ Len(cper.entries) < CperMax
    /\ LET at == cper.at + cper.prev IN
       cper' = [cper EXCEPT !.hdrs = Tail(@), !.entries = Append(@, Head(cper.hdrs)),
                  !.at = at, !.prev = 1,
                  !.decoded = Append(@, IF at < Len(cper.buffer) THEN cper.buffer[at + 1] ELSE 0)]
    /\ UNCHANGED <<pages, stream>>

\* The round is over; another follows while the library has more data.
CperRoundDone ==
    /\ cper.pc = "decode"
    /\ cper.hdrs = <<>> \/ Len(cper.entries) = CperMax
    /\ cper' = [cper EXCEPT !.pc = IF cper.more THEN "round" ELSE "done"]
    /\ UNCHANGED <<pages, stream>>

CperDone ==
    /\ cper.pc = "done"
    /\ cper' = NoCper
    /\ UNCHANGED <<pages, stream>>

PageIds == UNION {[1 .. n -> PageGpus] : n \in 1 .. MaxIds}

RecordsInit ==
    /\ pages = [g \in PageGpus |-> 0]
    /\ stream = NoStream
    /\ cper = NoCper

RecordsNext ==
    \/ \E g \in PageGpus : RetirePage(g)
    \/ \E ids \in PageIds : BadPageGet(ids)
    \/ BadPageCount \/ BadPageRecords \/ BadPageSend \/ BadPageFlush \/ BadPageDone
    \/ \E n \in 0 .. CperRecords : CperGet(n)
    \/ CperFetch \/ CperDecode \/ CperRoundDone \/ CperDone

RecordsSpec == RecordsInit /\ [][RecordsNext]_recordsVars

-----------------------------------------------------------------------------
\* The stream carries every record that was counted, once and in order, across
\* the limits of batches and of GPUs, whatever pages are retired meanwhile
\* (aga_gpu_bad_page_api_info_to_proto and the final flush).
StreamCarriesAll == stream.pc = "done" => stream.written = stream.want

\* The entries reported are the first records of the driver, once each and in
\* order, however they fall into rounds, and never more than fit
\* (smi_gpu_get_cper_entries).
CperEntriesInOrder ==
    cper.pc = "done" =>
        /\ Len(cper.entries) <= CperMax
        /\ Len(cper.entries) = CperMax \/ Len(cper.entries) = cper.total
        /\ \A i \in DOMAIN cper.entries : cper.entries[i] = i

\* "cper_buffer is used to keep track of each individual record" (smi_api.cc:2443):
\* the field ids of an entry are those of its own record.
FieldIdsOfOwnRecord ==
    cper.pc = "done" => cper.decoded = cper.entries

\* No record is lost, doubled or out of order on its way from the library to the
\* client (smi_gpu_get_bad_page_records, smi_gpu_get_cper_entries).
RecordsComplete == StreamCarriesAll /\ CperEntriesInOrder
=============================================================================
