# The WFDS print plugin: a TLA+ development

This directory holds TLA+ models of the WFDS print plugin (an Android print
service for Wi-Fi Direct printers), the TLC configurations that check them on
small instances, and theorems about them with proofs checked by TLAPS.
`PROJECT.json` maps every definition to the lines it translates and lists the
runs, the mutants, the hazards, the findings and the theorems.

    tlc -workers 2 -config MCQueue.cfg MCWprintJobs
    tlapm WprintJobs_proofs.tla

## 1. Inventory of the system

The program has three layers. Java services (`src/src/com/android/wfds`) take
print requests, discover printers and keep one list of jobs. The JNI layer
(`src/jni/wprint/lib/wprintJNI.c`) converts parameters. The native print
library (`src/jni/wprint`) spools the jobs, renders pages, sends them and
watches the printer. All paths below are relative to `src/jni/wprint`, or to
`src/src/com/android/wfds` where they end in `.java`.

| component | state | operations | hard behaviour | what makes it correct |
|---|---|---|---|---|
| **Job spooler** `lib/lib_wprint.c` | `_job_queue[100]`, `_running_number`, `_msgQ`, `_q_lock`, two wait semaphores, per job a page queue and a save queue | `wprintInit`, `wprintStartJob`, `wprintPage`, `wprintCancelJob`, `wprintResumePrint`, `wprintEndJob`, `wprintExit`; `_job_thread`; `_job_status_callback` | three kinds of threads; the job thread gives up the mutex to wait, print and join and goes on with the same slot; cancels race with everything; queues that fill up; handles that wrap | a running job keeps its slot; one job at a time; one JOB_DONE per job; every queued job ends |
| **Message queue** `lib/wprint_msgq.c` | ring of messages, `read_idx`, `num_msgs`, counting semaphore, mutex | `msgQCreate`, `msgQSend`, `msgQReceive`, `msgQNumMsgs`, `msgQDelete` | semaphore and mutex are taken one after the other | it is a bounded FIFO |
| **Clients' status monitors** `lib/lib_wprint.c` | one `_status_handle_t` per monitor, a thread | `wprintStatusMonitorSetup`, `Start`, `Stop` | a stop that overtakes the start of the thread; the join under the lock of the tasks | the handle is freed last, and once |
| **Job parameters** `lib/lib_wprint.c`, `lib/printable_area.c` | the cached default parameters of a printer, with the bytes of the C structure | defaults, capabilities, final parameters, margins, conversions between Java and C | wishes that exclude each other; a structure converted up to three times; what one job leaves for the next | a job is printed with what its client wanted, as far as the printer can |
| **IPP status monitor** `ipphelper/ippstatus_monitor.c` | `stop_monitor`, `last_status`, `monitor_sem`, a mutex, the HTTP connection | `_start`, `_stop`, `_cancel`, `_get_status`, `_destroy` | a stop that overtakes the start; retries without bound in `_cancel` | a stop is heard; a cancel returns |
| **IPP requests** `ipphelper/ipphelper.c`, `ipp_print.c`, `ippstatus_capabilities.c` | the resolved IPP version (globals) | version negotiation, printer attributes, printer state, validate, print-job | retries and version fall-back; globals shared by all threads | each loop ends; a request carries a version the printer speaks |
| **PCL/PCLm/PWG plugin** `plugins/plugin_pcl.c` | message queue to a send thread, ring of strip buffers, counting semaphore | `_start_job`, `_print_page`, `_print_blank_page`, `_end_job`; send thread | buffers are filled by one thread while the other sends them; messages that are not sent | a buffer is not filled while it is being sent; the thread ends |
| **PDF plugin** `plugins/plugin_pdf.c` | none beyond a page | print a file | partial writes | the file is sent whole |
| **Image pipeline** `plugins/wprint_image.c`, `wprint_scaler.c`, decoders | decoder position, rows cached by the decoder, rotated rows, rows kept for the scaler, the stripe buffer | open, decode a stripe, scale, rotate, pad | four caches of rows that each stripe finds as the one before it has left them; boundary rows and columns | each pixel of each stripe is the right one |
| **Page description generators** `plugins/genPCLm`, `lib_pclm.c`, `lib_pwg.c` | object counter, table of offsets, page tree, buffers | start and end job, page, strip | pages that are cut, blank or lost after their objects have been announced | references and offsets lead where they say; pages come in order |
| **Ports and plugin registry** `lib/printer.c`, `lib/plugin_db.c`, `lib/wprint_debug.c` | a socket, a table of plugins | open, write, close; register, look up | partial writes | |
| **JNI layer** `lib/wprintJNI.c`, `jni/*.java` | global references, one callback object | `nativeStartJob`, cancel, end, callbacks | callbacks from native threads; failures after the job was started | a job that failed to start is given back |
| **Print service** `WPrintService.java`, `printservice/tasks`, `common/job`, `common/messaging` | `mJobList`, `mPendingStatus`, clients, task counter | start, cancel, end, resume, status messages | callbacks that come before the job is in the list; tasks on several threads | every callback reaches its client, once |
| **Status monitors of the service** `common/statusmonitor` | a (static) vector of clients, native handles | add and remove a client, start, stop | a vector shared by all printers | the monitor of a printer runs while it has a client |
| **Discovery** `discoveryservice`, `LocalPrinterDiscoveryTask.java`, the session in `ServiceAndroidPrint.java` | a socket, a timeout, the printers of the session | start, stop, query, listen, parse, report | lost answers and repeated queries; a session stopped or replaced while answers are on their way through four threads | a printer is found if one answers; the session shows what its own discovery found; stopped tasks end |
| **Print framework adapter** `printplugin` | map of print jobs | Android `PrintService` callbacks | | |

The main interactions:

* The service starts a job through the JNI layer; `nativeStartJob` calls
  `wprintStartJob`, then `wprintPage` for every file and once without a file.
* `wprintStartJob` takes a slot, a handle and a run message to `_msgQ`; the job
  thread receives it, waits for the printer, starts the status thread, runs the
  plugin page by page, waits for the printer to become idle, joins the status
  thread and reports `JOB_DONE`.
* The status thread calls `_job_status_callback`, which posts the job thread's
  semaphores, writes `job_state` and calls the client.
* A client ends a finished job with `wprintEndJob`, which frees its slot.

`PROJECT.json` lists every hazard of these parts at the line where it bites,
with the property that covers it.

## 2. Modules and plan

| module | models | composes, refines | proved |
|---|---|---|---|
| `Spooler`, `WprintJobs` | the job spooler with its job thread, its status thread and its clients | refines `Spooler` | every invariant: types, slots, callbacks, run messages, the end of the library, threads and pages; refinement; final states |
| `BoundedQueue`, `MsgQ` | `wprint_msgq.c`: ring, semaphore, mutex, several threads | refines a bounded FIFO, the one `WprintJobs` and `PclSend` use | invariant, refinement |
| `PclSend` | job thread, send thread, message queue and buffer ring of `plugin_pcl.c` | | every invariant: types, permits, buffers, order of the calls; the queue never refuses a message, for long pages |
| `PclDocument` | the PCLm and PWG generators behind the send thread | extends `PclSend`, refines it | refinement, and with it what holds of `PclSend`; both invariants of the document |
| `ImageStripes` | a page of an image in stripes: `wprint_image.c`, scaler, decoders | | its invariants, with those of `PrintedPage` |
| `JobParams`, `PrintedPage` | settings, capabilities and final parameters; a client, its job and a page of it | `PrintedPage` composes `JobParams` and `ImageStripes` | both invariants of the page, pixel by pixel; what a job is printed with |
| `PrintService`, `AndroidPrint` | the print service with its two handlers and its tasks; the adapter to Android's print framework | `AndroidPrint` is the client of `PrintService`; the library in it is that of `Spooler` | every invariant; nothing follows the end of a job |
| `PrinterMonitors` | the monitors of printers from the adapter down to `wprintStatusMonitorStart` | | every invariant: one thread per printer, handles freed once and last, clients are served |
| `IppRequests` | requests, retries and the version of IPP | | every invariant: types and counters, one request on a connection, responses freed once; a version settles, for one that asks |
| `Discovery` | the discovery session of the framework, its tasks, and the service's task on a network that loses answers | composes adapter, service and network | every invariant; a printer that was found is on its way |
| `Subsequences` | what is left of a sequence when entries are removed | used by `PrintService`, `Discovery`, `PclDocument` | its lemmas, where they are used |

Each `MC...` module gives a module its small instances; each configuration
names one of them. The order follows the damage a defect would do: a job that
runs in another job's slot, or a queue that stops for ever, comes first.

What the plan has left: the bytes of DNS packets, the transfer of a file by the
PDF plugin, and the ports.

## 3. The spooler: `WprintJobs`

### State

| variable | code |
|---|---|
| `jobs` | `_job_queue`; a record per slot: `job_state`, `job_handle`, `cancel_ok` left out, `job_params.cancelled`, the part of `blocked_reasons` the job thread reads, `last_page_seen`, `num_pages`, `job_params.page_num`, `job_params.page_printing`, `pageQ`, `saveQ`. `client` and `failed` are history: what the client was told and whether `print_page` has failed |
| `msgQ` | `_msgQ`, the bounded FIFO of section 5 |
| `running` | `_running_number` |
| `th` | program counter and locals of `_job_thread` |
| `mon` | program counter and locals of `_start` in the status thread, `stop_monitor`; `lost` is history: a request to stop was there when the thread cleared it |
| `sem` | `_job_start_wait_sem`, `_job_end_wait_sem`: only whether they are positive is ever read |
| `exit` | how far `wprintExit` has come |

### The mutex

`_q_lock` is a recursive mutex that the client calls and the status callback
hold from beginning to end, so each of these is one action. The job thread
holds it over long stretches and gives it up in the middle: the stretches are
cut into several actions, `Held` is the set of program counters at which the
thread owns the mutex, and every other critical section has the guard
`LockFree`. What the code does without the mutex is open to interleaving: the
waits for messages, pages, semaphores and seconds, `print_page`, the join of
the status thread, `wprintExit`, and the posts at the beginning of the status
callback.

### Actions

| action | code |
|---|---|
| `StartJob`, `SendPage`, `CancelJob`, `EndJob` | `wprintStartJob`, `wprintPage`, `wprintCancelJob`, `wprintEndJob`, with `_get_handle`, `_recycle_handle`, `_get_job_desc` |
| `ExitBegin`, `ExitDrain`, `ExitQuit`, `ExitJoin` | `wprintExit` |
| `ReceiveMsg`, `LookupJob` | the head of `_job_thread` |
| `PrinterReady`, `PrinterGone`, `PrinterBusy`, `PrinterTooBusy`, `WakeUp` | its wait for an idle printer |
| `Launch` | `print_ifc->init`, `_start_status_thread`, `start_job` |
| `BeginCopy`, `ReceivePage`, `TakePage`, `PrintPage`, `PrintBlank`, `AfterPage` | jobs handed in page by page, over all copies |
| `BeginSingle`, `PrintSingle` | jobs with one file |
| `EndPrinting`, `WaitStart`, `WaitDone`, `LastTry`, `StopStatus`, `JoinStatus`, `Finish` | the end of a job |
| `MonitorBegin`, `MonitorHead`, `MonitorPoll`, `MonitorPost`, `MonitorApply` | the status thread and `_job_status_callback` |

### Abstractions

* Parameters, names and paths are left out; a job is its `JobKind`: page by
  page or one file, copies, IPP or a port, duplex, PDF.
* A printer report is one of the nine of `Report`. A run says which of them the
  printer can give; the order is free, so the printer may do anything.
* The results of a plugin are free within what the plugin can return.
* The waits of 45 and 300 seconds are free to end at any time: their length is
  wall-clock time, which no property is about. The wait for the end of a print
  goes on while the printer needs the user, as in the code.
* The bits of the reasons of a report are abstracted to whether the printer
  needs the user (`paper`).
* The client is told more often of state changes than in the code (it compares
  with the last reasons); the properties hold all the more.
* `wprintResumePrint` changes no state of the spooler. It returns ERROR
  whatever happens, since two statements after an `else` have no braces
  (`lib_wprint.c:2748-2751`). `wprintJobDesc` only reads.
* `StartFails` lets `start_job` fail under a status thread, which breaks the
  spooler (section 12). The safety runs and the theorems of section 13 are about
  the spooler without that, so that what else holds can be seen; run `Live` has
  it.
* A status thread that is told to stop before it has run forgets it, as in the
  code, in every run (`StopStatus`, `MonitorBegin`).

### Bounds

`MaxStarts` and `MaxPages` bound the jobs of a behaviour and the pages of a
job, `HandleSpace` stands for 2^24 and is small enough in run `Queue` to wrap.
`MaxIdleWait` counts the tries a busy printer gets before a job gives up: one in
run `Live`, and none
in the others.
The capacities of the table and of the queues are constants of the code and
are small so that they are reached. Two slots are enough for every relation
between a job and another one; two copies for one swap of the queues; two pages
for a page that is not the last.

### Fairness

`FairSpec` is weak fairness of the job thread and of the status thread:
both are threads of the operating system, and each of their steps, once
possible, stays possible or is waited for with a blocking call. Nothing is
assumed of clients or of the printer in `CancelledJobEnds`. It does not hold of
every behaviour: the code has two defects that keep a cancelled job from its
end, and the absence of each is a premise. `NoStopLost`: no status thread
forgets that it was told to stop (`StopIsHeard`, section 12). `PagesFit`: no page
queue fills up, so that no page is refused, the dummy page of a cancel included
(run `LostPage`). That `start_job` fails is allowed. `EveryJobEnds` has the same
two premises and two more: clients hand in the last page of a job at some time
(`PagesEnd`; `nativeStartJob` does so in any case) and the printer is idle again
and again (`PrinterRecovers`): a printer that stays out of paper blocks its job
for ever, by design.

## 4. Runs of `WprintJobs`

| run | instance | shows |
|---|---|---|
| `Queue` | 2 slots, 2 messages, 2 handle numbers, 4 single jobs to a port | types; a queued job always has its run message, also when messages of dead jobs fill the queue; callbacks in order; a clean exit; refinement of `Spooler` |
| `Jobs` | 1 slot reused, 2 jobs of five kinds: page by page in 2 copies over IPP or duplex to a port, single images in 2 copies over IPP, PDFs, single images to a port | `ThreadsAgree`: the status thread only ever touches the running job and is told to stop before it is joined, the running job keeps its slot (`JobKeepsItsSlot`), the inductive invariant of the proofs, and no page comes after the last; the swap of the queues loses no page, and completed means that everything was printed; a cancel wakes a waiting job thread; finished jobs do not change |
| `Live` | 1 slot reused, pages and single files over IPP, a page queue of 2, `start_job` may fail, a busy printer that is asked once more, fair threads | where no stop is lost and no page queue is full, a cancelled job comes to an end whatever its client and the printer do; with a fair client and printer every queued job is over at some time |
| `LostPage` | a page queue of 1 | finding, see section 12 |

The mutants in `PROJECT.json` are small changes of single actions, each next to
the action it changes and marked as such (`EndAnyJob`, `StopUnjoined`, ...).
Each breaks the property it is listed with.

Deadlock is not checked: the number of jobs is bounded, clients may stop, and
after `wprintExit` nothing moves. The same is true of the other runs.

## 5. The message queue: `MsgQ` and `BoundedQueue`

`MsgQ` is `wprint_msgq.c` with any number of threads that send and receive. A
call is a walk of the thread's `pc`; each step is one access to what the
threads share: `sem_wait` or `sem_trywait`, the mutex, the ring under the
mutex, `sem_post` (under the mutex, but seen by receivers that wait without
it), and the unlock. `msgQSend` is only ever called with NO_WAIT (it refuses
anything else); a receiver waits or does not. `msgQDelete` is left out: the
callers ensure that nobody uses the queue any more.

`BoundedQueue` is what the rest of the library takes the queue for. A receiver
that has passed the semaphore has claimed a message, not a certain one: two
receivers can take their messages in another order than their permits, and a
receive that does not wait may fail while the ring still holds messages that
are promised to others. A send fails only on a full queue. A message leaves
the sender's hand with `sem_post`, not with the write to the ring, and
`Contents` says so.

| run | instance | shows |
|---|---|---|
| `MsgQ` | 3 threads, 2 messages, a ring of 2 | every message has a permit, a receiver or a sender that is about to post (`Accounted`), so that nothing is left behind when all is quiet; refinement (`KeepsFifo`) |

Three threads are two that compete on either side and one on the other; a ring
of two wraps, is full and is empty.

## 6. The PCL plugin: `PclSend`

The job thread in `_print_page` decodes a stripe into the next of
`MAX_SEND_BUFFS` buffers and queues it; the send thread gives it to the
generator and posts `buffs_sem`.

| variable | code |
|---|---|
| `queue` | `priv->msgQ`, the bounded FIFO of section 5 |
| `permits` | `buffs_sem` |
| `prod` | program counter and locals of `_print_page` (`num_rows`, `start_row`, `buff_index`, `blank_data`, `result`) |
| `send` | program counter of `_send_thread` and its `msg` |
| `mem` | `buff_pool` of each page: not allocated, never written, an image, blank |
| `cancelled` | `job_params->cancelled`; `wprintCancelJob` sets it in another thread, at any time |
| `out` | history: the calls of the generator |

`print_swath` takes time, so that it begins and ends in two actions, and so
does a stripe in the job thread (`WaitBuffer`, `Fill`, `SendStripe`). Pages may
be broken in every way the code looks for: no memory for the image
(`AbandonPage`, which ends no page), no file or not all buffers (`BreakPage`),
a decoder that fails in the middle (`FillFails`), a full queue (`SendStripe`).
The number of stripes of a page is free; rotation, margins and pixels are left
out. The branches for a generator that can cancel in the middle of a page are
left out: both generators answer that they cannot.

| run | instance | shows |
|---|---|---|
| `PclBroken` | 3 buffers, a queue of 4, pages of 1 or 4 stripes, broken pages; with the generators of section 7 | one owner for each buffer, none used after it is freed, no permit lost although the queue does get full, and only blanks after a cancel |
| `PclFull` | 8 buffers and a queue of 16, as in the code, pages of 5 or 9 stripes, whole files, fair threads; with the PWG generator of section 7 | no message is refused; the generator gets its calls in order; every page is ended; the plugin returns |

The pages of `PclBroken` are the page in the job thread, the one before it that
the send thread may still be in, and one more; four stripes use one of three
buffers twice. `PclFull` has the constants of the code and five pages, more than
16 messages can belong to. Messages of stripes are limited by permits, those
for the start and the end of a page and of the job are not, so that short pages
need more room. With pages of which two have more stripes than there are
buffers, of five stripes or more in the code, no message is ever refused,
however many pages there are (proved, section 13); the run has pages of five. With
pages of three, TLC finds a refused message in a job of six pages with blank
ones among them. A stripe has 16 rows or what the printer prefers, up to
256 (`ipphelper/ipphelper.c:1551`), and PAD_ALL makes every page as high as the
printable area, so that a page of less than five stripes would be at most 1024
rows high, 3.4 inches at 300 dpi. `PclFull` assumes weak fairness of the two threads (`FairDocSpec`): both are threads
of the operating system, and a write to the printer ends or fails.

## 7. The generators: `PclDocument`

The calls of the send thread reach lib_pclm with genPCLm, which writes a PDF of
numbered objects, or lib_pwg, which writes a stream of page headers and rows.

| variable | code |
|---|---|
| `doc.items` | the output: each object with its number, its page, its strip and the numbers it refers to; a page of PWG is one `sheet` with the rows announced and those that came |
| `doc.tickets` | the job tickets lib_pclm writes past genPCLm, each by the object before which it stands |
| `doc.xRef`, `doc.objCounter`, `doc.kids` | `xRefTable`, `objCounter`, `KidsString` |
| `doc.scratch`, `doc.firstStrip` | is the buffer for compressed strips there; have the white strips of the margin still to be sent |
| `doc.trailer`, `doc.ended` | the two sections of the table and the place of the table, as `writePDFGrammarTrailer` writes them |
| `doc.undefined` | the generator has used a buffer or an object that is not there: nothing is known of what follows |
| `told` | history: what the job thread said of each page: its strips, was it cut, was a message of it lost |

`DocNext` is `PclSend`'s `Next` with the work of the generator in the steps of
the send thread (`WritesPage`, `WritesSwath`, `WritesEnd`, `WritesTrailer`) and
the history in those of the job thread (`JobSide`). A page announces its images
before there are any (`ImageRefs`); the catalog and the page tree come last but
have the first numbers, and the table is cut in two by arithmetic on its index
(`GrammarTrailer`). Offsets are counted in objects and job tickets, sizes and the
compression are left out, and back sides are not turned round, since `mirrorBackside` is
false on every path.

The generators only follow: none of their steps holds up a thread or changes
what `PclSend` does, so that every behaviour of `DocSpec` is one of `PclSend`
(proved, section 13). The two invariants of the document that follow are proved
there too.

Run `PclBroken` checks the document in every interleaving, for PCLm with and
without a margin (of two strips) and for PWG: `DocumentIsSound` (`XrefIsShort`,
`ImagesAreFound`, `ReferencesLeadHome`) and `PagesArrive` (`PagesAreWhole`,
`PagesInOrder`, `StripsHavePages`). Three pages are needed to have a page before
and one after a broken one. 4.3 million states, a minute and three quarters.

Two things a reader of the file would expect are not so. The offsets of the
table are not those of the objects (`XrefIsTrue` is violated): each is short
by the job tickets before it. `XrefIsShort` says just that, so that any other
error in the table would be found; in bytes the error depends on the texts of
the tickets. And a page may refer to what is not its image: a page that was cut,
and one that is blank below a margin of white strips, have announced images that
never come, and the numbers go to the objects that are written next.
`ReferencesLeadHome` excepts these two kinds of page and no other.

## 8. A page of an image: `ImageStripes`

From `wprint_image_set_output_properties` to the last
`wprint_image_decode_stripe` of `_print_page`.

| variable | code |
|---|---|
| `page` | image file, printable area, margins, flags, front or back |
| `c` | rotation, sampling, scaled size, clipping offsets, paddings, sizes of the buffers |
| `dec` | the decoder: the swath of rows it holds, the next row of the stream, the last row that was asked for |
| `cache` | `output_cache`, rotated rows |
| `win` | `unscaled_rows`, the rows of the image that are kept for the scaler |
| `req`, `out` | the call and `rgb_pixels` |
| `sent` | rows sent so far |

The steps are those of `wprint_image_decode_stripe`: blank rows above, the
choice of the way (`Plain`, `Scaling`), the window (`Window`), rows from the
decoder upright or from the rotated cache (`Upright`, `FromCache`, `Refill`,
`Fill`, `Decode`), the scaler (`Emit`), the moves of its rows to their places,
one by one in the order that spares those still to move (`MoveRow`, `Placed`),
margins (`Sides`). A JPEG or PNG file is
a stream that can only go on or begin anew; PPM can be read anywhere; what the
operating system decodes is read in swaths of a smaller bitmap. A pixel is its
place in the image, so that a wrong, stale or missing row is seen wherever it
comes from; `Expected` says what each pixel of the page should be without
mentioning stripes, caches or decoders. The scaler is abstracted to the rows it
weighs (`SourceRows`) and the row it makes. Three things the code does to pixels
are in the model, and are named exceptions of what is expected:

* A row that is reduced from nine rows of the image (`RowsWeighed`, the choice
  among the row functions by the weights in 256ths) keeps the green and blue of
  what was in the buffer (`ScaledPixel`, `Discoloured`).
* Of an interlaced PNG each row is read once, so that what is printed is its
  first pass, blocks of eight by eight pixels (`Seen`). `Expected` takes it so.
* The scaler may make up to two rows more than the stripe has. Those of an
  image that becomes low on the page can end behind the buffer (`ScalerFits`
  is violated); what is written there is not followed. When the image on the
  page is a stripe high, more than two stripes if it is enlarged, they fit
  (`TallImagesFit`, part of `PageIsRight`): the buffer is sized by a full stripe
  then, with a row more for each reason there may be.

A page is one the code can draw (`Drawable`, assumed of `Pages`): its margins
leave something to print on; neither the image that is sampled nor what it is
scaled to is empty, and an image that is enlarged has more than one row and
column before and after (the code divides by these numbers less one); a row of the sampled image fits in `MIN_DECODE_MEM` (else
`wprint_image_compute_rows_to_cache` caches no row, and its callers divide by
that); and what the margins leave of a page to be filled is at least a stripe
high, as it is on every sheet but for margins that leave next to nothing. That
`SampleSize` is a number is stated there too: it is the greatest power of 2 that
leaves the image larger than the page, or 1, and that there is one for each image
would need induction. The run evaluates `Drawable` for each of its pages.

## 9. From settings to a page: `JobParams` and `PrintedPage`

`JobParams` has no state: its operators are the conversions a job's parameters
go through, from a printer's attributes (`Capabilities`) and a client's
settings (`UpdateJobParams`) through the C structure (`ToC`, `ToJava`) and
`wprintGetFinalJobParams` (`GetFinal`, `Borderless`, `Duplex`, `PrintableArea`)
to the page (`PageOf`). A length is a whole number of 1/254000 inch, so that
the units of the code, thousandths of an inch and hundredths of a millimetre,
are exact; the code computes with floats.

`PrintedPage` lets clients ask (`Ask`, `Resolve`), take the answer back for
settings as often as they like (`Answer`, `TakeAnswer`) and start jobs
(`StartJob`) one after another with the cached information of a printer
(`info`), and prints a page of one of the jobs (`PrintPage`, then `Draw`, the
steps of `ImageStripes`).

| run | instance | shows |
|---|---|---|
| `Render` | 4 printers (photo, office, drafts only, unusable); 237 settings; 18 files of up to 17 by 33 pixels, of all kinds of decoders, whole, interlaced, broken or mislabelled; sheets of 5 by 7 and 10 by 14 pixels; stripes of 3 rows; fronts and backs | `JobIsAsWanted`: the alignment, the full bleed, the duplex, the quality and the margins are those wanted or explained by the printer, and nothing of an earlier job is left; `PageIsRight`: every stripe pixel by pixel with the exceptions of section 8, and the scaler has its rows and room for them; good images print and bad ones end with an error; a page that is begun ends |

Two things are assumed of requests (`RequestAssumption`): margins, of printers
and of clients, are not negative (`updateJobParams` takes a negative margin of a
client for 0), and a client that names a quality names one of the three there
are. The pages of the jobs that are drawn are among `Pages` (`DrawnAssumption`).
`MarginsHonoured` asks for a printed width and height only where the margins
leave a pixel of the sheet: a client may ask for margins as
large as the sheet, and the code does not refuse them.

Bounds: the sizes of the images lie on both sides of those of the page, of
the factor 2 at which subsampling begins, and, for the images of 17 by 33
pixels, of the factor 9 at which the scaler's last row function is used; on
sheets of 10 by 14 pixels images are enlarged over several stripes; memory for decoding is set so that
each image may take one swath or several; with stripes of three rows a page
takes several with a rest. Only requests to the photo printer are drawn
(`DrawnRequests`): the other printers differ in what they grant, not in how a
page is drawn. Fairness is that of the plugin's thread (`Draw`) alone; a client
may ask for ever.

## 10. The service and its client: `PrintService`, `AndroidPrint`

`PrintService` is the process of the service; `AndroidPrint` extends it with
the adapter, in the process of the print framework.

| variable | code |
|---|---|
| `svcQ`, `jobQ`, `inbox` | queues of the main thread's handler, of the `JobHandler`, and of the adapter |
| `scan` | how far the `JobHandler` is in going through `mPendingStatus` |
| `tasks` | running `StartJobTask`s, `CancelJobTask`s, `CancelAllTask`s with a program counter each |
| `jobList`, `canceled`, `jobStatus`, `pending` | `mJobList`, `mCanceled` and `mJobStatus` of its jobs, `mPendingStatus` |
| `registered`, `isBound`, `quitPosted`, `life` | status receivers, `mIsServiceBound`, `mQuitRunnable`, what Android does with the service |
| `native` | the jobs of the library, as `Spooler` promises them |
| `fw`, `holder`, `toSend`, `toCancel`, `adapter` | the framework's jobs, `mPrintJobs`, the adapter's tasks and connection |
| `crash`, `died` | a process that has died of an uncaught exception, or was killed |

Actions: `SvcIntent`, `SvcResult` (main thread); `JobInit`, `JobExecute`,
`JobRegister`, `JobBind`, `JobExit`, `JobStatusMsg`, `JobScan`, `JobStatusEnd`
(job thread; the messages between two lookups of the job list are steps of
their own since tasks change it); `Start...`, `Cancel...` (tasks, one step for
each call into the library); `Serve`, `Begin`, `Report`, `Finish` (the library,
whose callbacks come to the `JobHandler` at any time); `Bind`, `Connected`,
`QueueJob`, `SendJob`, `RequestCancel`, `SendCancel`, `Hear`, `Destroy`,
`Unbind`, `Disconnected` (the adapter); `OtherClient`, `Die`.

Run `Service` has one job and one of a further report, a request by another
client to cancel all, and a death of the service's process. It shows
`ServiceIsSafe` (`HandlesAreLive`, `DocumentOutlivesJob`, `UnregisterIsLast`),
that a cancellation is never shown as a completion, that nothing follows a
report that a job is done, that jobs end and that slots come back. The safety
properties are proved for any number of jobs (section 13); for the liveness one
job is enough, since jobs meet only in `mJobList`, where they are looked up by
their id, and in the slots of the library, which are the subject of section 3.
Fairness is weak fairness of each thread, of the tasks, of the
library (which `EveryJobEnds` of section 4 justifies) and of the adapter; nothing is
assumed of users, of other clients, or of the system.

## 11. Monitors, requests and discovery: `PrinterMonitors`, `IppRequests`, `Discovery`

`PrinterMonitors` follows a printer's state from the adapter to the thread in
the library: `client`, `shown` (the adapter), `jobQ`, `iter` (the `JobHandler`
and its iteration over the clients), `tasks`, `lock`, `mClients`, `map` (the
tasks, `mPrinterStatusMonitorSyncObject`, the static list of clients, the map
of monitors), `mons` (handles, threads, `stop_monitor`, semaphores, references),
`printer`. `mClients` is one list for all printers, as in the code, and
changing it during an iteration kills the process (`crash`).

Run `Monitors`: two clients of one printer or of two, two monitors, one change
of a printer's state. `MonitorsAreSafe`: one thread per printer, handles freed
once and last. `ClientsAreServed`, with the types: a client on the list has a running monitor,
and as long as all follow one printer the last client stops it. `MonitorsServe`: no
task waits for ever (`TasksEnd`) and the last status of a printer arrives
(`StatusArrives`), with weak fairness of the job thread, the tasks and the
monitors' threads. `SleepSuffices` is TRUE: the task keeps the lock for half a
second so that the thread gets to run before it can be stopped; with FALSE, a
task waits for ever (the stop is lost, section 12). Two monitors
are enough for one that is being replaced and its successor, and one change of
state for a status that is overtaken.

`IppRequests` is about the threads that talk to printers: capabilities (with
the probes that determine a version), state and cancellation (under the mutex
of the printer's monitor), jobs. The answer of a printer is free: it may refuse
any version, even one it supports, and accepts only those it supports; each
retry loop has the counters of its own in the code, and
the version is one pair of globals that is written and read in two steps.

Run `Ipp`: two threads on one printer. `RequestsAreSafe`: one request at a time
on a connection, responses deleted once (but for one path, section 12);
`VersionSettles`: once a printer's capabilities are known, a version it does not
support is not taken, whatever a thread that prints or watches has written
meanwhile. It holds as long as one thread at a time asks for capabilities (in
the run only the first thread does); two that ask at once break it (section 12).
`EveryCallEnds`: each call ends, with weak fairness of the callers (each request
has a timeout), unless the printer gives one of two answers that the code does
not get over: it refuses again and again a version it supports
(`AcceptsItsVersions`; a refusal is answered with another attempt that nobody
counts), or it gives reasons for the state of a cancelled job
(`NoReasonsToRead`; the loop over them has no end). Both are in the model
(`Answers`, `Cancelled`), and the safety properties hold with them. The limits of retries are
1 and 0 for 3 and 2 in the code: enough for a retry of each kind, and for a
loop that forgets to count. There is one printer, since with two, threads can
reset the version for each other for ever: that is what the code does, and the
properties say where they end.

`Discovery` follows a printer from its answer on the network to the list the
framework shows: `requests` (the `LocalPrinterDiscoveryTask` of each discovery
with its timeout, its decay and the answers on the network), `mainQ` (the main
thread's messages), `tasks` (the `WPrintDiscovery` threads with their list,
their interrupt and their cancelled flag), `current`, `mPrinters` (the session),
`shown` (the framework). The user starts and stops discoveries at any time, and
`TrackerReports` stands for the tracking tasks, which write into `mPrinters` as
well. A packet is a sequence of services, reduced to what the parsers tell
apart: whether all its records are there, whether the plugin can print on it,
whether it names a model. An answer is lost or comes before the wait ends; one
that comes later counts as lost. A failed receive changes nothing in the code
and is a stuttering step. The messenger stays once it is bound: the death of the
service is in `AndroidPrint`.

Run `Discovery`: two discoveries, which are one that is replaced and its
successor, and a network of two hosts: one cannot be printed on, the other is a
printer whose answer also holds an incomplete service and one without a model.
One answer may be lost and any query may fail. `SessionIsTrue`: the session
holds only printers its own discovery has found, and the framework shows what
the session holds; `DiscoveryServes`: what the service has told the running
discovery is shown (`AnswerIsShown`), and a cancelled task ends, unless its
sleep took the interrupt (`StoppedEnds`); `ListeningFinds`: the task of the
service ends, and has found the printer although an answer was lost. With
`MaxSessions = 1` that holds up to `MaxLosses = 3` and no further, since the
query is sent four times while somebody listens. One address is enough, since
printers of different addresses do not meet; `busy` stands for all statuses a
tracker reports but `idle`. The fairness is weak fairness of the main thread
and of each pool thread; the framework, the trackers and the connection to the
service are free.

## 12. Findings and known behaviours

One run ends in a counterexample; its single property states what the code says
of itself.

* `LostPage`: `wprintPage` sets `last_page_seen` before it tries to queue the
  page. A last page that meets a full queue is lost, and so is the dummy page
  by which a cancel wakes the job thread. The spooler then hangs for good.

The models contain more that the code does and a maintainer should know of.
Where a definition states what one would expect, it is named; no run checks it,
and TLC finds it violated on the instance named in brackets, where one is
named. Other definitions are the exceptions that the checked properties make.

| where | what | definition |
|---|---|---|
| `lib_wprint.c:984` | `start_job` fails after the status thread was started: the job is still QUEUED while the mutex is given up for the join, a cancel reports JOB_DONE, and the job thread reports it again (`StartFails = TRUE`) | `DoneAtMostOnce` (`MCLive`) |
| `lib_wprint.c:1087`, `1162` | the result of a failed page is overwritten by the next one's: the job is completed | `CompletedIsSuccess` (`MCJobs`) |
| `ippstatus_monitor.c:267` | `_stop` is to "request a stop" (line 309), but `_start` clears `stop_monitor` in its own thread: a stop that came before is forgotten, and the job thread joins for ever (`lib_wprint.c:769`) | `StopIsHeard` (`MCLive`, as INVARIANT) |
| `lib_wprint.c:2876` | jobs queued during `wprintExit` can fill the queue, the quit message is lost, and the call joins for ever; jobs that were tossed are never reported as done | |
| `plugin_pcl.c:235` | `_stop_thread` does not look at the result of the send of MSG_END_JOB before it joins: 16 or more pages that cannot be printed, while the printer is slow, fill the queue | `EndIsSent` (`MCPclBroken`) |
| `plugin_pcl.c:298` | a failed `pthread_create` is not noticed | |
| `lib_pwg.c:454` | PWG ignores the request for a blank page: the blank back of a last front is not sent | `PagesInOrder` says so |
| `lib_pwg.c:479` | `end_job` of PWG calls a method of a generator object that is never created; `WritesTrailer` leaves open what follows | |
| `lib_pclm.c:294-315` | lib_pclm writes a job ticket before each page that the byte count of genPCLm (`genPCLm.cpp:464-493`) does not include: all offsets behind the first are too small | `XrefIsTrue` (`MCPclBroken`); `XrefIsShort` says by how much |
| `lib_pclm.c:390` | a blank PCLm page with a margin refers to white strips that are never sent | excepted in `ReferencesLeadHome` |
| `genPCLm.cpp:1009`, `1057` | a page that is cut keeps the numbers of the images that do not come: its references lead to objects of the next page | excepted in `ReferencesLeadHome` |
| `wprint_image.c:950` | an image higher than the area it fills is drawn on into the bottom margin | `MarginsAreWhite` (`MCRender`) |
| `wprint_image.c:270` | an image to fit whose subsampled height is that of the page is not scaled though it is wider: it is cut | `FitIsWhole` (`MCRender`) |
| `wprint_scaler.c:695` | `_scale_row_down_9in` writes the first byte of a pixel three times: red holds blue's value, green and blue what was in the buffer | excepted in `StripeIsRight` (`Discoloured`) |
| `wprint_png.c:87`, `175` | the passes of an interlaced PNG are set up but not read: its first pass is printed | `Seen` |
| `wprint_image.c:336-358` | the scaler "needs an EXTRA output row for MOST stripes", which the caller must anticipate (`wprint_scaler.c:290`, `458`), and never makes a single row (line 160); the buffer is sized for stripes that start at multiples of the stripe height, while those of the page start where the paddings let them: behind a stripe of white rows but one, a low image needs a row more than there is | `ScalerFits` (`MCRender`); `TallImagesFit` says when it holds |
| `wprint_scaler.c:194`, `511`, `531` | enlarging divides by a height and a width less one: images of one row or column | excepted in `Drawable` |
| `printable_area.c:73`, `113`, `135` | 8x10 is laid out as A6; 11.69 inches at 300 dpi are 3506 pixels, the floor of a float product; margins larger than the sheet wrap around | |
| `wPrintJobParams.java:200` | the orientation of an image to fit or fill is returned as automatic | `FinalSettles` says so |
| `WPrintService.java:787` | reports that come before the job is in the list are looked up one by one: RUNNING is not found, the job is added, DONE is found, and the framework refuses to complete a job it has not started | `DoneEndsJob` |
| `WPrintService.java:434`, `453`, `476` | the unbind message never reaches the `JobHandler`; a missing break; tasks are never counted, so that a service may stop while they run | |
| `wprintJNI.c:1350` | a job whose page could not be added is cancelled and ended at once; `wprintEndJob` refuses, and the slot is lost | excepted in `SlotsReturn` (`kept`) |
| `AbstractPrinterStatusMonitor.java:30`, `50` | the list of clients is shared by all printers and changed while it is iterated over: the process dies | `crash` |
| `WPrintPrinterStatusMonitor.java:64` | a status that comes between the greeting and the entry of a client is not told to it | |
| `ipphelper.c:480` | `get_PrinterState` deletes a response twice when no version can be determined | excepted in `FreedOnce` |
| `ippstatus_monitor.c:184`, `528` | reason UNKNOWN is overwritten; a loop over the reasons of the answer to Cancel-Job has no end (printers send none) | |
| `ippstatus_capabilities.c`, `ipphelper.c` | the IPP version is one pair of globals: of two threads that ask for capabilities at once, one forgets the version while the other comes back with an answer it had before, and a version the printer does not support is kept until the next request is refused | `AskedByOne` |
| `lib_wprint.c:975` | the results of `validate_job` and `start_job` are not looked at: a job the printer refuses is reported as printed | |
| `wprint_osimg.c:93` | the last swath of a subsampled bitmap is sized by the height of the file, not of the bitmap: rows that are not there are asked for, and a good GIF or BMP picture of at least twice the size of the page is refused as corrupted | excepted in `GoodImagesPrint` (`LosesLastSwath`) |
| `LocalPrinterDiscoveryTask.java:127` | an answer without a printer leaves the wait as it is, which begins again: not 8, 6, 4 and 2 seconds as the comment says (line 101), but longer as long as other hosts answer | `WaitsGetShorter` |
| `ServiceAndroidPrint.java:1141` | a discovery cancelled before the service is bound forgets the interrupt, asks all the same, and keeps a pool thread until a printer is found | excepted in `StoppedEnds` (`swallowed`) |
| `ServiceAndroidPrint.java:521` | a printer that is found again is shown as idle, whatever its tracker has reported; queues at one address replace each other | `HandleProgress` |
| `LocalPrinterDiscoveryTask.java:153` | the last query is sent when nobody listens any more; once a printer is found, one whose answer was lost is not asked again | `TimeOut` |
| `MDnsDiscovery.java:126` | a printer without a model name throws, and the printers that follow it in the packet are lost | `PrintersIn` |

## 13. Proofs

Every theorem holds for every value of the constants, but for the assumptions
it states. A component's invariant was first checked with TLC on the instance
of a run.

### The spooler: `WprintJobs_proofs`

For any table, any queue capacities, any job kinds and any printer reports, and
any number of jobs and pages.

* `TypeCorrect`: `Spec => []TypeOK`. One lemma per action.
* `SlotSafety`: `Spec => []JobKeepsItsSlot`, from `~StartFails`; run `Jobs` has it
  as a part of `ThreadsAgree`.
  `JobKeepsItsSlot` is not inductive: that no client ends the job under the
  job thread needs that the job is in an active state whenever the mutex is
  free (a QUEUED job could be cancelled, ended and its slot given away); that
  the status callback writes into the right slot needs `MonitorWatchesItsJob`;
  that the thread leaves no active job behind needs `OneJobAtATime`. The last
  conjuncts of `SlotsAreSafe` say where a job that is still QUEUED may be while
  the thread has it in hand: on short ways to its end on which the mutex is
  never given up.
* `PromiseKept`: `Spec => KeepsPromise`, from `~StartFails`: under the mapping
  `Phase`, every step is a step of `Spooler` or a stutter. It uses
  `SlotsAreSafe` and that the client of a job that is not over has not been
  told that it is.
* `FinalStays`: `Spec => FinalIsFinal`, from `~StartFails`.
* `CallbackOrder`: `Spec => []CallbacksInOrder`, from `~StartFails`.
  `CallbacksInv` says for each slot what its client has heard so far and where
  that leaves the job: a page is open exactly while the job thread is between
  the two callbacks of that page, and JOB_DONE is told with the mutex held, in
  the same step as the final state.
* `RunMessages`: `Spec => []QueuedJobWillRun`, from `~StartFails`. Handles are
  reused, so a run message is of a job only while handle and slot fit
  (`HandlesFit`); `OnlyRuns` keeps the other messages apart.
* `CleanExit`: `Spec => []ExitIsClean`, from `~StartFails`.
* `ThreadsInAgreement`: `Spec => []ThreadsAgree`, from `~StartFails`. With
  `SlotsAreSafe` it needs `StopAsked` (the status thread is joined only after it
  was told to stop, though it may have forgotten it, section 12) and of
  `PagesInv` that no page follows the last one, through all swaps of the two
  page queues.
* `CancelWakes`, `CompletedPrints`: `Spec => []CancelWakesReceiver`,
  `Spec => []CompletedPrintsAll`, from `~StartFails` and `Fits`: a client hands
  in fewer pages than a page queue holds (with more, pages are lost, as run
  `LostPage` shows). `PagesInv` is an account: the pages printed and those still
  to be received make up the copies begun; those to be received, the one in
  hand and those kept for the next copy make up one copy.

`~StartFails` is needed: without it, a job can be cancelled, ended and its slot
given away while the job thread joins the status thread (section 12).

### The message queue: `MsgQ_proofs`

For any finite set of threads, any messages and any capacity.

* `EveryMessageAccounted`: `Spec => []Accounted`, and `QueueTypeCorrect`. The
  invariant `QueueInv` is `TypeOK` with `Accounted`: the mutex has one holder,
  so one sender at most is between its write and its post, and a receiver under
  the mutex always finds a message because its own permit is counted. Each
  action changes the balance by one on both sides or not at all (`ClaimStep`,
  `PostStep`).
* `QueueIsFifo`: `Spec => KeepsFifo`. It also needs `Written`: the place
  a sender is about to post still holds its message.

### The PCL plugin and its documents: `PclDocument_proofs`

For any number of buffers, any capacity of the queue, any pages, broken or not,
and any generator. The last two theorems are about the two generators the
plugin has.

* `PluginTypeCorrect`, `NoPermitLost`: `Spec => []TypeOK`, `[]PermitsKept`. That
  the semaphore stays below the number of buffers follows from the account of
  the permits, so the two are proved together.
* `BufferHasOneOwner`: `Spec => []OneOwner`. `OneOwner` says nothing of where the
  stripes of a page are, so it is not inductive. `Ring` says it: as long as the
  page has not failed, its stripes are the last messages in the queue, and the
  d-th last one is in the buffer d places before the next one. With the permits,
  d is less than the number of buffers while the job thread has one in hand.
  `Placed` adds that no stripe is of a later page.
* `BuffersStaySafe`: `Spec => []BuffersAreSafe`. `BufferInv` says that the end
  of a page, which frees its buffers, is behind every stripe of it (`EndsLast`),
  and what the buffer in hand and those on their way hold (`Filling`, `Flying`);
  that all are blank after a cancel though the job thread clears each buffer
  once follows from the ring.
* `CallsKeepOrder`: `Spec /\ []NothingRefused => []CallsInOrder`, from
  `~Broken`. `CallInv` says which calls are still in the queue: those that
  `Follows` allows one after the other, from the call the generator got last
  to where the job thread is. A refused message breaks the chain, which is
  what run `PclBroken` is about; hence the two assumptions.
* `QueueNeverFull`: `Spec => []NothingRefused`, from `~Broken`, `LongPages` and
  `RoomyQueue`. `LongPages` says that two pages need more stripes than there are
  buffers: then the queue holds messages of three pages at most, since the
  permits bound the stripes. `RoomyQueue` (`MaxSendBuffs + 5 < QueueSize`) is
  true of the code, with 8 buffers and 16 places. A job of many shorter pages can
  fill the queue with starts and ends of pages.
* `LongPagesInOrder`: the last two together.
* `GeneratorIsPassive`: `DocSpec => Spec`. Each step of the plugin with its
  generator is a step of the plugin, whatever the language and the margins.
  `DocumentPermits`, `DocumentBuffers`, `DocumentWritesSafe` and
  `DocumentInOrder` are the theorems above through this refinement.
* `DocumentStaysSound`, `PagesDoArrive`: `DocSpec => []DocumentIsSound`,
  `DocSpec => []PagesArrive`, for any margin, any pages and strips, and with no
  assumption about the queue, which may refuse any message. Both need the same
  invariant, `SoundInv`, in three layers:
  * `OrderInv`, on what is still to be written. `Line` is the stripe in the send
    thread's hand, the queue, and the stripe the job thread will make next. In
    it, a stripe of a page that is not lost follows the start of its page or the
    stripe above it (`Behind`, `Continues`); a page of which more stripes were
    promised than are in the line is cut, or its next stripe is in the making
    (`Short`, `LastShort`); pages come in their order, each from one message
    (`Makes`). Each step of the job thread lengthens the line or leaves it
    (`Moves`, lemma `LineJob`); the send thread takes its first (`LineGiven`).
  * `DocInv`, on the document and the line together. Each page is lost, in the
    document, or in the line (`Found`); what is in the document comes before what
    is in the line (`PageGood`); the first of the line fits what was written last
    (`FrontFits`): its page is open, the stripe above it is the last image, and the
    place of the image is where the page, which was written before it, says it
    would be (`Drawn`, `Refers`); a page is complete, cut, or its next stripe is
    the first of the line (`WholeInv`).
  * `Grown`, on the numbers. Until the trailer is written each object has the
    number of its place plus two, the table lists the places, and the tree names
    the page objects by their rank (`Counted`, `KidsKnown`), and there is a
    job ticket before each page object; then the table is the one `XrefIsShort`
    asks for (`XrefMade`).

  Each call of a generator has its lemma (`CallsStartPage`, `CallsSwath`,
  `CallsEnd`, `CallsTrailer`, `CallsLost`), and `SoundFollows` draws the two
  invariants from `SoundInv`. That nothing is known of a PCLm document after a
  stripe outside of any page, and that this takes a page whose start met a full
  queue, is part of `DocInv`.

### Requests: `IppRequests_proofs`

For any threads, printers, versions they support and limits of retries. The
only assumption beyond types is that `Nobody`, the owner of a free mutex, is no
thread.

* `RequestSafety`: `Spec => []RequestsAreSafe`. `OneOnConnection` compares two
  calls and is not inductive; `CallsInv` says why it holds: a call that uses the
  connection of a monitor is the owner of the monitor's mutex. That a response
  is deleted twice only where no version was found (section 12) needs the path a
  call has taken, which `Sound` keeps for each call: only a job's call comes
  to `start`, and a probe counts one to three.
* `SettledVersion`: `Spec /\ []AskedByOne => []VersionSettles`. The version is
  one variable of the process; two threads that ask for capabilities at once can
  take each other's version (section 12), so the theorem is about behaviours in
  which one asks at a time. `VersionsInv` says what each call knows of the
  version it will set.

### Monitors: `PrinterMonitors_proofs`

For any clients, any number of monitors and of changes, and any printers, of
which there is at least one.

* `MonitorSafety`: `Spec => []MonitorsAreSafe`, whether or not the monitor's
  thread runs in time (`SleepSuffices`). A second thread for a printer would come
  from a task that did not see the monitor another task is starting or stopping:
  `OneTask` (one task is past the lock) and `InHand` (what that task has looked up
  is still so) exclude it. `Mapped` says that a monitor in the map can be used, and
  `Threads` that a thread which is alive is the map's, or a task is about to put
  it there; so a handle that is freed is in no map and in no task's hand.
* `ClientsStayServed`: `Spec => []ClientsAreServed`. `ServedInv` says that a
  client on the list has a monitor in the map (`Listed`), that a thread which was
  asked to stop was asked by a task that waits for it or has freed its handle
  (`Heard`), and that a thread without clients is about to get one or to be
  stopped (`NotLeft`).

### The client of the service: `AndroidPrint_proofs`

For any number of jobs, of documents and of reports.

* `HoldsStayGood`: `Spec => []ServiceIsSafe`. `JobsInv` says of each job in which
  one of its stages it is (with a task, in a message between the two handlers,
  in the service's list, over) and what has been told of it there; `RegInv` says
  that a client that registers and unregisters is heard in that order.
* `CancelledStaysSo`: `Spec => []CancelIsShown`.
* `DoneStays`: `Spec => DoneIsLast`. Messages and status reports that are on
  their way when a job ends belong to jobs in earlier stages, by `JobsInv`.

### Discovery: `Discovery_proofs`

For any network, any printers, any number of discoveries and of answers to older
ones.

* `SessionStaysTrue`: `Spec => []SessionIsTrue`.
* `FoundIsOnItsWay`: `Spec => []OnItsWay`, the safe part of the liveness property
  `AnswerIsShown`: a printer the running discovery has found is in the session,
  in a message to the main thread or with a task that does not wait.

### Settings and pages: `PrintedPage_proofs`

For any printers and any settings that `RequestAssumption` allows, any two
resolutions, any images and pages that are `Drawable`, stripes of any height,
and any memory for decoding.

* `WishesCarried`: `PrintedSpec => []JobIsAsWanted`. The parameters of a job are
  records that `UpdateJobParams`, `ToC`, `GetFinal`, `PrintableArea` and `ToJava`
  change field by field, so the proof first says what each of these does to each
  field (`ToCFields`, `ToJFields`, `UpdatedFields`, `FinalFields`), and then
  writes the final parameters down in closed form, in terms of the settings and
  the capabilities (`IsFinal`, and `FlagsOf` for the flags, which three
  functions add to and take from: `FullFlags`, `StartFlagsIs`).
  * A client that takes over what was returned to it has settings that say what
    the parameters say (`SecondSays`). That a second round changes nothing
    (`FinalAgain`, `FlagsAgain`) is a fact of its own about each wish: the
    nearest quality of the nearest quality is itself (`QualityAgain`), full bleed
    that was refused is not asked for again, and duplex given up for full bleed
    stays given up. The orientation is not returned where fit or fill sets the
    flag for turning, which is the exception `FinalSettles` makes (section 12).
  * What is asked of margins and wishes is read off the closed form
    (`WishesFinal`, `MarginsFinal`). Margins are rounded down to pixels one by
    one, and the sheet less the printer's margins as a whole; `Pixel` and
    `RoomLeft` are the arithmetic of that.
  * `PageInv` is the invariant: what is kept of the printer is what it reported,
    and at each stage of a job its parameters are the closed form for the
    settings of its client or for those returned to it (`SettingsOf`). A client
    may ask again with what was returned to it, as often as it likes: it gets
    the same again (`RoundsEnd`).
* `PagesComeOutRight`: `PrintedSpec => []PageIsRight`, and `GoodPagesEndWhole`:
  `PrintedSpec => []GoodImagesPrint`. The invariant of the drawing is
  `StripesInv`; each action has a lemma that it keeps it (`RequestKeeps` to
  `ReturnKeeps`).
  * It is about four things at once. The decoder holds the rows its swath is for,
    and its stream stands behind them (`DecoderInv`), so the row it returns is
    the row asked for, or a row cannot be read, or the last swath is lost
    (`DecodedIs`). The cache of a sideways image holds the rows of the file up to
    where it has been filled (`CacheInv`). The window holds rows of the turned
    image, and what is kept of it for the stripe to come does not reach beyond
    what that stripe begins and ends with (`WindowBefore`, `WindowKeeps`). The
    buffer holds the white rows, then the rows made so far, and of those the
    scaler has just made, each is either in its place or still where the scaler
    wrote it (`CallInv`, `MoveInv`).
  * The moves are the delicate part (`NotOverwritten`, `MovedRow`,
    `MoveRowKeeps`): source and destination are in one buffer, whose rows are of
    different lengths for the scaler and for the page. Rows that are spread out
    are moved from the last, rows that are pushed together from the first. When
    the scaler was made to begin a row early, it is only for a stripe of one row.
  * What the code makes of a pixel is `Made`: the one expected, but for rows
    reduced from nine, which the invariant follows as they are.
  * What `wprint_image_set_output_properties` works out is taken field by field
    (`PropertiesAre`, `PlacesAre`, `SizesAre`, `ScaledIs`, `LayoutIs`). The rows
    an output row needs are quotients, rounded down and up (`FactorsAre`,
    `RowsAre`), and grow with it (`RowsGrow`). The scaler's memory is measured
    for stripes that start at multiples of the stripe's height; a stripe that
    starts elsewhere may need two rows more, and there are (`WindowFits`,
    `RoomIs`). The buffer is sized by the rows made for the same stripes, and for
    an image that is high enough one of the first two is full and as long as any
    other (`ExtraRoom`, `MadeFit`). The provers know little of products and quotients of variables:
    `Division`, `Grows`, `PlaceIs`, `RowsApart` and a few more lemmas are all
    that is used of them.
  * A page that ends with an error is not `Printable`: `FailKeeps` is used where
    a decoder has returned no row, and the rows asked for are never beyond the
    image, so no call returns without one.
  * `PrintPage` starts it: `PageInv` says what the parameters of a started job
    are, and `DrawnAssumption` that such a page is one of `Pages`.

### Lemmas about subsequences

What is left of a sequence when entries are removed (`Subsequences`): `Rank`
counts the places below one, `Kept` lists the entries at a set of places. The
installed provers cannot expand `SelectSeq` with its test, nor use the library's
induction rules, which take operators; but a rank is a cardinality, and what is
known of finite sets and injections gives that ranks grow with places
(`RankGrows`) and that each is the rank of a place (`RankAll`), that a map which
keeps the order keeps the ranks and what is listed (`RankMap`, `KeptMap`), and
the ranks of places at even distances (`EveryOther`), which those of the images
of a page are. `PrintService` and `Discovery` remove from their lists with
`Kept`, and `PclDocument` states the order of its pages with it; the proofs of
each begin with the lemmas they need.

### Only model-checked

* All liveness: fairness and ENABLED are beyond TLAPS here.

## 14. Not modelled

* The bytes of DNS packets (`DnsParser`, the attributes of `DnsSdParser`) and the
  choice of the network interface (`WifiUtils`): pure functions of what the
  network and the system say.
* The PDF plugin beyond its results, ports (`lib/printer.c`) and the registry of
  plugins: sequential input and output.
* The compressors (JPEG, Flate, run lengths, PWG raster), colours, media tables
  and job tickets: data that no property here tells apart.
* The contents of IPP requests, and `get_printerAttributes` and `get_JobStatus`,
  which nobody calls.
* Failures to allocate memory in the image pipeline, and of `pthread_create`.
* User interface, resources, build files, test programs (`tools`) and vendored
  libraries have no logic of their own to model.

`PROJECT.json` says for each component what is modelled and what is not.
