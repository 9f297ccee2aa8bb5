# Verification of the operating system simulator

The repository simulates an operating system as four kinds of process that talk over TCP: one
`kernel`, one `cpu`, one `memoria` and any number of `entradasalida` interfaces, over a common
library `utils`. This directory holds TLA+ modules that model it, the TLC configurations that check
them, and proofs for TLAPS. Names of variables, actions and states are those of the C source
(`kernel.c` is `src/kernel/src/kernel.c`, and so on).

## 1. The system

| Part | State | Operations | Talks to |
|---|---|---|---|
| kernel, long term (`kernel.c` 710-742) | `cola_new`, `sem_hay_procesos_en_new`, `sem_multiprogramacion` | admit a process when the degree leaves a slot | the short-term scheduler, by `cola_ready` |
| kernel, short term (744-1100) | `cola_ready`, `cola_exec`, `sem_planificacion`, `sem_procesos_en_ready`, `sem_ejecutar`, the quantum semaphores | choose (`replanificar`), dispatch (`planificacion_de_procesos`), make ready (`iniciar`) | the CPU, by two connections |
| kernel, answers of the CPU (343-410, 1103-1321) | `desaloja_por_instruccion`, resources and their queues, `lista_recursos_retenidos`, `cola_exit` | I/O request, WAIT, SIGNAL, exit, FIN_INSTRUCCION | interfaces, `memoria` |
| kernel, interfaces (148-341) | `colas_block_io` | one thread per interface: END_OF_IO_* makes a process ready | `entradasalida` |
| kernel, console (131-146, 512-672) | none of its own | INICIAR_PROCESO, FINALIZAR_PROCESO, INICIAR_ and DETENER_PLANIFICACION, MULTIPROGRAMACION, PROCESO_ESTADO, EJECUTAR_SCRIPT | all of the above, through shared state |
| cpu (`cpu.c`) | `pcb_proceso`, the last interruption packet, the TLB | fetch, execute, FIN_INSTRUCCION, obey or discard an interruption; address translation | kernel (dispatch, interrupt), `memoria` |
| memoria (`memoria.c`) | scripts by pid, page tables, bitmap of frames, the memory itself | INSTRUCCION, RESIZE, MARCO, LEER, ESCRIBIR; INICIAR_ and FINALIZAR_PROCESO | one thread per client |
| entradasalida (`inout.c`) | DIALFS: bitmap, blocks, metadata files | sleep, stdin, stdout, six file operations | kernel, `memoria` |
| utils (`utils.c`) | none | packets, pcb serialization, sockets | all |

What is hard here:

* The kernel's threads share queues, lists and flags with little locking: what orders them is a set
  of counting semaphores, whose posts and waits are written far apart.
* An instruction that blocks is a conversation on three streams: the request and FIN_INSTRUCCION
  come on the dispatch connection, NO_CONTINUA_EJECUTANDO and the interruption packet go on the
  interrupt connection, the next pcb on the dispatch one.
* FINALIZAR_PROCESO reaches into every queue from the console's thread at any moment.
* In `memoria` the threads of the kernel and of the CPU change the bitmap of frames with no lock.
* Under RR and VRR two more threads per dispatch, a timer and a stopwatch, talk with the one that
  attends the CPU through seven semaphores and three flags, and cancel each other.
* The CPU's TLB is never invalidated, and interfaces keep physical addresses while they work.
* DIALFS keeps its state in three kinds of file, moves files over each other when it compacts, and
  rebuilds its state from what a killed process left.

What makes each component correct: a process is in one place and none is lost; the semaphores count
what they guard; the degree of multiprogramming, the scheduler's token and the instances of
resources are conserved; what the CPU asks for and what an interface answers is charged to the right
process; contexts survive; stopping the scheduler stops it; every process that can go on does. For
`memoria` and the MMU: page tables, bitmap and TLB agree, and no access reaches a page of another
process. For DIALFS: blocks, bitmap and metadata are files by name, before and after a restart.
The `hazards` of `PROJECT.json` list, line by line, where this can go wrong.

## 2. The modules

| Module | Models | Notes |
|---|---|---|
| `Canales` | the connections, the scripts, an interface as it is seen from the kernel | extended by both ends |
| `Kernel` | `kernel.c` under FIFO | its threads as program counters |
| `Cpu` | the four threads of `cpu.c` | |
| `Sistema` | the composition, the properties, fairness | `EXTENDS Kernel, Cpu` |
| `SistemaMC` | scripts and constants for TLC | `EXTENDS Refinamiento` |
| `Planificador` | what the system promises under FIFO: one processor, queues, instructions that take effect at once | implemented by `Sistema` |
| `Refinamiento` | the refinement mapping | `EXTENDS Sistema` |
| `SistemaProofs` | proofs of the type invariant, and about the instances of resources, the tokens of `sem_planificacion`, the queues of interfaces and resources and the semaphores that count queues | `EXTENDS Sistema` |
| `DespachoProofs` | proofs about dispatch, FIN_INSTRUCCION and interruption | `EXTENDS SistemaProofs` |
| `LugaresProofs` | proofs about where each process is, what `lista_estados` says of it and the degree of multiprogramming | `EXTENDS DespachoProofs` |
| `RefinamientoProofs` | proof that `Sistema` implements `Planificador`, and that no null pointer is followed | `EXTENDS LugaresProofs, Refinamiento` |
| `Quantum` | RR and VRR: `recibir_respuesta_cpu`, `planificacion_de_procesos`, its timer and stopwatch threads, the CPU | a module of its own; see below |
| `QuantumProofs` | proofs about it | `EXTENDS Quantum` |
| `Memoria` | scripts, page tables and bitmap of `memoria.c`, its CPU and kernel threads | kernel and CPU are its environment |
| `Mmu` | translation, TLB and the instructions that name an address; MARCO, LEER, ESCRIBIR | `EXTENDS Memoria` |
| `MemoriaProofs` | proofs about both | `EXTENDS Mmu` |
| `Dialfs` | a DIALFS interface, step by step on disk | |
| `DialfsMC` | the symmetry of names for TLC | `EXTENDS Dialfs` |
| `Archivos` | what DIALFS promises: files by name | implemented by `Dialfs` |
| `DialfsProofs` | proofs of the invariants of DIALFS | `EXTENDS Dialfs` |
| `ArchivosProofs` | proof that `Dialfs` implements `Archivos` | `EXTENDS DialfsProofs` |

### Kernel and Cpu

`pc[t]` is where each thread of the kernel is: `consola`, `nuevos`
(`administrar_procesos_new`) and `escucha` (`recibir_respuesta_cpu`). `planificacion_de_procesos`
(`Despacha`) and the thread of each interface (`FinIO`) do one thing per iteration and need no
counter. An action runs from one place where the thread can be interrupted in a way that matters
to the next: a wait on a semaphore, a message received, or a point where another thread acts on
what was just read, sent or written. So:

* `wait` is `PideWait` (up to the unlock of the resource) and `EvaluaWait` (which reads
  `instancias_recurso` again without the mutex); `signal` is `PideSignal` or `Libera`, then
  `EvaluaSignal`.
* an I/O request is `PideIO` (the process enters the interface's queue), `EnviaIO` (the token of
  `sem_planificacion` is taken and returned, the request is sent) and `MarcaBlock` (the state is
  written, the interruption sent).
* `replanificar` is `Replanifica` (takes the token) and `Elige` (waits for a ready process, chooses
  it, gives the token back).
* `exit_prima` is a loop of `Libera`/`LiberaEvalua` over the retained instances, then `SaleEscucha`
  or `SaleConsola`.
* FINALIZAR_PROCESO is one action per state of the process; `++` of `instancias_recurso` outside
  the mutex is a load (`FinalizaRecurso`) and a store (`SumaInstancia`).

`Iniciar` is `iniciar` under FIFO and the same four statements inside `administrar_procesos_new`.
`CargaPcb` is `cargar_pcb` into the head of `cola_exec` followed by the `queue_clean`/`queue_push`
of `atender_solicitud_cpu`. `caido` records that a null or wild pointer was dereferenced; after that
nothing happens, because the CPU and the kernel end with it (`Caido` stutters, so TLC does not
call it a deadlock).

Data is abstract: a script is a sequence of instructions of seven kinds (`Operaciones`), the program
counter the position in it, so a jump is unrolled; a resource or interface is a model value. A
connection is a sequence. `retenidos` is `lista_recursos_retenidos` with the order of insertion in
the field `n`, because `list_find` takes the first match. `ioFin` keeps the pid of the request that
was served: the real message carries none, and only `IOEnOrden` looks at it.

Undefined behaviour is a choice. The comparison of the string freed by `cambiar_estado`
(`SaleConsola`) may go either way; the string `motivo` freed twice kills the kernel or does not
(`PideDesconocido`). An uninitialised `pcb_buscado` is taken to kill it (`FinalizaPerdido`).
Simplifications: a push or pop of a commons queue is atomic; `EvaluaWait` sends the interruption and
writes the state in one step; a pid typed at the console exists.

### Planificador and Refinamiento

`Planificador` has no threads, semaphores, messages, interruptions, states or contexts: queues of
processes, the set of those inside, the one with the processor, the instances of each resource and
who has them. A process executes one instruction of its script per step, and a SIGNAL, or a process
that ends, hands the instance to the first one that waits. Only an end takes several
steps, one per instance returned (`saliendo`): admissions and ends of I/O may come in between.

The mapping says what of a half-done instruction counts. It is done (`Atendidas`) once the kernel
attended to its packet, WAIT and SIGNAL up to the end of their second half; the one the CPU has
already executed and the kernel has not seen does not count. Instances left are those once the
thread between changing `instancias_recurso` and changing the queue has changed the queue too
(`Saldadas`), and none when negative (`Libres`). `lista_recursos_retenidos` records a waiting process
as a holder, which `Tenencias` takes off. `cola_exec` keeps the pcb of a process that left;
`EnCpu` says until when it counts as having the processor: `desaloja`, which `escucha` writes when
it sees that the process must leave, is what ends it, save that a process that ends keeps it
until `exit_prima` is over. A process is inside (`dentro`) from the step that takes it out of
`cola_new`, not from the wait for its slot.

### Memoria

`hc` and `hk` are the threads of the CPU's and the kernel's connection, each inside one request or
waiting. `bitarray_set_bit` and `bitarray_clean_bit` load a byte and store it: `AmpliaCarga` and
`AmpliaMarca`, `ReduceQuita` and `ReduceDesmarca`, `LiberaPagina` and `LiberaMarco` are those two
halves, `byte` what was loaded, `Byte(j)` the frames that share it; the test of a bit before it is
set is a step of its own (`AmpliaBusca`). `Guarda` is the store, and the auxiliary `pisado` remembers
whether one ever overwrote what the other thread had changed in the byte since the load. A script
whose file does not exist makes `fgets` read a null pointer, which kills memoria or not
(`EjecutarScript`, `memoria.c` 261-267). `Responde`
comes before `Ajusta`: the answer leaves before `cant_paginas` changes. `Ajusta` on a table the
other thread has freed kills memoria or is unseen, and registers the table again
(`dictionary_put`, 620 and 629). Sizes are in pages, already rounded up. Of the clients: the
kernel sends its requests and does not wait; the CPU runs any live process and waits for every
answer, and a process is only ended between two of its own instructions.

### Mmu

`NextMmu` is `Memoria`'s next-state relation (`Memoriza`) plus the instructions that translate an
address and the accesses they ask for (`Accede`). The TLB is the list `tablas_tlb` with its initial
entries of pid 0; `reemplazar_en_tlb` is the same function for FIFO and LRU. MARCO is answered in
the step of the instruction: nothing another thread of memoria does changes its answer for that
process. LEER and ESCRIBIR are one step for each page (`AccedePagina`): `acceso` is the access that
holds `sem_mutex_memoria`, with its process, the frame and page it has got to and the pages it still
has to go over; the thread of the kernel and the CPU's other process go on meanwhile when it is an
interface's. `Sigue` is the search for the next page by the frame of this one. `contenido` keeps for
each frame the page it was last written for, which tells one process's data from another's.

A page that is not there makes the CPU send DENIED_ACCESS (`Niega`), and each instruction goes on in
its own way: MOV_OUT ends, MOV_IN frees the literal "ERROR" (`cpu.c` 565, 598), which kills the CPU
(`cpuPerdida`), COPY_STRING reads and writes at the address -1, which is in frame 0 (`MarcoDe`), and
the I/O instructions send that address to the interface, which writes frame 0 later (`PideIO`,
`IOEscribe`). `negados` are the processes it happened to. `cpuPerdida` also stands for what
`verificar_limite_memoria` causes, which answers OUT_OF_MEMORY and lets the access answer again:
the CPU takes every later answer for another. A process in the queue of an interface goes on when it
was attended to; one that was denied an access is ended at any moment, also with a request there.
`achicados` is an auxiliary variable: it records who gave up pages and no action reads it.

### Dialfs and Archivos

`meta` is the metadata files on disk, `lista` is `lista_archivos`, `bitmap` the bits that are 1,
`datos` the file of blocks byte by byte. `op` is the request the interface attends and `paso` how far
it is: a step is what the code does between two writes to different files, because a kill there is
what a restart can tell apart. `Reinicia` is the kill and `iniciar_file_system`: `readdir` gives the
files in any order, and bits are set for what the metadata says, never cleared. The mapped files
survive a kill of the process with or without `msync`; a crash of the machine is not modelled.
`fopen` empties a metadata file and `config_save` fills it again, also at 318, 345, 834 and 860:
`QuedaVacio` is a kill in between, after which `obtener_archivos` dereferences a key the file does not
have (575) at every start (`paso = "inservible"`).
`paso = "mudo"` is IO_FS_CREATE with no free block, which is never answered, and `paso = "caida"` an
interface that died: IO_FS_WRITE when memoria answers with a message instead of bytes leaves `lista`
uninitialised (171-177) and dereferences it (884), `EscribeSinRespuesta`.

`Archivos` has no blocks. It keeps the whole request, its operation, name, size or length and
pointer (`pedido`), and whether it took effect (`hecho`): the operation that was asked for takes effect
with those numbers once, before its answer or with it, a request is answered without effect only
when there is nothing to do or no room (`Rechazar`), and a restart may only change the file of the
request that was cut, if it was one that writes. `Perder` is the interface that cannot start again. The
refinement mapping takes `op` for `pedido` and says with `Hecho` at which steps the effect can be
seen and the answer is still to be sent; `ArchivosVistos` says where a file is while the disk is halfway: one that is shrunk has its
new size from the first write, one that is enlarged from the last, one that is deleted exists until
its data is cleared, one that is moved is where its data is, and the one that compaction took out is
`copia`. Every invariant is stated between two requests, `CompactaHaciaAbajo` during a compaction:
it is why its loop ends.

`SinCorte` lists the steps at which the process is not killed: those of a compaction, in which a
file is only in `datos_archivo_truncado`, or on another's blocks, and the one between the bitmap
and the size of an enlargement, whose blocks stay marked for ever. The guard of `Reinicia` that uses it
is not in the code: it says for which kills the properties are stated, and the code does lose files
after the others. `LeeFuera = FALSE` keeps
IO_FS_READ inside the file: the code, unlike for IO_FS_WRITE, does not look at the size, and it
sends what follows. `Ausentes = {}` keeps requests for missing names to `archivo_ausente`.

### Quantum

`pc` has the thread that attends the CPU (`escucha`), the one that dispatches (`despacho`) and the
two it creates each time: `q` (`habilitacion_quantum`) and `p` (`habilitacion_instruccion`). A step
goes from one wait to the next, and stops as well wherever another thread reads or writes the flags
without a lock: between a post and the flag written after it (`AvisaEspera`), between the test of
`desaloja_por_instruccion` and `fin_por_quantum = true` (`Decide`, `EnciendeFin`), before the send of
the interruption (`PideDesalojo`), and at each test of `termino_sleep` (`PausaCronometro`,
`MiraSleep`, `OtraVuelta`). The semaphores keep their names; `sem` is the function of their values.
The CPU is reduced to the packets it sends, in the order and with the interruption rule of `Cpu`.

Two things go wrong in this protocol, and the model has both. The history variables `perdida` and
`cruce`, which no action reads, say when:

* `perdida`: `lista_interrupt` is overwritten (`cpu.c` 138-145) by the interruption of a quantum
  while the CPU still had another to attend to. `Despierta` may come at any moment, also before the
  hand-over of the CPU is done: VRR stores what was left of a quantum (859), as short as it may be.
* `cruce`: the timer reads `desaloja_por_instruccion` (785-786), an instruction raises it (1140) and
  reads `fin_por_quantum` (1144) still false, and then the timer raises that (`EnciendeFin`); or the
  stopwatch takes the process out (`Corta`) when the timer has raised it. Each one then acts as if
  the process were its own: the instruction waits for a stopwatch the timer has cancelled and the
  timer for an instruction that does not end, or, with a post of `sem_pausa_conteo_quantum` left
  from before, both go on and the late QUANTUM packet replaces the instruction's interruption, which
  is `perdida` again.

Every property of the run is stated until the first of them (`SinCruces`). With `perdida` alone left
out of it TLC finds all of them but `TypeOK` violated: the CPU given twice, a packet of a process
that is not in `cola_exec`, a process in two queues, waits that nobody ends. With `cruce` alone left
out it finds `VerificaRespondida` and `ContextoViene` violated.

Simplifications: time is not measured, so RR and VRR differ only in the queues; both cancellations
are a step of the thread that cancels and take effect at the next wait, or at the send of the
timer, and not at the writes of the log, which are cancellation points too; a thread cancelled too
late ends before the next dispatch (`Despacha`); one resource of one instance, whose holder alone
signals it; `EnviaIO` takes and returns the token at once; the first process has been chosen at
`Init`.

## 3. Runs

Instances are given in the `.cfg` files; scripts in `SistemaMC` follow those under
`memoria/scripts_memoria` (I/O bound, CPU bound, the LOCK family of the deadlock test).

| Run | Instance | Shows |
|---|---|---|
| `planificacion` | 3 processes, degree 2, one interface, 2 resources of one instance taken in opposite orders, 3 commands among start, stop and degree | the whole FIFO system without FINALIZAR_PROCESO; it implements `Planificador` |
| `recursos` | 3 processes, 2 resources of one instance, the LOCK scripts and four that make a wrong request | WAIT/SIGNAL/exit, circular wait and error paths included |
| `finalizar` | 2 processes, 3 commands among start, stop and kill | what a kill cannot break |
| `progreso` | 3 processes, resources asked for in one order, 3 commands among start and stop | every process ends while planning stays started; DETENER_PLANIFICACION comes back |
| `memoria` | 2 processes, 2 frames, sizes 0..2, 3 RESIZE, accesses over 1 or 2 pages, a TLB of 2 entries under LRU, one process may end | tables and bitmap of the processes that live agree; the TLB follows the tables; who may write in whose pages |
| `dialfs` | 3 names, 8 blocks of 2 bytes, sizes 0, 3 and 7, one restart | blocks, bitmap and metadata implement files by name |
| `quantum` | 2 processes under VRR, every kind of instruction, one of them with I/O, one resource | until `SinCruces` fails: one CPU, one place per process, every wait for the timer is answered |

* The invariants of `planificacion` are the queues (`EnUnSoloLugar`), the counts (`GradoConservado`,
  `SemaforosCuentan`), the dispatch and interrupt protocol (`UnSoloDespacho`, `PaqueteDelEjecutado`,
  `InterrupcionDelEjecutado`), data carried across it (`ContextoConservado`, `IOEnOrden`) and that no
  null pointer is followed (`NoCae`). `Implementa` is the refinement of `Planificador`; every action
  of it is taken, a SIGNAL and an end with and without a process that waits among them. Rejected
  requests are not in this run, because they do lead to a bad pointer; the theorem covers them.
* `finalizar` keeps what a kill does not break: the tokens of `sem_planificacion`
  (`TokensPlanificacion`), the order of the interfaces and the contexts.
* `recursos` covers unknown interfaces and resources, a SIGNAL of what is not held, and an I/O on an
  address that is not mapped, each of them combined with the LOCK scripts. `ExitFinal` leaves out
  the process whose last instruction was that I/O: it does come back. The CPU sends DENIED_ACCESS
  and then the request itself, and the kernel, which already sent the process to EXIT, puts it in
  the interface's queue.
* `SinMarcoCompartido` and `MarcadosOcupados` are about the processes that have not ended, with
  growths, shrinks and ends on the two threads at once, until a store undoes the other thread's
  (`~pisado`): the mark the thread of the CPU sets (`memoria.c` 653) and the one the thread of the
  kernel clears (418) load and store the same byte, and after a lost update a frame may be in two
  tables. `PaginasCompletas` is stated always.
* `TlbVigente` holds for a process that never gave up a page, whoever else ends. `SoloSusEscrituras`
  says who may write in a page of a process that lives: that process, or one that gave up pages,
  whose entries of the TLB outlive them, or one that was denied an access, which writes frame 0.
  Without any of these exceptions TLC finds it violated. It ties TLB, tables, interfaces and the
  search by frame of an access over several pages together.
* `dialfs`: `SinSolapamiento`, `BitmapExacto` and `LibresEnCero` are what the next request relies
  on; `Implementa` is the refinement; `CompactaHaciaAbajo` the measure of the compaction.
* `quantum`: `UnLugar` and `UnDespacho` are the invariants of the scheduler, `PaqueteDelEjecutado`
  the one of the dispatch connection, `VerificaRespondida` and `ContextoViene` say of two waits
  between the timer and the thread that attends the CPU that what ends them has happened or is on
  its way. Nothing is said of the waits on `sem_pausa_conteo_quantum`, one of which may last for
  ever ("Other behaviours").

Bounds: `MaxPid` processes, `MaxComandos` commands besides INICIAR_PROCESO, `MaxRetenidos`
entries of the list of holders (as many as the scripts can ask for inside the degree, so it is never
what stops a WAIT), `MaxResize`. Three processes with a degree of 2 give every queue a moment with
two processes, and one process in NEW while two are inside; with two resources of one instance each
the LOCK scripts reach the circular wait; three commands allow start, stop, start at any moments. In
`memoria` two frames make OUT_OF_MEMORY happen at every point of a growth, share a byte, as up to
eight do in the program, and are handed from one process to the other, whose pages the TLB still
holds; accesses of up to `MaxTramo` = 2 pages go on once. FIFO gives the same results, and so do
three processes and three frames in `Memoria` alone. In `dialfs` three files of
1, 2 and 4 blocks fill the disk, so enlarging needs no compaction, one with any subset of the others
moving, or fails; two bytes a block leave one that ends in the middle. The names are symmetric
(`Simetria`): they are only compared for equality, no property names one, and the order of `lista`
is part of the state. In `quantum` two processes suffice for each queue to hold the one that is not
in execution and for both to be out of it; `MaxCuenta` bounds a semaphore at 2, enough for the stale
post of a cancelled stopwatch next to a fresh one; `ConIO` keeps the second process from I/O, for
time: with I/O in both, and with RR, the results are the same. Its `CONSTRAINT SinCruces` does not
explore what follows a crossing, where every property but `TypeOK` is true by its antecedent: the
two variables are never lowered.
`CHECK_DEADLOCK FALSE` is given where the
system may stop for ever by itself: DETENER_PLANIFICACION or MULTIPROGRAMACION may block the console
(`planificacion`, `progreso`, `finalizar`), FINALIZAR_PROCESO of a process in I/O does, memoria may
leave the CPU without an answer, IO_FS_CREATE on a full disk is not answered (`dialfs`), and
`quantum` stops when all ended, at a crossing or as told under "Other behaviours". In `recursos` PROCESO_ESTADO keeps the console alive.

### What the source says and the code does not do

Each of these runs checks one property taken from a comment of the source, and TLC finds a
behaviour that contradicts it; `findings` quotes the comment.

| Run | Property | What happens |
|---|---|---|
| `grado_finalizar` | `GradoSegunColas` | killing a READY or EXEC process frees two slots, killing one in NEW frees one it never had |
| `cola_vacia` | `NoSacaDeColaVacia` | the killed process leaves its queue but not the semaphore that counts it; the scheduler pops null |
| `instruccion_en_curso` | `InstruccionAtendida` | the killed process leaves `cola_exec` before its instruction ends; the request finds no pcb |
| `bloqueo_tardio` | `BloqueadoEnCola` | the interface answers before the state is written; a ready process is marked BLOCK - IO |
| `archivo_ausente` | `SoloElPedido` | a request for a missing name works on the last file of the list: IO_FS_DELETE clears its blocks and drops it |

### Other behaviours

The models contain them and no property of the runs speaks of them, because no text of the
repository says the contrary or because a run's hypothesis leaves them out:

* `reducir_proceso` removes the pages `cant_paginas`, `cant_paginas - 1`, ..., one too high: the
  last one stays mapped and its frame marked (`PaginaQuitada`). RESIZE to the current number of
  pages is not answered (`callado`). The TLB keeps the entries of removed pages.
* A process that ends between the answer to RESIZE and the change of `cant_paginas` leaves frames
  occupied (`Responde`, `Ajusta`); a fetch for a script that is not loaded is not answered if
  another one is (`Instruccion`).
* A quantum that ends before the CPU attended the interruption of the process before, and one that
  ends while an instruction takes the process out: `perdida` and `cruce` (see `Quantum` above).
* `recibir_respuesta_cpu` waits for ever for `sem_pausa_conteo_quantum` when the quantum ends after
  it posted `termino_la_instruccion` and before it sets `esperar_fin_instruccion`, or after it set
  `desaloja_por_instruccion` and before the stopwatch wakes up: the timer cancels the only thread
  that would answer. A post of `termino_la_instruccion` left over stops the next stopwatch at once.
* `replanificar` under VRR chooses which semaphore to wait for before anything is ready: with READY
  and READY+ empty after an EXIT it waits for READY, while what is blocked wakes up into READY+.
* A SIGNAL that wakes nobody posts no `sem_esperar_instruccion`: the stopwatch stays stopped, and the
  next request of the process waits until its quantum ends (`SueltaRecurso`, `PideDesalojo`).

### Fairness

`SpecJusta` asks weak fairness of each thread of the kernel, of the CPU and of each interface
(`Justicia`): they are POSIX threads and processes that nothing stops but their semaphores and
connections, and once one of these is available no other thread takes it away for ever in the
instances checked, so strong fairness is not needed. The user owes nothing: the console is only
fair in the middle of a command (`Detiene`, `RestaGrado`). `TodosTerminan` therefore promises nothing
once planning is stopped (`saldoPlani <= 0`, the INICIAR_ minus the DETENER_PLANIFICACION given),
and `DetenerResponde` allows that planning never was started.

## 4. Proofs

All of them hold for every value of the constants that satisfies the assumptions of `Canales`,
`Kernel`, `Memoria`, `Mmu`, `Dialfs` and `Quantum` (`MaxPid` positive, `Nada` neither a resource nor an
interface, scripts are sequences of instructions, instances, degree, frames and sizes natural, and
so on): any number of processes, interfaces, resources, instances and frames, any disk and any
files. None depends on fairness. Every
invariant below was checked with TLC on the instances of the runs before it was proved.

Some theorems have a hypothesis on what is asked of the system, which the theorem states:

* `"FINALIZAR_PROCESO" \notin Comandos`. The kill takes pcbs out of queues without their semaphores,
  out of `cola_exec` under the CPU, and updates `instancias_recurso` in two steps. The runs
  `cola_vacia`, `instruccion_en_curso` and `grado_finalizar` show what breaks.
* `SinDenegar`: no I/O names an address that is not mapped. After such a request the CPU sends two
  packets, the process is ended and then blocked, and gives its slot back twice.
* `ScriptsSanos`: `SinDenegar`, known interfaces and resources, and no more SIGNALs than WAITs of a
  resource at any point of a script. `ScriptsMixtos`, `ScriptsLock` and `ScriptsOrdenados` of the runs
  are sound; the wrong requests of `ScriptsErroneos` do make the kernel follow a bad pointer.
* `Ausentes = {}`: no request for a file that does not exist. The run `archivo_ausente` shows what one
  does.
* `Compactando \cup {"ampliar"} \subseteq SinCorte`: no kill in the middle of a compaction, nor between
  the bitmap and the size of an enlargement; at every other step a restart may come. These are the
  steps after which the code cannot recover what it had (see `Dialfs` above). A kill while a metadata
  file is empty is counted everywhere: the theorems say that the interface is then lost, and no more.
* `~LeeFuera`: no IO_FS_READ past the end of its file, for the refinement of `Archivos` only; the
  invariants of the disk hold without it.
* `SinCruces`, in the quantum protocol: no interruption has been lost and no end of a quantum has
  crossed an instruction (see `Quantum` above). It is the antecedent of each property, about the
  behaviour so far, and not an assumption on the length of a quantum or the order of the threads.

### Kernel and CPU

Each module adds its part to the inductive invariant of the one before.

* `TipoCorrecto` (`SistemaProofs`): `Spec => []TypeOK`. The type invariant is inductive as it
  stands, because it includes `LocalesOK`: where a thread is says what its locals hold, which is
  what makes `estado` and `instancias` be written at a real pid and a real resource. One lemma per
  action, grouped as the disjuncts of `Next`; lemmas on `Sin`, `Tail` and `Append` give the types
  of queues.
* `InstanciasConservadas` (`SistemaProofs`): without FINALIZAR_PROCESO,
  `Spec => []ConservaInstancias`. The inductive invariant adds `Sitios` (which thread can be at
  which place: the console never reaches the release or the sum) and that `retenidos` is finite.
  With the kill, `SumaInstancia` stores a value loaded before, and with three processes the update
  of another thread between the two is lost.
* `TokensConservados` and `DetenidaNadieEntra` (`SistemaProofs`), the kill included: the inductive
  invariant is `TypeOK /\ TokensPlanificacion`. Most actions are `Ajeno`: they move no thread in or
  out of `elige` and leave the semaphore and the balance alone. `Replanifica`, `Elige`, `Detiene` and
  `IniciarPlanificacion` are the others, by the cardinality of the set of threads that choose.
  `DetenidaNoElige` follows: a thread in `elige` would make the balance positive.
* `IOEnOrdenSiempre` (`SistemaProofs`), the kill included: `TypeOK /\ IOEnOrden` is inductive once
  `IOEnOrden` is read as an equation between sequences, answers followed by requests followed by
  the one being sent on one side, `colas_block_io` on the other. What the proof needs is how `Tail`
  and `Append` commute with concatenation.
* `SemaforosCuentanSiempre`, `ColaVaciaNunca`, `NegativasEnColaSiempre` (`SistemaProofs`): with
  `SinFinalizar`, the places the console and `nuevos` can be at, the two semaphores are lengths; a
  resource's negative instances are its queue and the thread between the subtraction and the push
  (`InvColas`).
* `UnSoloDespachoSiempre`, `PaqueteDelEjecutadoSiempre`, `InterrupcionDelEjecutadoSiempre`,
  `ContextoConservadoSiempre` (`DespachoProofs`): one invariant, `InvDespacho`, gives the four. It
  says whose turn it is, in seven cases (`Inicial`, `Elegir`, `Elegido`, `EnCamino`, `Ejecutando`,
  `Respondiendo`, `Siguiendo`), and what the connections, the flags, `cola_exec` and the pcbs hold
  in each; the proof is which turn each action leads to. The CPU may be on its way out of a process
  (`CpuSale`) while the next one is chosen and sent, so that is a condition of four of the turns and
  not a turn of its own. `SoloUnaVez` says that only one of `nuevos` and `escucha` ever starts.
* `EsperaAnotadaSiempre`, `ExitSinRecursosSiempre`, `ExitFinalSiempre` (`LugaresProofs`):
  `InvLugares` adds `Mensajes` (how many packets an instruction can have left on the dispatch
  connection) and `Ubicados`: the queues of the kernel are one family (`Colas`), no process is in
  two of them or twice in one, and a process that has been created is in one of them, or it is the
  one that the CPU runs or `escucha` attends to (`Marchan`), or it ended. The lemmas on families of
  queues (`Unico`, `Pone`, `Saca`) carry every push and pop. A stale read of `estado` would have to
  be of a process in two places.
* `EnUnSoloLugarSiempre`, `GradoConservadoSiempre` (`LugaresProofs`): every step is one of five kinds
  (`Movimiento`): it moves no process, moves one that has a slot to a state that has one, admits,
  ends or creates one, and the semaphore changes accordingly; the sum follows by cardinality.
  `Saliente` says that the process being ended has not ended before, `ExitOK` that `cola_exit` has
  those that did.
* `ImplementaSiempre` (`RefinamientoProofs`): `Spec => Implementa`, without the kill and denied I/O.
  Besides the invariants above it needs `PaqueteFiel`: what `escucha` attends to is what the CPU
  executed last. Then one lemma per action: most leave the abstract state as it is (`Invisible`),
  because they move no process and the turns of `InvDespacho` say that the one in `cola_exec` keeps
  the processor; the others are one abstract action each (the lemmas named `...Ideal`).
  `SignalIdeal` and `LiberaEvaluaIdeal` share `SueltaIdeal`, where an instance returned in two halves
  of the code becomes one step that hands it to the head of the queue: `NegativasEnCola` says that
  there is such a head exactly when the code looks for one, and `EsperaAnotada` that it is recorded
  already, so that the record of who holds what changes as in the abstract step.
* `NoCaeNunca` (`RefinamientoProofs`): for each place where the code follows a pointer that may be null,
  an invariant says it is not: a pop of `cola_new` or `cola_ready` by `SemaforosCuentan`, the head
  of `cola_exec` by the turns, a pop of an interface's queue by `IOEnOrden`, of a resource's queue by
  `NegativasEnCola`. The search in `lista_recursos_retenidos` needs a new one, `Saldo`: a process
  that is not ending holds of each resource its WAITs less its SIGNALs so far, and `PaqueteFiel` says how
  far "so far" is.

### memoria and MMU

* `MemoriaTipoCorrecto`, `PaginasCompletasSiempre`, `SinMarcoCompartidoSiempre`,
  `MarcadosOcupadosSiempre` (`MemoriaProofs`): the inductive invariant has three parts. `Control`
  says what each thread is doing and what its clients still owe it (a process that ended or was told
  OUT_OF_MEMORY asks for nothing). `Hojas` says which pages exist in the middle of a RESIZE
  (`PaginasEnCurso`). `Reparto` says that tables and bitmap agree, the tables of processes that have
  ended included up to the page the thread of the kernel has given back (`Devuelta`); it needs
  `MarcoEnMano`, the frame each thread carries to the store of the byte. The last two theorems have
  `~pisado` in the property itself: a store that undoes the other thread's ends what they claim.
* `MemoriaBajoMmu`, `TlbVigenteSiempre`: the same parts are invariant under the instructions that
  translate addresses, and `Vigente` says that an entry of the TLB, of a process that gave up no
  page, is in its table. The lemma on `reemplazar_en_tlb` is for any size and both algorithms.
* `SoloSusEscriturasSiempre`: an action property, isolation of memory. `IoVigente` and
  `AccesoVigente` say that the frame an interface holds, or an access has got to, is the one of its
  page, for a process that neither gave up pages nor was denied an access; the lemma `SiguienteEs`,
  that the search by frame finds the next page of the same process, needs `SinMarcoCompartido`.

### Quantum

`QuantumProofs` proves the six properties of the run `quantum` from one inductive invariant
(`InvSiempre`: `Spec => [](SinCruces => Inv)`), for any number of processes, RR and VRR, any
instructions, quanta of any length and any bound `MaxCuenta` of the semaphores that leaves room for
the initial count of READY. A step only raises `perdida` and `cruce` (`CrucesQuedan`), so the step of
the induction may assume `SinCruces'`: that is what rules out `EnciendeFin` and `Corta` at a crossing
and the QUANTUM packet that replaces another. The parts of `Inv`, checked with TLC on the instance
of the run before, are:

* `Turno`: one of five says whose turn it is (`PorDespachar`, `EnCamino`, `Ocupa`, `Escoge`,
  `PorQuantum`), and each fixes what the dispatch and interrupt connections, the answers of the CPU,
  its phase and the interruption it keeps are. Only in the first is `sem_ejecutar` posted, which is
  `UnDespacho`. The CPU on its way out of the process before (`CpuSale`) is a condition of three of
  the turns. A timer may evict the process it dispatched before the CPU has taken it over, as long as
  the interruption of the one before is not replaced (`QuantumAntes`). When an instruction has asked for the process to leave (`Pedida`) and when the timer has
  (`PorQuantum`, `Evicta`), the order in which the two packets of the interrupt connection come is
  what decides; the cases are listed, and each is shown to end with the interruption of that process
  as the last one, `ContextoViene`.
* `Tiempo`: `fin_por_quantum` is true exactly between the two writes of the timer, and a stopwatch
  that told the timer of the instruction (`replanifico`) did so when the timer had not raised it.
* `Acuerdo`: the handshake of `sem_desalojo_quantum` and `sem_verificar_desalojo_quantum` between the
  timer and the instruction that leaves the CPU, from which `VerificaRespondida` follows. The
  instruction writes `desaloja` before it reads `fin`, and the timer looks at `desaloja` again once
  `sem_desalojo_quantum` is posted, so each knows of the other.
* `Lugares`, on top of these, counts the queues of a process: none while it is in hand (`EnMano`, said
  by the points of the threads and two semaphores only) and one otherwise. An invariant on counts
  needs no case for who pushed first; `VecesUnidas`, how often a process is in a concatenation, is
  the lemma all pushes and pops use. `UnLugarSiempre` follows.

### DIALFS

* `TypeOKSiempre`, `SinSolapamientoSiempre`, `BitmapExactoSiempre`, `LibresEnCeroSiempre`,
  `CompactaHaciaAbajoSiempre` (`DialfsProofs`). The properties speak of the disk between two requests,
  and each request breaks them for some steps, so the inductive invariant (`InvSiempre`) says how
  far each of the three files is at each step: `Desde` and `Marcados` which blocks the bitmap has of a
  file, `DatosDesde` and `ConDatos` which bytes of the file of blocks are its own. With them
  `Geometria` (nothing goes past the end), `Bitmap` (a bit is 1 when a file has it), `Separados` and
  `Apartados` (files are apart, by their metadata out of a compaction and by their bits during one)
  and `Ceros` (a byte that is not zero belongs to a file) are said once for all steps. `Listados` says
  that the list has each file once, `Pedido` and `Restos` what the locals of each step hold.
* The compaction is the hard part, and `Compactacion` is what it needs. The file that grows is out of
  the disk and its blocks are free, so there is room for it (by cardinality: a file that moves leaves
  as many free blocks as it finds, lemma `Intercambio`). The first bit after the first free block is
  the first block of some file (`Mudado`), and `compactar_file_system` looks that file up by its
  first block, which is not enough to tell it from the file that grows: its metadata still name a
  block it has left. `Asentados` is why it does not find the wrong one: a file moved to that block
  has no free block before its end, so it is not looked for again. When nothing is left to move, the
  copy goes after the last bit (`Pegada`).
* A restart keeps the invariant because the bits it adds are those of the metadata, and out of a
  compaction the metadata of a file are ahead of its bits by blocks that nobody else has.
* `ImplementaSiempre` (`ArchivosProofs`): `Spec => Implementa`. The invariant adds `Pedida` (what a
  request asks for: each step belongs to one operation) and `Pegado` (a file that grows is written in its new place before the mapping
  stops looking at its copy), both checked with TLC before. `VistosDe` and `VistoDe` take the lookup in
  the list out of the mapping; then there is one lemma per action: twelve are not seen (the eight
  of `BitsCallados`, which write no byte, among them), and the others are one step of `Archivos`, the
  effect (`Efectua`), the answer (`Respondido`) or both. `Inservible` is kept by stuttering. A file that
  is moved keeps its bytes even when its new place and its old one overlap, and writes on no other (`AparteDelHueco`); the bytes that a truncation adds are zeros by `Ceros`.
* `SoloElPedidoSiempre` follows from the refinement: the steps of `Archivos` change only the file of
  the request.

### Only model-checked

* What `Quantum` does after a crossing (`~SinCruces`).
* `ContextoConservado` with FINALIZAR_PROCESO, in the run `finalizar`: the kill takes the pcb out of
  `cola_exec` at any moment, and the turns of `InvDespacho` do not hold.
* Liveness (`TodosTerminan`, `DetenerResponde`): temporal proofs under fairness, and ENABLED, are
  outside what the prover supports.

## 5. Not modelled

* The console's commands, admission and rejected requests under RR and VRR: `Quantum` is the
  dialogue of the timer, and each of these would multiply its states; they are in `Kernel` for FIFO.
* Interfaces that connect late or disconnect, and EJECUTAR_SCRIPT, which is INICIAR_PROCESO and the
  other commands read from a file.
* Registers and arithmetic of the CPU, and the byte layout of packets: data no protocol depends on.
* Data races inside the commons containers, where undefined behaviour has no useful set of outcomes.
* A machine crash under DIALFS (what `msync` is for), and a second process on the same directory.
* Configuration, logging, start-up and handshakes: straight-line code.

## 6. Plan

Done: `Canales`, `Kernel`, `Cpu` and `Sistema` with its refinement of `Planificador`, `Memoria` and
`Mmu`, `Dialfs` with its refinement of `Archivos`, and `Quantum`, all of them with the proofs of their
safety properties. Left, in order of importance:

1. `Registros` and `Serializacion`: widths of registers and the pcb packet as pure operators.
2. The disconnection of interfaces in `Kernel`.
