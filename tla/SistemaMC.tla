----------------------------- MODULE SistemaMC -----------------------------
(* Instances of Sistema for TLC: resources, interfaces and scripts.        *)
EXTENDS Refinamiento

CONSTANTS RA, RB, Gen

I(o, a) == [op |-> o, arg |-> a]

Salir == I("EXIT", Nada)

UnaInstancia == [r \in Recursos |-> 1]

\* The shapes of the scripts under memoria/scripts_memoria: computation, I/O,
\* the LOCK scripts that hold one resource while they ask for another.
ScriptsSinRecursos ==
    { <<I("COMPUTO", Nada), I("IO", Gen), Salir>>,
      <<I("IO", Gen), I("FALLA", Nada), I("IO", Gen), Salir>> }

ScriptsMixtos ==
    { <<I("COMPUTO", Nada), I("WAIT", RB), I("IO", Gen), I("WAIT", RA), I("SIGNAL", RB), Salir>>,
      <<I("WAIT", RA), I("IO", Gen), I("WAIT", RB), I("FALLA", Nada)>> }

ScriptsLock ==
    { <<I("WAIT", RA), I("IO", Gen), I("WAIT", RB), I("SIGNAL", RA), I("SIGNAL", RB), Salir>>,
      <<I("WAIT", RB), I("WAIT", RA), I("SIGNAL", RB), I("SIGNAL", RA), Salir>>,
      <<I("WAIT", RA), I("WAIT", RB), Salir>> }

\* For FINALIZAR_PROCESO: one script per way of being blocked.
ScriptsFinalizar ==
    { <<I("COMPUTO", Nada), I("IO", Gen), Salir>>,
      <<I("WAIT", RA), I("SIGNAL", RA), Salir>> }

\* The LOCK scripts with requests for what does not exist, a SIGNAL of what is not
\* held and an I/O on an address that is not mapped.
ScriptsErroneos ==
    ScriptsLock \cup
    { <<I("WAIT", RA), I("IO", Gen), I("IO", Nada), Salir>>,
      <<I("WAIT", Nada), Salir>>,
      <<I("SIGNAL", RA), Salir>>,
      <<I("IO_DENEGADA", Gen), Salir>> }

\* Resources always asked for in the same order: no circular wait.
ScriptsOrdenados ==
    { <<I("WAIT", RA), I("IO", Gen), I("WAIT", RB), I("SIGNAL", RA), Salir>>,
      <<I("WAIT", RA), I("SIGNAL", RA), I("WAIT", RB), I("FALLA", Nada)>> }
=============================================================================
