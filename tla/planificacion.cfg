CONSTANTS
  MaxPid = 3
  RA = RA
  RB = RB
  Gen = Gen
  Nada = Nada
  Recursos = {RA, RB}
  Interfaces = {Gen}
  Scripts <- ScriptsMixtos
  Instancias <- UnaInstancia
  Grado = 2
  Grados = {1, 3}
  Comandos = {"INICIAR_PROCESO", "INICIAR_PLANIFICACION", "DETENER_PLANIFICACION", "MULTIPROGRAMACION"}
  MaxComandos = 3
  MaxRetenidos = 6
SPECIFICATION Spec
INVARIANTS TypeOK EnUnSoloLugar GradoConservado SemaforosCuentan UnSoloDespacho PaqueteDelEjecutado InterrupcionDelEjecutado ContextoConservado IOEnOrden NoCae
PROPERTIES Implementa DetenidaNoElige
CHECK_DEADLOCK FALSE
