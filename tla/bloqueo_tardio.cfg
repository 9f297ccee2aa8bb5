CONSTANTS
  MaxPid = 2
  RA = RA
  RB = RB
  Gen = Gen
  Nada = Nada
  Recursos = {RA, RB}
  Interfaces = {Gen}
  Scripts <- ScriptsSinRecursos
  Instancias <- UnaInstancia
  Grado = 2
  Grados = {1, 3}
  Comandos = {"INICIAR_PROCESO", "INICIAR_PLANIFICACION"}
  MaxComandos = 1
  MaxRetenidos = 1
SPECIFICATION Spec
INVARIANTS BloqueadoEnCola
CHECK_DEADLOCK FALSE
